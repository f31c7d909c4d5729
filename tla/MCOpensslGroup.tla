---------------------------- MODULE MCOpensslGroup ----------------------------
(* Constants for checking OpensslGroup on small instances. *)
EXTENDS OpensslGroup

MCSettings ==
    {<<>>, <<"build_flags">>, <<"pkgconfig", "cmake">>, <<"env_vars", "compiler_wrap">>,
     <<"build_flags", Unknown>>}
=============================================================================
