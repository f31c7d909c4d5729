----------------------------- MODULE MCXmlCatalog -----------------------------
(* Portfiles for checking XmlCatalog: two versions of a stylesheet port that *)
(* shares a catalog file with openjade, and one prefix rewritten for system *)
(* identifiers and for URIs, as the port xhtml1 does.                        *)
EXTENDS XmlCatalog

CONSTANTS xsl1, xsl2, openjade, root, sgmlroot, jade, k1, k2, k3, k4, k5

Set(kind, file, type, keys) == [kind |-> kind, file |-> file, type |-> type, keys |-> keys]

MCImages == {xsl1, xsl2, openjade}
MCPortOf == [i \in MCImages |-> IF i = openjade THEN "openjade" ELSE "xsl"]
MCPortfile ==
    [i \in MCImages |->
        CASE i = xsl1 -> <<Set("xml", root, "nextCatalog", <<k1>>),
                           Set("xml", root, "nextCatalog", <<k1, k2>>),
                           Set("sgml", sgmlroot, "CATALOG", <<k1>>)>>
          [] i = xsl2 -> <<Set("entity", root, "public", <<k1>>),
                           Set("rewrite", root, "rewriteSystem", <<k3>>),
                           Set("rewrite", root, "rewriteURI", <<k3, k5>>),
                           Set("sgml", jade, "CATALOG", <<k2>>)>>
          [] i = openjade -> <<Set("sgml", sgmlroot, "CATALOG", <<k4>>),
                               Set("sgml", jade, "CATALOG", <<k5>>)>>]
MCByHand == {[file |-> root, type |-> "nextCatalog", key |-> k1],
             [file |-> sgmlroot, type |-> "CATALOG", key |-> k2],
             [file |-> root, type |-> "rewriteSystem", key |-> k5]}
=============================================================================
