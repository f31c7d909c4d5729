------------------------------ MODULE XmlCatalog ------------------------------
(***************************************************************************)
(* The PortGroup xmlcatalog 1.0: ports keep entries in the XML and SGML    *)
(* catalogs they share.  What a port declares is gathered by option procs  *)
(* while its Portfile is evaluated; the hook post-activate adds it to the  *)
(* catalogs and the hook pre-deactivate takes it out again.  A command of  *)
(* a hook that fails ends the hook and leaves the port active, but for the *)
(* lookups: they are under catch, and one that fails, for whatever reason, *)
(* has not found its key.                                                  *)
(*                                                                         *)
(* An image is one build of a port (a version); base activates at most one *)
(* image of a port at a time, holds a lock while it does, and evaluates    *)
(* the image's own Portfile before it runs a hook.                         *)
(***************************************************************************)
EXTENDS Naturals, Sequences

CONSTANTS
    Images,     \* images of ports
    PortOf,     \* the port an image is of
    Portfile,   \* the statements of an image's Portfile that concern catalogs
    Files,      \* catalog files
    Names,      \* identifiers and file names, the keys of entries
    Root,       \* xml.rootcatalog
    SgmlRoot,   \* sgml.rootcatalog
    ByHand,     \* entries the administrator may have put in the root catalogs
    MaxFaults   \* bound: failing hooks and lookups

Kinds == {"xml", "entity", "rewrite", "sgml"}
Types == {"nextCatalog", "public", "rewriteSystem", "rewriteURI", "CATALOG"}
Entry == [file : Files, type : Types, key : Names]

\* A statement sets an option.  The option procs differ in the list they
\* append to and the type of entry; the entries go to the root catalog, but to
\* the first argument of xml.addtocatalog and sgml.addtocatalog.
Declaration == [kind : Kinds, file : Files, type : Types, keys : Seq(Names)]

ASSUME CatalogAssumption ==
    /\ {Root, SgmlRoot} \subseteq Files
    /\ Portfile \in [Images -> Seq(Declaration)]
    /\ ByHand \subseteq [file : {Root, SgmlRoot}, type : Types, key : Names]
    /\ MaxFaults \in Nat

VARIABLES
    status,   \* of an image: "off", "on", or "part" until its hook has ended well
    files,    \* catalogs that exist
    content,  \* entries in them
    doing,    \* "idle", or what the running hook is doing
    image,    \* the image whose hook runs
    hook,     \* "post-activate" or "pre-deactivate"
    next,     \* the statement that is evaluated next
    lists,    \* what the option procs have gathered
    todo,     \* entries the hook has still to look at
    faults,
    skipped   \* history: entries whose removal was skipped for a failing lookup

catalogVars == <<status, files, content, doing, image, hook, next, lists, todo,
                 faults, skipped>>

CatalogInit ==
    /\ status = [i \in Images |-> "off"]
    /\ content \in SUBSET ByHand
    /\ files = {e.file : e \in content}
    /\ doing = "idle"
    /\ image \in Images
    /\ hook = "post-activate"
    /\ next = 1
    /\ lists = [k \in Kinds |-> <<>>]
    /\ todo = <<>>
    /\ faults = 0
    /\ skipped = {}

-----------------------------------------------------------------------------
(* The Portfile. *)

EntriesOf(s) ==
    [n \in 1 .. Len(s.keys) |-> [file |-> s.file, type |-> s.type, key |-> s.keys[n]]]

\* base starts to activate or deactivate an image.
Begin(i, h) ==
    /\ doing = "idle"
    /\ IF h = "post-activate"
         THEN \A j \in Images : PortOf[j] = PortOf[i] => status[j] = "off"
         ELSE status[i] # "off"
    /\ doing' = "portfile"
    /\ image' = i /\ hook' = h /\ next' = 1
    /\ lists' = [k \in Kinds |-> <<>>]
    /\ status' = [status EXCEPT ![i] = "part"]
    /\ UNCHANGED <<files, content, todo, faults, skipped>>

\* Mutant: set for lappend.
SetOptionAnew ==
    /\ doing = "portfile"
    /\ next <= Len(Portfile[image])
    /\ LET s == Portfile[image][next]
       IN  lists' = [lists EXCEPT ![s.kind] = EntriesOf(s)]
    /\ next' = next + 1
    /\ UNCHANGED <<status, files, content, doing, image, hook, todo, faults, skipped>>

\* An option proc appends to its list, so that an option that is set again
\* keeps what it was set to before.
SetOption ==
    /\ doing = "portfile"
    /\ next <= Len(Portfile[image])
    /\ LET s == Portfile[image][next]
       IN  lists' = [lists EXCEPT ![s.kind] = @ \o EntriesOf(s)]
    /\ next' = next + 1
    /\ UNCHANGED <<status, files, content, doing, image, hook, todo, faults, skipped>>

Order ==
    IF hook = "post-activate"
      THEN lists["xml"] \o lists["entity"] \o lists["rewrite"] \o lists["sgml"]
      ELSE lists["sgml"] \o lists["xml"] \o lists["entity"] \o lists["rewrite"]

\* post-activate first creates the root catalogs that are not there.
RunHook ==
    /\ doing = "portfile"
    /\ next > Len(Portfile[image])
    /\ doing' = hook
    /\ todo' = Order
    /\ files' = IF hook = "post-activate" THEN files \cup {Root, SgmlRoot} ELSE files
    /\ UNCHANGED <<status, content, image, hook, next, lists, faults, skipped>>

-----------------------------------------------------------------------------
(* The hooks. *)

\* xmlcatmgr lookup is given a key and not a type.
Lookup(file, key) == \E e \in content : e.file = file /\ e.key = key

\* What a lookup under catch says of an entry, and what it costs if it fails
\* where it would have found the key.
Found(e, fails) == Lookup(e.file, e.key) /\ ~fails
LookupFails(e, fails) ==
    /\ fails => Lookup(e.file, e.key) /\ faults < MaxFaults
    /\ faults' = IF fails THEN faults + 1 ELSE faults

CreateCatalog ==
    /\ doing = "post-activate"
    /\ todo # <<>>
    /\ Head(todo).file \notin files
    /\ files' = files \cup {Head(todo).file}
    /\ UNCHANGED <<status, content, doing, image, hook, next, lists, todo, faults, skipped>>

\* An entry that is not found is added.  If it is there after all, xmlcatmgr
\* leaves it so, or fails (HookFails).
InstallEntry ==
    /\ doing = "post-activate"
    /\ todo # <<>>
    /\ Head(todo).file \in files
    /\ \E fails \in BOOLEAN :
          LET e == Head(todo)
          IN  /\ LookupFails(e, fails)
              /\ content' = IF Found(e, fails) THEN content ELSE content \cup {e}
    /\ todo' = Tail(todo)
    /\ UNCHANGED <<status, files, doing, image, hook, next, lists, skipped>>

\* Mutant: the catalog is destroyed, as the code no longer does.
UninstallDestroys ==
    /\ doing = "pre-deactivate"
    /\ todo # <<>>
    /\ content' = {e \in content : e.file # Head(todo).file}
    /\ todo' = Tail(todo)
    /\ UNCHANGED <<status, files, doing, image, hook, next, lists, faults, skipped>>

\* Mutant: rewrites are not taken out.
UninstallNoRewrites ==
    /\ doing = "pre-deactivate"
    /\ todo # <<>>
    /\ content' = IF Head(todo).type \in {"rewriteSystem", "rewriteURI"}
                  THEN content ELSE content \ {Head(todo)}
    /\ todo' = Tail(todo)
    /\ UNCHANGED <<status, files, doing, image, hook, next, lists, faults, skipped>>

\* An entry whose key is found is removed; entries of the key that have
\* another type make xmlcatmgr remove fail, and the hook with it (HookFails).
\* An entry whose key is not found is left alone.
UninstallEntry ==
    /\ doing = "pre-deactivate"
    /\ todo # <<>>
    /\ \E fails \in BOOLEAN :
          LET e == Head(todo)
          IN  /\ LookupFails(e, fails)
              /\ Found(e, fails) => e \in content
              /\ content' = IF Found(e, fails) THEN content \ {e} ELSE content
              /\ skipped' = IF fails THEN skipped \cup {e} ELSE skipped \ {e}
    /\ todo' = Tail(todo)
    /\ UNCHANGED <<status, files, doing, image, hook, next, lists>>

EndHook ==
    /\ doing \in {"post-activate", "pre-deactivate"}
    /\ todo = <<>>
    /\ doing' = "idle"
    /\ status' = [status EXCEPT ![image] = IF doing = "post-activate" THEN "on" ELSE "off"]
    /\ UNCHANGED <<files, content, image, hook, next, lists, todo, faults, skipped>>

Abandon ==
    /\ doing' = "idle"
    /\ todo' = <<>>
    /\ UNCHANGED <<status, files, content, image, hook, next, lists, skipped>>

\* A command cannot be run, or base is interrupted.
HookFails ==
    /\ doing \in {"post-activate", "pre-deactivate"}
    /\ \/ faults < MaxFaults /\ faults' = faults + 1
       \/ /\ doing = "pre-deactivate" /\ todo # <<>>
          /\ Lookup(Head(todo).file, Head(todo).key) /\ Head(todo) \notin content
          /\ UNCHANGED faults
    /\ Abandon

CatalogNext ==
    \/ \E i \in Images, h \in {"post-activate", "pre-deactivate"} : Begin(i, h)
    \/ SetOption \/ RunHook
    \/ CreateCatalog \/ InstallEntry \/ UninstallEntry \/ EndHook \/ HookFails

CatalogSpec == CatalogInit /\ [][CatalogNext]_catalogVars

-----------------------------------------------------------------------------
(* Properties. *)

\* Every variable keeps its type, no catalog has entries before it exists, and
\* only the image whose hook runs or was cut short is half way.
CatalogTypeOK ==
    /\ status \in [Images -> {"off", "on", "part"}]
    /\ files \subseteq Files
    /\ content \subseteq Entry
    /\ \A e \in content : e.file \in files
    /\ doing \in {"idle", "portfile", "post-activate", "pre-deactivate"}
    /\ doing # "idle" => status[image] = "part"
    /\ doing \in {"post-activate", "pre-deactivate"} => hook = doing
    /\ image \in Images
    /\ hook \in {"post-activate", "pre-deactivate"}
    /\ next \in Nat
    /\ lists \in [Kinds -> Seq(Entry)]
    /\ todo \in Seq(Entry)
    /\ faults \in Nat
    /\ skipped \subseteq Entry

Elements(s) == {s[n] : n \in 1 .. Len(s)}
DeclaredBy(i, upTo) ==
    UNION {Elements(EntriesOf(Portfile[i][n])) : n \in {m \in 1 .. Len(Portfile[i]) : m < upTo}}
Declared(i) == DeclaredBy(i, Len(Portfile[i]) + 1)

\* No two ports of the tree claim the same key of a catalog.
KeysDisjoint ==
    \A i, j \in Images : PortOf[i] # PortOf[j] =>
        \A e \in Declared(i), f \in Declared(j) : e.file = f.file => e.key # f.key

\* The catalogs serve the ports that are active: every key such a port
\* declares is found, whatever other ports, or other versions of it, were
\* activated and deactivated and whatever hooks were cut short before.
ActiveListed ==
    \A i \in Images : status[i] = "on" =>
        \A e \in Declared(i) : Lookup(e.file, e.key)

\* No entry is left over, though hooks fail half way: what is in a catalog was
\* put there by hand or is declared by an image that is active, or whose hook
\* did not end.  The exception is an entry whose lookup failed the last time it
\* was to be removed: "not found for removal" ends well and leaves it.
NoOrphans ==
    \A e \in content :
        \/ e \in ByHand \/ e \in skipped
        \/ \E i \in Images : status[i] # "off" /\ e \in Declared(i)

\* A deactivation never takes the entries of other ports: "if we update this
\* package other dependent packages will not be reinstalled to replace
\* entries".
OthersKeepEntries ==
    [][\A e \in content \ content' :
          \A i \in Images : status[i] # "off" /\ e \in Declared(i) => i = image]_catalogVars
=============================================================================
