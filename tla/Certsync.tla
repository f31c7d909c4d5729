------------------------------- MODULE Certsync -------------------------------
(***************************************************************************)
(* security/certsync: a program that exports the trusted root certificates *)
(* of the keychains to ${prefix}/etc/openssl/cert.pem.  The port runs it   *)
(* when it is activated and deletes the file when it is deactivated,       *)
(* launchd runs it when keychains or trust settings change, and a user may *)
(* run it by hand with -u.  The port curl-ca-bundle installs a file of the *)
(* same name.                                                              *)
(*                                                                         *)
(* A run reads one trust domain after the other, each in two steps: the    *)
(* certificates with their trust settings, and the evaluation that filters *)
(* them.                                                                   *)
(***************************************************************************)
EXTENDS Naturals, FiniteSets

CONSTANTS
    Certs,        \* root certificates
    None,         \* no file
    Mozilla,      \* the file of curl-ca-bundle
    MaxChanges,   \* bound: changes of trust settings and expiries
    MaxFaults,    \* bound: failing calls and kills
    MaxRunning    \* bound: runs at one time

Runs == {"port", "launchd", "hand"}
Domains == {"user", "admin", "system"}
Settings == {"none", "trust", "deny"}

VARIABLES
    settings,   \* the trust settings of each certificate in each domain
    expired,    \* certificates past their validity
    anchorsAPI, \* Mac OS X 10.4, which has anchors and no trust settings
    port,       \* certsync: "inactive", "activating", "active", "deactivating"
    rival,      \* curl-ca-bundle is active
    loaded,     \* launchd has the job
    pending,    \* launchd has seen a change it has not run the job for
    bundle,     \* etc/openssl/cert.pem
    pc,         \* what each run does next
    trusted,    \* result of certificatesForTrustDomain so far
    anchors,    \* certificates of the domains already done
    changes, faults,
    kept,       \* history: what stayed trusted and valid since the run began
    barred,     \* history: what was at no time to be exported since then
    alone,      \* history: no change, failure or other run since then
    excused,    \* history: since the last run that had the keychains to itself,
                \* runs overlapped, one failed or passed a certificate by, an
                \* event was missed, a certificate expired, or a user exported
    outlived    \* history: a run was there between the deletion of the bundle
                \* and the removal of the port's files

env == <<settings, expired, anchorsAPI, changes>>
mac == <<port, rival>>
job == <<loaded, pending>>
work == <<trusted, anchors>>
ghosts == <<kept, barred, alone>>
vars == <<env, mac, job, bundle, pc, work, faults, ghosts, excused, outlived>>

userAnchors(r) == r = "hand"

Running == {r \in Runs : pc[r] # "idle"}

-----------------------------------------------------------------------------
(* The Security framework. *)

\* The setting that counts for certificate c: the user's before the
\* administrator's before the system's, and the user's only while the keychain
\* preference domain is the user's.
Opinion(s, c, user) ==
    CASE user /\ s["user"][c] # "none" -> s["user"][c]
      [] ~(user /\ s["user"][c] # "none") /\ s["admin"][c] # "none" -> s["admin"][c]
      [] OTHER -> s["system"][c]

\* ValidateSystemTrust(c) under settings s with certificates x expired.
Valid(s, x, c, user) == c \notin x /\ Opinion(s, c, user) = "trust"

ValidateSystemTrust(c, user) == Valid(settings, expired, c, user)

\* The certificates a run that nothing disturbs exports.
ExportableIn(s, x, user) ==
    {c \in Certs : \/ Valid(s, x, c, FALSE)
                   \/ user /\ s["user"][c] = "trust" /\ Valid(s, x, c, TRUE)}

Exportable(user) == ExportableIn(settings, expired, user)

\* The certificates domain d lists as trusted under settings s; the anchors
\* are the same for every domain.
ListedIn(s, d) ==
    {c \in Certs : s[IF anchorsAPI THEN "system" ELSE d][c] = "trust"}

\* The pairs of a domain and a certificate it gives a run that passes now.
GoodIn(s, x, user) ==
    {dc \in Domains \X Certs :
        /\ dc[1] = "user" => user
        /\ dc[2] \in ListedIn(s, dc[1])
        /\ Valid(s, x, dc[2], dc[1] = "user")}

-----------------------------------------------------------------------------
Init ==
    /\ settings \in [Domains -> [Certs -> Settings]]
    /\ \A c \in Certs : settings["system"][c] # "deny"
    /\ expired = {}
    /\ anchorsAPI \in BOOLEAN
    /\ anchorsAPI => settings["user"] = settings["admin"]
                     /\ \A c \in Certs : settings["admin"][c] = "none"
    /\ port = "inactive" /\ rival = FALSE
    /\ loaded = FALSE /\ pending = FALSE
    /\ bundle = None
    /\ pc = [r \in Runs |-> "idle"]
    /\ trusted = [r \in Runs |-> {}] /\ anchors = [r \in Runs |-> {}]
    /\ changes = 0 /\ faults = 0
    /\ kept = [r \in Runs |-> {}] /\ barred = [r \in Runs |-> {}]
    /\ alone = [r \in Runs |-> FALSE]
    /\ excused = FALSE /\ outlived = FALSE

\* Run r is started: main, exportCertificates.
Begin(r) ==
    /\ pc[r] = "idle" /\ Cardinality(Running) < MaxRunning
    /\ pc' = [pc EXCEPT ![r] = IF userAnchors(r) THEN "listUser" ELSE "listAdmin"]
    /\ anchors' = [anchors EXCEPT ![r] = {}]
    /\ trusted' = [trusted EXCEPT ![r] = {}]
    /\ kept' = [kept EXCEPT ![r] = GoodIn(settings, expired, userAnchors(r))]
    /\ barred' = [barred EXCEPT ![r] = Certs \ Exportable(userAnchors(r))]
    /\ alone' = [q \in Runs |-> q = r /\ Running = {}]
    /\ excused' = (excused \/ Running # {})

Steps == {"listUser", "filterUser", "listAdmin", "filterAdmin",
          "listSystem", "filterSystem", "write"}

\* What a run does after a step; the preference domain is set on the way into a
\* domain, and the certificates are exported into memory on the way to "write".
After == [listUser |-> "filterUser", filterUser |-> "listAdmin",
          listAdmin |-> "filterAdmin", filterAdmin |-> "listSystem",
          listSystem |-> "filterSystem", filterSystem |-> "write"]

DomainOf(step) ==
    CASE step \in {"listUser", "filterUser"} -> "user"
      [] step \in {"listAdmin", "filterAdmin"} -> "admin"
      [] OTHER -> "system"

\* The process ends, and the memory goes.
End(r) ==
    /\ pc' = [pc EXCEPT ![r] = "idle"]
    /\ trusted' = [trusted EXCEPT ![r] = {}] /\ anchors' = [anchors EXCEPT ![r] = {}]
    /\ kept' = [kept EXCEPT ![r] = {}] /\ barred' = [barred EXCEPT ![r] = {}]
    /\ alone' = [alone EXCEPT ![r] = FALSE]

\* A port that was being activated is active when its run is over, even if the
\* run failed.
Activated(r) == port' = IF r = "port" THEN "active" ELSE port

Goes(r, step) ==
    /\ pc[r] = step
    /\ pc' = [pc EXCEPT ![r] = After[step]]

\* A run gets the certificates cs in a step on domain d, of which it may lose
\* one to a call that fails.
Gets(r, d, cs, into) ==
    \E lost \in {{}} \cup {{c} : c \in cs} :
        /\ lost # {} => faults < MaxFaults
        /\ faults' = faults + Cardinality(lost)
        /\ into' = [into EXCEPT ![r] = @ \cup (cs \ lost)]
        /\ kept' = [kept EXCEPT ![r] = @ \ ({d} \X lost)]
        /\ alone' = [alone EXCEPT ![r] = @ /\ lost = {}]
        /\ excused' = (excused \/ lost # {})
        /\ UNCHANGED <<env, mac, job, bundle, barred, outlived>>

\* certificatesForTrustDomain: the trusted certificates of a domain, none where
\* there are no trust settings.  One whose settings cannot be fetched is passed by.
List(r) ==
    \E step \in {"listUser", "listAdmin", "listSystem"} :
        /\ Goes(r, step)
        /\ Gets(r, DomainOf(step), ListedIn(settings, DomainOf(step)), trusted)
        /\ anchorsAPI => faults' = faults
        /\ UNCHANGED anchors

\* Mutant: the preference domain stays the user's for the domains after it.
FilterAsUser(r) ==
    \E step \in {"filterUser", "filterAdmin", "filterSystem"} :
        /\ Goes(r, step)
        /\ Gets(r, DomainOf(step),
                {c \in trusted[r] : ValidateSystemTrust(c, userAnchors(r))}, anchors)
        /\ trusted' = [trusted EXCEPT ![r] = {}]

\* ... and those of them that the system does not trust, or that it fails to
\* evaluate, are removed.
Filter(r) ==
    \E step \in {"filterUser", "filterAdmin", "filterSystem"} :
        /\ Goes(r, step)
        /\ Gets(r, DomainOf(step),
                {c \in trusted[r] : ValidateSystemTrust(c, step = "filterUser")}, anchors)
        /\ trusted' = [trusted EXCEPT ![r] = {}]

\* Mutant: a bundle that is there is left alone.
WriteOnce(r) ==
    /\ pc[r] = "write"
    /\ End(r) /\ Activated(r)
    /\ bundle' = IF bundle \in {None, Mozilla} THEN anchors[r] ELSE bundle
    /\ excused' = (userAnchors(r) \/ (excused /\ ~alone[r]))
    /\ UNCHANGED <<env, rival, job, faults, outlived>>

\* writeToFile with NSDataWritingAtomic.
Write(r) ==
    /\ pc[r] = "write"
    /\ End(r) /\ Activated(r)
    /\ bundle' = anchors[r]
    /\ excused' = (userAnchors(r) \/ (excused /\ ~alone[r]))
    /\ UNCHANGED <<env, rival, job, faults, outlived>>

\* A call fails, pemData is released without having been set, the array of 10.4
\* is released once too often, or the process is killed.
Fail(r) ==
    /\ pc[r] # "idle"
    /\ faults < MaxFaults /\ faults' = faults + 1
    /\ End(r) /\ Activated(r)
    /\ excused' = TRUE
    /\ UNCHANGED <<env, rival, job, bundle, outlived>>

Run(r) == List(r) \/ Filter(r) \/ Write(r)

-----------------------------------------------------------------------------
(* The ports, launchd and the keychains. *)

\* The files of certsync are put in place, which a file of its rival or
\* "conflicts" prevents, and post-activate runs update-ca-certificates.
Activate ==
    /\ port = "inactive" /\ ~rival
    /\ port' = "activating"
    /\ Begin("port")
    /\ UNCHANGED <<env, rival, job, bundle, faults, outlived>>

\* Mutant: the file is left to its readers.
PreDeactivateKeeps ==
    /\ port = "active"
    /\ port' = "deactivating"
    /\ UNCHANGED <<env, rival, job, bundle, pc, work, faults, ghosts, excused, outlived>>

PreDeactivate ==
    /\ port = "active"
    /\ port' = "deactivating"
    /\ bundle' = None
    /\ outlived' = (outlived \/ Running # {})
    /\ UNCHANGED <<env, rival, job, pc, work, faults, ghosts, excused>>

\* The files of certsync are removed; what runs goes on.
Deactivate ==
    /\ port = "deactivating"
    /\ port' = "inactive"
    /\ UNCHANGED <<env, rival, job, bundle, pc, work, faults, ghosts, excused, outlived>>

\* curl-ca-bundle brings its own cert.pem, unless a file is there.
ActivateRival ==
    /\ port = "inactive" /\ ~rival /\ bundle = None
    /\ rival' = TRUE /\ bundle' = Mozilla
    /\ UNCHANGED <<env, port, job, pc, work, faults, ghosts, excused, outlived>>

DeactivateRival ==
    /\ rival
    /\ rival' = FALSE /\ bundle' = None
    /\ UNCHANGED <<env, port, job, pc, work, faults, ghosts, excused, outlived>>

Load ==
    /\ port = "active" /\ ~loaded
    /\ loaded' = TRUE
    /\ UNCHANGED <<env, mac, pending, bundle, pc, work, faults, ghosts, excused, outlived>>

\* The job is taken from launchd, and its process with it.
Unload ==
    /\ loaded
    /\ loaded' = FALSE /\ pending' = FALSE
    /\ End("launchd")
    /\ excused' = TRUE
    /\ UNCHANGED <<env, mac, bundle, faults, outlived>>

\* launchd starts the job for a change, one process at a time.
Launch ==
    /\ loaded /\ pending
    /\ port # "inactive"
    /\ pending' = FALSE
    /\ Begin("launchd")
    /\ outlived' = (outlived \/ port = "deactivating")
    /\ UNCHANGED <<env, mac, loaded, bundle, faults>>

\* A user runs certsync -u -o on the same file.
RunByHand ==
    /\ port # "inactive"
    /\ Begin("hand")
    /\ outlived' = (outlived \/ port = "deactivating")
    /\ UNCHANGED <<env, mac, job, bundle, faults>>

\* What a run may still count on when the settings are s and x have expired.
Track(s, x) ==
    /\ kept' = [r \in Runs |-> kept[r] \cap GoodIn(s, x, userAnchors(r))]
    /\ barred' = [r \in Runs |-> barred[r] \ ExportableIn(s, x, userAnchors(r))]
    /\ alone' = [r \in Runs |-> FALSE]

\* Mutant: the directory of the trust settings is not among the WatchPaths.
ChangeTrustUnwatched(d, c) ==
    /\ changes < MaxChanges /\ changes' = changes + 1
    /\ anchorsAPI => d = "system"
    /\ \E value \in Settings \ {settings[d][c]} :
          settings' = [settings EXCEPT ![d][c] = value]
    /\ Track(settings', expired)
    /\ \E seen \in (IF ~loaded \/ d = "user" THEN {FALSE}
                    ELSE IF pc["launchd"] = "idle" THEN {TRUE} ELSE BOOLEAN) :
          /\ pending' = (pending \/ (seen /\ d = "system"))
          /\ excused' = (excused \/ (~seen /\ d # "user"))
    /\ UNCHANGED <<expired, anchorsAPI, mac, loaded, bundle, pc, work, faults, outlived>>

\* The trust settings of a certificate are changed.  The paths of the admin and
\* system domain are watched; a change made while the job runs may be missed.
ChangeTrust(d, c) ==
    /\ changes < MaxChanges /\ changes' = changes + 1
    /\ anchorsAPI => d = "system"
    /\ \E value \in Settings \ {settings[d][c]} :
          settings' = [settings EXCEPT ![d][c] = value]
    /\ Track(settings', expired)
    /\ \E seen \in (IF ~loaded \/ d = "user" THEN {FALSE}
                    ELSE IF pc["launchd"] = "idle" THEN {TRUE} ELSE BOOLEAN) :
          /\ pending' = (pending \/ seen)
          /\ excused' = (excused \/ (~seen /\ d # "user"))
    /\ UNCHANGED <<expired, anchorsAPI, mac, loaded, bundle, pc, work, faults, outlived>>

\* A certificate expires, which changes no file.
Expire(c) ==
    /\ changes < MaxChanges /\ changes' = changes + 1
    /\ c \notin expired
    /\ expired' = expired \cup {c}
    /\ Track(settings, expired')
    /\ excused' = TRUE
    /\ UNCHANGED <<settings, anchorsAPI, mac, job, bundle, pc, work, faults, outlived>>

Next ==
    \/ \E r \in Runs : Run(r) \/ Fail(r)
    \/ Activate \/ PreDeactivate \/ Deactivate
    \/ ActivateRival \/ DeactivateRival
    \/ Load \/ Unload \/ Launch \/ RunByHand
    \/ \E d \in Domains, c \in Certs : ChangeTrust(d, c)
    \/ \E c \in Certs : Expire(c)

Spec == Init /\ [][Next]_vars

\* launchd starts what is due, and a run that was started ends.
FairSpec == Spec /\ WF_vars(Launch) /\ \A r \in Runs : WF_vars(Run(r))

-----------------------------------------------------------------------------
(* Properties. *)

\* Every variable keeps its type; activation lasts as long as its run, and
\* launchd remembers events only for a job it has.
TypeOK ==
    /\ settings \in [Domains -> [Certs -> Settings]]
    /\ expired \subseteq Certs /\ anchorsAPI \in BOOLEAN
    /\ port \in {"inactive", "activating", "active", "deactivating"}
    /\ {rival, loaded, pending, excused, outlived} \subseteq BOOLEAN
    /\ bundle \in {None, Mozilla} \cup SUBSET Certs
    /\ pc \in [Runs -> Steps \cup {"idle"}]
    /\ trusted \in [Runs -> SUBSET Certs] /\ anchors \in [Runs -> SUBSET Certs]
    /\ changes \in Nat /\ faults \in Nat
    /\ kept \in [Runs -> SUBSET (Domains \X Certs)]
    /\ barred \in [Runs -> SUBSET Certs] /\ alone \in [Runs -> BOOLEAN]
    /\ pc["port"] # "idle" <=> port = "activating"
    /\ pending => loaded

\* "Fetch all trusted roots": whatever changes while a run reads one domain
\* after the other, a certificate that stays trusted in one domain, valid and
\* readable from the run's first line to its last is exported by it.
ExportsKept ==
    \A r \in Runs : pc[r] = "write" => {dc[2] : dc \in kept[r]} \subseteq anchors[r]

\* "Verify that the root certificate is trusted by the system": no run exports
\* a certificate that was at no moment of it trusted and valid, not even one
\* that a domain lists as trusted while another one denies it.
ExportsNoneBarred ==
    \A r \in Runs : pc[r] = "write" => anchors[r] \cap barred[r] = {}

\* A run exports all it should and nothing else, though what it reads changes
\* between any two of its steps.
ExportsRight == ExportsKept /\ ExportsNoneBarred

\* When nothing runs and launchd has no event left, the bundle of the active
\* port is what the keychains say now, unless since the last run that had the
\* keychains to itself two runs overlapped (the one that read first may have
\* written last), a run failed or passed a certificate by, an event was missed,
\* a certificate expired or a user exported by hand.
FreshButFor ==
    port = "active" /\ loaded /\ ~pending /\ Running = {}
        => excused \/ bundle = Exportable(FALSE)

\* pre-deactivate deletes the bundle for good, and the file of curl-ca-bundle
\* stays as it was installed, unless a run of certsync was still there between
\* the deletion and the removal of the port's files.
NothingLeft ==
    port = "inactive" => outlived \/ bundle = IF rival THEN Mozilla ELSE None

\* A change launchd can see reaches the bundle, while the job stays loaded and
\* the port active and nothing is to excused.
CatchesUp ==
    port = "active" /\ loaded /\ bundle # Exportable(FALSE)
        ~> \/ port # "active" \/ ~loaded \/ excused
           \/ bundle = Exportable(FALSE)
=============================================================================
