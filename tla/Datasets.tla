------------------------------ MODULE Datasets ------------------------------
(***************************************************************************)
(* Datasets behind the local API: SourceRegistry over InMemoryObjectStore, *)
(* and the threads that profile their artifacts or tombstone them.  The    *)
(* registry writes object and version one after the other, checks a        *)
(* dataset's id before it stores it, profiles take minutes, and threads    *)
(* switch between any two of these steps.  Uploads run in the server's     *)
(* event loop, one at a time, beside the threads.                          *)
(*                                                                         *)
(* An artifact is a dataset and a payload: artifact id, object key and the *)
(* entry of _by_dataset_hash are all made of just these, so that status    *)
(* stands for _versions and _by_dataset_hash, object for the store.        *)
(***************************************************************************)
EXTENDS ProfileSupervisor

CONSTANTS Principals, Names,    \* actors; dataset ids
          Uploads, Files,       \* upload ids; file names
          Payloads,
          Parses                \* the <<file name, payload>> a parser of that format accepts

ASSUME ParsesAssumption == Parses \subseteq Files \X Payloads

VARIABLES owner,        \* owner[d]: the dataset's in the registry, or NONE
          shown,        \* shown[d]: the owner the application knows, or NONE
          creating,     \* creating[t]: the dataset a thread creates, or NONE
          grants,       \* grants[d][p]
          session,      \* session[u]: the UploadSession, or NONE
          completed,    \* completed[u]: the artifact it ended in, or NONE
          storing,      \* the upload whose object is stored and not listed, or NONE
          status,       \* status[a]: of the version
          object,       \* object[a]: of the stored object
          profiles,     \* artifacts whose profile is cached
          req           \* req[t]: the request of a thread, or NONE

rvars == <<owner, shown, creating, grants, session, completed, storing>>
others == <<owner, shown, creating, grants, session, completed, storing,
            status, object, profiles, req>>
dvars == <<owner, shown, creating, grants, session, completed, storing,
           status, object, profiles, req, parent, left, child, message, pipe, answer>>

Artifacts == Names \X Payloads
Access == {"none", "read", "write"}
Sessions == [dataset : Names, actor : Principals, file : Files]
Requests == [art : Artifacts,
             at : {"visible", "computing", "object to delete", "version to mark"}]
Creations == [name : Names, actor : Principals, at : {"checked", "registered"}]
Completions == [id : Uploads, art : Artifacts]

ASSUME NoneAssumption ==
    NONE \notin Artifacts \cup Sessions \cup Requests \cup Creations \cup Completions

DInit == /\ owner = [d \in Names |-> NONE]
         /\ shown = [d \in Names |-> NONE]
         /\ creating = [t \in Threads |-> NONE]
         /\ grants = [d \in Names |-> [p \in Principals |-> "none"]]
         /\ session = [u \in Uploads |-> NONE]
         /\ completed = [u \in Uploads |-> NONE]
         /\ storing = NONE
         /\ status = [a \in Artifacts |-> "absent"]
         /\ object = [a \in Artifacts |-> "absent"]
         /\ profiles = {}
         /\ req = [t \in Threads |-> NONE]
         /\ SInit

Idle(t) == req[t] = NONE /\ creating[t] = NONE
Creates(t, at) == creating[t] # NONE /\ creating[t].at = at
Apart == <<session, completed, storing, status, object, profiles, req, svars>>

(* create_dataset: nobody's so far, in the application and the registry.   *)
(* An owner who asks again is answered what there is.                      *)
BeginCreate(t, d, p) ==
    /\ Idle(t) /\ shown[d] = NONE /\ owner[d] = NONE
    /\ creating' = [creating EXCEPT ![t] = [name |-> d, actor |-> p, at |-> "checked"]]
    /\ UNCHANGED <<owner, shown, grants, Apart>>

(* The registry stores it, whatever another thread stored since: its owner *)
(* may read and write.                                                     *)
Register(t) ==
    /\ Creates(t, "checked")
    /\ LET d == creating[t].name  p == creating[t].actor
       IN  /\ owner' = [owner EXCEPT ![d] = p]
           /\ grants' = [grants EXCEPT ![d] = [@ EXCEPT ![p] = "write"]]
    /\ creating' = [creating EXCEPT ![t].at = "registered"]
    /\ UNCHANGED <<shown, Apart>>

(* And then the application does. *)
Show(t) ==
    /\ Creates(t, "registered")
    /\ shown' = [shown EXCEPT ![creating[t].name] = creating[t].actor]
    /\ creating' = [creating EXCEPT ![t] = NONE]
    /\ UNCHANGED <<owner, grants, Apart>>

(* grant: also what takes a write access away again, the owner's own too. *)
Grant(d, p, q, access) ==
    /\ owner[d] = p /\ access \in {"read", "write"}
    /\ grants' = [grants EXCEPT ![d] = [@ EXCEPT ![q] = access]]
    /\ UNCHANGED <<owner, shown, creating, Apart>>

(* begin_upload: an upload id that is taken answers its own session or an  *)
(* error, and changes nothing.                                             *)
BeginUpload(u, d, p, f) ==
    /\ storing = NONE
    /\ grants[d][p] = "write" /\ session[u] = NONE
    /\ session' = [session EXCEPT ![u] = [dataset |-> d, actor |-> p, file |-> f]]
    /\ UNCHANGED <<owner, shown, creating, grants, completed, storing,
                   status, object, profiles, req, svars>>

(* put_immutable: a key that was ever written keeps the object it has. *)
PutImmutable(a) == object' = [object EXCEPT ![a] = IF @ = "absent" THEN "live" ELSE @]

(* Who may complete an upload, with what, and what that is the first of. *)
MayComplete_Again(u, p) == /\ session[u] # NONE /\ session[u].actor = p
                           /\ grants[session[u].dataset][p] = "write"

MayComplete(u, p) == /\ session[u] # NONE /\ session[u].actor = p
                     /\ grants[session[u].dataset][p] = "write"
                     /\ completed[u] = NONE

Accepted(u, h) == <<session[u].file, h>> \in Parses

NewVersion_Tombstoned(a) == status[a] # "ready"
NewVersion(a) == status[a] = "absent"

(* complete_upload: write access is asked for again.  A completed upload   *)
(* answers its version or an error.  Bytes the dataset has had before are  *)
(* its old version, tombstoned or not; of new ones the object is stored.   *)
CompleteUpload(u, p, h) ==
    /\ storing = NONE
    /\ MayComplete(u, p) /\ Accepted(u, h)
    /\ LET a == <<session[u].dataset, h>>
       IN  \/ /\ NewVersion(a)
              /\ PutImmutable(a)
              /\ storing' = [id |-> u, art |-> a]
              /\ UNCHANGED completed
           \/ /\ ~NewVersion(a)
              /\ completed' = [completed EXCEPT ![u] = a]
              /\ UNCHANGED <<object, storing>>
    /\ UNCHANGED <<owner, shown, creating, grants, session, status, profiles, req, svars>>

(* Then the version is listed.  Of its three dicts threads read the first; *)
(* the other two only matter to the next upload.                           *)
ListVersion ==
    /\ storing # NONE
    /\ status' = [status EXCEPT ![storing.art] = "ready"]
    /\ completed' = [completed EXCEPT ![storing.id] = storing.art]
    /\ storing' = NONE
    /\ UNCHANGED <<owner, shown, creating, grants, session, object, profiles, req, svars>>

-----------------------------------------------------------------------------
(* A thread's request, step by step. *)
Go(t, a, at) == req' = [req EXCEPT ![t] = [art |-> a, at |-> at]]
Done(t) == req' = [req EXCEPT ![t] = NONE]

(* tombstone: the owner's, of a version that is not tombstoned yet. *)
BeginTombstone(t, a, p) ==
    /\ Idle(t) /\ owner[a[1]] = p /\ status[a] = "ready"
    /\ Go(t, a, "object to delete")
    /\ UNCHANGED <<rvars, status, object, profiles, svars>>

TombstoneObject_Skipped(t) ==
    /\ req[t] # NONE /\ req[t].at = "object to delete"
    /\ Go(t, req[t].art, "version to mark")
    /\ UNCHANGED <<rvars, status, object, profiles, svars>>

TombstoneObject(t) ==
    /\ req[t] # NONE /\ req[t].at = "object to delete"
    /\ object' = [object EXCEPT ![req[t].art] = "deleted"]
    /\ Go(t, req[t].art, "version to mark")
    /\ UNCHANGED <<rvars, status, profiles, svars>>

TombstoneVersion(t) ==
    /\ req[t] # NONE /\ req[t].at = "version to mark"
    /\ status' = [status EXCEPT ![req[t].art] = "tombstoned"]
    /\ Done(t)
    /\ UNCHANGED <<rvars, object, profiles, svars>>

(* The two checks of get_version, in the registry and in the store. *)
GetVersion(a, p) == grants[a[1]][p] # "none" /\ status[a] = "ready"
Stored(a) == object[a] = "live"

(* profile_dataset: the application knows the actor for the owner;         *)
(* get_version asks for read access, a ready version, and its object.      *)
BeginProfile(t, a, p) ==
    /\ Idle(t) /\ shown[a[1]] = p
    /\ GetVersion(a, p) /\ Stored(a)
    /\ Go(t, a, "visible")
    /\ UNCHANGED <<rvars, status, object, profiles, svars>>

(* A cached profile is answered as it is; otherwise the object is fetched, *)
(* once more, and the supervisor spawns a process for it.                  *)
LookUp(t) ==
    /\ req[t] # NONE /\ req[t].at = "visible"
    /\ IF req[t].art \notin profiles /\ Stored(req[t].art)
       THEN Go(t, req[t].art, "computing") /\ Spawn(t)
       ELSE Done(t) /\ UNCHANGED svars
    /\ UNCHANGED <<rvars, status, object, profiles>>

KeepProfile_AnyAnswer(t) ==
    /\ req[t] # NONE /\ parent[t] = "answered"
    /\ profiles' = profiles \cup {req[t].art}
    /\ Done(t)
    /\ Discard(t)
    /\ UNCHANGED <<rvars, status, object>>

(* A result is cached and answered, whatever became of the artifact        *)
(* meanwhile; compute errors become a 422, a ValueError a 500.  The check  *)
(* of its digest never fails: the key names it, an object never changes.   *)
KeepProfile(t) ==
    /\ req[t] # NONE /\ parent[t] = "answered"
    /\ profiles' = IF answer[t] = "ok" THEN profiles \cup {req[t].art} ELSE profiles
    /\ Done(t)
    /\ Discard(t)
    /\ UNCHANGED <<rvars, status, object>>

Goes(t) == TombstoneObject(t) \/ TombstoneVersion(t) \/ LookUp(t) \/ KeepProfile(t)

DNext == \/ \E t \in Threads, d \in Names, p \in Principals : BeginCreate(t, d, p)
         \/ \E t \in Threads : Register(t) \/ Show(t)
         \/ \E d \in Names, p, q \in Principals, access \in Access : Grant(d, p, q, access)
         \/ \E u \in Uploads, d \in Names, p \in Principals, f \in Files : BeginUpload(u, d, p, f)
         \/ \E u \in Uploads, p \in Principals, h \in Payloads : CompleteUpload(u, p, h)
         \/ ListVersion
         \/ \E t \in Threads, a \in Artifacts, p \in Principals :
               BeginTombstone(t, a, p) \/ BeginProfile(t, a, p)
         \/ \E t \in Threads : Goes(t)
         \/ SupervisorStep /\ UNCHANGED others

(* Threads and processes are scheduled, and time passes; nobody has to     *)
(* send a request, and no child has to come to a result.                   *)
DSpec == /\ DInit /\ [][DNext]_dvars
         /\ \A t \in Threads : WF_dvars(Goes(t)) /\ WF_dvars(Ends(t) /\ UNCHANGED others)
         /\ SF_dvars(STick /\ UNCHANGED others)

-----------------------------------------------------------------------------
(* The variables have their types, and an upload ends in an artifact of    *)
(* its own dataset, whose bytes are what its file name says.               *)
DTypeOK ==
    /\ owner \in [Names -> Principals \cup {NONE}]
    /\ shown \in [Names -> Principals \cup {NONE}]
    /\ creating \in [Threads -> Creations \cup {NONE}]
    /\ grants \in [Names -> [Principals -> Access]]
    /\ session \in [Uploads -> Sessions \cup {NONE}]
    /\ completed \in [Uploads -> Artifacts \cup {NONE}]
    /\ \A u \in Uploads : completed[u] # NONE =>
          /\ session[u] # NONE
          /\ completed[u][1] = session[u].dataset
          /\ <<session[u].file, completed[u][2]>> \in Parses
    /\ storing \in Completions \cup {NONE}
    /\ storing # NONE =>
          /\ session[storing.id] # NONE /\ completed[storing.id] = NONE
          /\ storing.art[1] = session[storing.id].dataset
          /\ <<session[storing.id].file, storing.art[2]>> \in Parses
    /\ status \in [Artifacts -> {"absent", "ready", "tombstoned"}]
    /\ object \in [Artifacts -> {"absent", "live", "deleted"}]
    /\ profiles \subseteq Artifacts
    /\ req \in [Threads -> Requests \cup {NONE}]
    /\ parent \in [Threads -> {"idle", "joining", "answered", "stuck"}]
    /\ left \in [Threads -> 0 .. Deadline]
    /\ child \in [Threads -> {"none", "computing", "exiting", "dead"}]
    /\ message \in [Threads -> Messages \cup {NONE}]
    /\ pipe \in [Threads -> {"empty", "part", "whole"}]
    /\ \A t \in Threads : pipe[t] # "empty" => message[t] \in Messages
    /\ answer \in [Threads -> Verdicts \cup {"ValueError", NONE}]

\* A tombstone of this artifact has deleted the object and not marked the version.
HalfTombstoned(a) == \E t \in Threads : req[t] # NONE /\ req[t].art = a /\ req[t].at = "version to mark"

\* An upload of this artifact has stored the object and not listed the version.
HalfUploaded(a) == storing # NONE /\ storing.art = a

(* Registry and store agree on every artifact but for a request between    *)
(* its two writes: a version is listed only for an object that was stored, *)
(* and an object is unlisted only while its upload is about to list it; a  *)
(* tombstoned version's object is gone, and a ready version's is there     *)
(* unless a tombstone is about to mark it.                                 *)
StoresAgree ==
    \A a \in Artifacts :
        /\ status[a] # "absent" => object[a] # "absent"
        /\ status[a] = "absent" /\ object[a] # "absent" => HalfUploaded(a)
        /\ status[a] = "tombstoned" => object[a] = "deleted"
        /\ status[a] = "ready" /\ object[a] = "deleted" => HalfTombstoned(a)

(* Registry and object store are both written by every upload and every    *)
(* tombstone, in two steps and without a lock between them: they disagree  *)
(* on an artifact only while such a request is between the two.            *)
(* ingestion/sources.py:179, 193, 214, 216.                                *)
RegistryAgrees == DTypeOK /\ StoresAgree

(* An upload id stands for one upload: neither its session nor the         *)
(* artifact it ended in is ever replaced, however often it is sent again   *)
(* and whatever bytes come with it.                                        *)
UploadsSettle ==
    [][\A u \in Uploads : /\ session[u] # NONE => session'[u] = session[u]
                          /\ completed[u] # NONE => completed'[u] = completed[u]]_dvars

(* Deleted bytes stay deleted: no later upload of the same content, under  *)
(* any id, by anybody, brings version or object back.                      *)
TombstonedForGood ==
    [][\A a \in Artifacts :
          /\ status[a] = "tombstoned" => status'[a] = "tombstoned"
          /\ object[a] = "deleted" => object'[a] = "deleted"]_dvars

(* What is cached was computed in whole from the artifact's stored bytes:  *)
(* a profile enters the cache only with a complete message, a result, of a *)
(* child that was spawned for this artifact.                               *)
CachedIsComputed ==
    [][\A a \in profiles' \ profiles :
          \E t \in Threads : /\ req[t] # NONE /\ req[t].art = a
                             /\ pipe[t] = "whole" /\ message[t].verdict = "ok"]_dvars

AtComputing(t) == req[t] # NONE /\ req[t].at = "computing"

(* No process is left behind: a child is alive only while a request waits  *)
(* for it.                                                                 *)
ChildEndsWithCall ==
    \A t \in Threads : child[t] \in {"computing", "exiting"} =>
          parent[t] = "joining" /\ AtComputing(t)

(* Every request ends, except one whose child was killed with half of its  *)
(* message in the pipe.                                                    *)
RequestsEnd == \A t \in Threads : req[t] # NONE ~> (req[t] = NONE \/ parent[t] = "stuck")

(* supervisor.py:20 says of ComputeLimitError: "The profile process        *)
(* exceeded an admission or resource limit."  So a call is given one only  *)
(* if its child reported a limit, or was still computing at the deadline.  *)
LimitErrorMeansLimit ==
    \A t \in Threads : parent[t] = "answered" /\ answer[t] = "limit" =>
          message[t] = NONE \/ message[t].verdict = "limit"
=============================================================================
