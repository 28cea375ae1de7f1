--------------------------- MODULE DatasetsProofs ---------------------------
(***************************************************************************)
(* Theorems about Datasets, for any number of threads, principals, uploads *)
(* and payloads and any deadline.                                          *)
(***************************************************************************)
EXTENDS Datasets, TLAPS

(* A thread has a process, or an answer of one, exactly while its request  *)
(* is at computing.                                                        *)
CallsMatchRequests ==
    \A t \in Threads : parent[t] # "idle" <=> AtComputing(t)

(* A tombstone is of an artifact that was listed, and it marks the version *)
(* only when the object is deleted.                                        *)
TombstonesInOrder ==
    \A t \in Threads : req[t] # NONE =>
        /\ req[t].at = "object to delete" => status[req[t].art] # "absent"
        /\ req[t].at = "version to mark" =>
               object[req[t].art] = "deleted" /\ status[req[t].art] # "absent"

(* What an upload is about to list is stored and was never listed. *)
UploadsInOrder ==
    storing # NONE => status[storing.art] = "absent" /\ object[storing.art] = "live"

(* A result that was answered was read as a whole. *)
AnswersAreWhole ==
    \A t \in Threads : parent[t] = "answered" /\ answer[t] = "ok" =>
        pipe[t] = "whole" /\ message[t].verdict = "ok"

(* The inductive invariant. *)
DInv == /\ DTypeOK
        /\ StoresAgree
        /\ ChildEndsWithCall
        /\ CallsMatchRequests
        /\ TombstonesInOrder
        /\ UploadsInOrder
        /\ AnswersAreWhole

LEMMA InitIsSound == DInit => DInv
<1> SUFFICES ASSUME DInit PROVE DInv
    OBVIOUS
<1> USE DEF DInit, SInit
<1>1. DTypeOK
    BY DeadlineAssumption DEF DTypeOK, Access
<1>2. StoresAgree
    BY DEF StoresAgree
<1>3. ChildEndsWithCall /\ CallsMatchRequests /\ TombstonesInOrder /\ UploadsInOrder /\ AnswersAreWhole
    BY DEF ChildEndsWithCall, CallsMatchRequests, AtComputing, TombstonesInOrder, UploadsInOrder,
       AnswersAreWhole
<1>4. QED
    BY <1>1, <1>2, <1>3 DEF DInv

-----------------------------------------------------------------------------
(* A step of no call leaves the calls sound.                               *)
LEMMA CallsStaySound ==
    ASSUME DInv, UNCHANGED svars, \A s \in Threads : AtComputing(s) <=> AtComputing(s)'
    PROVE  ChildEndsWithCall' /\ CallsMatchRequests' /\ AnswersAreWhole'
<1>1. ChildEndsWithCall'
    BY DEF DInv, ChildEndsWithCall, svars
<1>2. CallsMatchRequests'
    BY DEF DInv, CallsMatchRequests, svars
<1>3. AnswersAreWhole'
    BY DEF DInv, AnswersAreWhole, svars
<1>4. QED
    BY <1>1, <1>2, <1>3

(***************************************************************************)
(* Steps of the registry.                                                  *)
(***************************************************************************)
LEMMA AccessStepKeepsDInv ==
    ASSUME DInv,
           \/ \E t \in Threads, d \in Names, p \in Principals : BeginCreate(t, d, p)
           \/ \E t \in Threads : Register(t) \/ Show(t)
           \/ \E d \in Names, p, q \in Principals, access \in Access : Grant(d, p, q, access)
    PROVE  DInv'
<1> DEFINE Typed == /\ owner' \in [Names -> Principals \cup {NONE}]
                    /\ shown' \in [Names -> Principals \cup {NONE}]
                    /\ creating' \in [Threads -> Creations \cup {NONE}]
                    /\ grants' \in [Names -> [Principals -> Access]]
<1>1. Typed
    <2>1. ASSUME NEW t \in Threads, NEW d \in Names, NEW p \in Principals, BeginCreate(t, d, p)
          PROVE  Typed
        <3>1. [name |-> d, actor |-> p, at |-> "checked"] \in Creations
            BY DEF Creations
        <3>2. QED
            BY <2>1, <3>1 DEF BeginCreate, DInv, DTypeOK
    <2>2. ASSUME NEW t \in Threads, Register(t)
          PROVE  Typed
        <3>1. PICK d \in Names, p \in Principals : creating[t].name = d /\ creating[t].actor = p
            BY <2>2 DEF Register, Creates, DInv, DTypeOK, Creations
        <3>2. [creating[t] EXCEPT !.at = "registered"] \in Creations
            BY <2>2 DEF Register, Creates, DInv, DTypeOK, Creations
        <3>3. [grants[d] EXCEPT ![p] = "write"] \in [Principals -> Access]
            BY DEF DInv, DTypeOK, Access
        <3>4. /\ owner' = [owner EXCEPT ![d] = p]
              /\ grants' = [grants EXCEPT ![d] = [@ EXCEPT ![p] = "write"]]
              /\ creating' = [creating EXCEPT ![t].at = "registered"]
              /\ shown' = shown
            BY <2>2, <3>1 DEF Register
        <3>5. QED
            BY <3>2, <3>3, <3>4 DEF DInv, DTypeOK
    <2>3. ASSUME NEW t \in Threads, Show(t)
          PROVE  Typed
        <3>1. PICK d \in Names, p \in Principals : creating[t].name = d /\ creating[t].actor = p
            BY <2>3 DEF Show, Creates, DInv, DTypeOK, Creations
        <3>2. QED
            BY <2>3, <3>1 DEF Show, DInv, DTypeOK
    <2>4. ASSUME NEW d \in Names, NEW p \in Principals, NEW q \in Principals,
                 NEW access \in Access, Grant(d, p, q, access)
          PROVE  Typed
        <3>1. [grants[d] EXCEPT ![q] = access] \in [Principals -> Access]
            BY DEF DInv, DTypeOK
        <3>2. QED
            BY <2>4, <3>1 DEF Grant, DInv, DTypeOK
    <2>5. QED
        BY <2>1, <2>2, <2>3, <2>4
<1>2. UNCHANGED Apart
    BY DEF BeginCreate, Register, Show, Grant
<1>3. UNCHANGED <<session, completed, storing, status, object, profiles, req, svars>>
    BY <1>2 DEF Apart
<1>4. DTypeOK'
    BY <1>1, <1>3 DEF DInv, DTypeOK, svars
<1>5. StoresAgree' /\ TombstonesInOrder' /\ UploadsInOrder'
    BY <1>3 DEF DInv, StoresAgree, HalfTombstoned, HalfUploaded, TombstonesInOrder, UploadsInOrder
<1>6. ChildEndsWithCall' /\ CallsMatchRequests' /\ AnswersAreWhole'
    <2>1. \A s \in Threads : AtComputing(s) <=> AtComputing(s)'
        BY <1>3 DEF AtComputing
    <2>2. QED
        BY <2>1, <1>3, CallsStaySound
<1>7. QED
    BY <1>4, <1>5, <1>6 DEF DInv

LEMMA BeginUploadKeepsDInv ==
    ASSUME DInv, NEW u \in Uploads, NEW d \in Names, NEW p \in Principals, NEW f \in Files,
           BeginUpload(u, d, p, f)
    PROVE  DInv'
<1>1. session' = [session EXCEPT ![u] = [dataset |-> d, actor |-> p, file |-> f]]
    BY DEF BeginUpload
<1>2. session[u] = NONE /\ completed[u] = NONE
    BY DEF BeginUpload, DInv, DTypeOK
<1>3. UNCHANGED <<owner, shown, creating, grants, completed, storing, status, object, profiles, req, svars>>
    BY DEF BeginUpload
<1>4. session' \in [Uploads -> Sessions \cup {NONE}]
    BY <1>1 DEF DInv, DTypeOK, Sessions
<1>5. \A v \in Uploads : completed[v] # NONE => session'[v] = session[v]
    BY <1>1, <1>2 DEF DInv, DTypeOK
<1>6. DTypeOK'
    BY <1>3, <1>4, <1>5 DEF BeginUpload, DInv, DTypeOK, svars
<1>7. StoresAgree' /\ TombstonesInOrder' /\ UploadsInOrder'
    BY <1>3 DEF DInv, StoresAgree, HalfTombstoned, HalfUploaded, TombstonesInOrder, UploadsInOrder
<1>8. ChildEndsWithCall' /\ CallsMatchRequests' /\ AnswersAreWhole'
    <2>1. \A s \in Threads : AtComputing(s) <=> AtComputing(s)'
        BY <1>3 DEF AtComputing
    <2>2. QED
        BY <2>1, <1>3, CallsStaySound
<1>9. QED
    BY <1>6, <1>7, <1>8 DEF DInv

LEMMA CompleteUploadKeepsDInv ==
    ASSUME DInv, NEW u \in Uploads, NEW p \in Principals, NEW h \in Payloads,
           CompleteUpload(u, p, h)
    PROVE  DInv'
<1>1. session[u] \in Sessions /\ session[u] # NONE /\ completed[u] = NONE /\ storing = NONE
    BY DEF CompleteUpload, MayComplete, DInv, DTypeOK
<1>2. PICK a \in Artifacts : a = <<session[u].dataset, h>>
    BY <1>1 DEF Sessions, Artifacts
<1>3. a[1] = session[u].dataset /\ <<session[u].file, a[2]>> \in Parses
    BY <1>2 DEF CompleteUpload, Accepted
<1>4. UNCHANGED <<owner, shown, creating, grants, session, status, profiles, req, svars>>
    BY DEF CompleteUpload
<1>5. \A s \in Threads : AtComputing(s) <=> AtComputing(s)'
    BY <1>4 DEF AtComputing
<1>6. ChildEndsWithCall' /\ CallsMatchRequests' /\ AnswersAreWhole'
    BY <1>5, <1>4, CallsStaySound
<1>7. \A b \in Artifacts : HalfTombstoned(b) => HalfTombstoned(b)'
    BY <1>4 DEF HalfTombstoned
<1>8. CASE /\ NewVersion(a) /\ PutImmutable(a) /\ completed' = completed
           /\ storing' = [id |-> u, art |-> a]
    <2>1. status[a] = "absent" /\ object[a] = "absent"
        BY <1>8, <1>1 DEF NewVersion, DInv, StoresAgree, HalfUploaded
    <2>2. object' = [object EXCEPT ![a] = "live"]
        BY <1>8, <2>1 DEF PutImmutable
    <2>3. [id |-> u, art |-> a] \in Completions /\ [id |-> u, art |-> a] # NONE
        BY NoneAssumption DEF Completions
    <2>4. DTypeOK'
        BY <1>1, <1>3, <1>4, <1>8, <2>2, <2>3 DEF DInv, DTypeOK, svars
    <2>5. object'[a] = "live" /\ \A b \in Artifacts : b # a => object'[b] = object[b]
        BY <2>2 DEF DInv, DTypeOK
    <2>6. storing' # NONE /\ storing'.art = a
        BY <1>8, <2>3
    <2>7. UploadsInOrder'
        BY <1>4, <2>1, <2>5, <2>6 DEF UploadsInOrder
    <2>8. HalfUploaded(a)'
        BY <2>6 DEF HalfUploaded
    <2>9. StoresAgree'
        BY <1>1, <1>4, <1>7, <2>1, <2>5, <2>8 DEF DInv, StoresAgree, HalfUploaded
    <2>10. TombstonesInOrder'
        <3>1. \A s \in Threads : req[s] # NONE => req[s].art \in Artifacts
            BY DEF DInv, DTypeOK, Requests
        <3>2. QED
            BY <3>1, <1>4, <2>1, <2>5 DEF DInv, TombstonesInOrder
    <2>11. QED
        BY <1>6, <2>4, <2>7, <2>9, <2>10 DEF DInv
<1>9. CASE completed' = [completed EXCEPT ![u] = a] /\ UNCHANGED <<object, storing>>
    <2>1. DTypeOK'
        BY <1>1, <1>3, <1>4, <1>9 DEF DInv, DTypeOK, svars
    <2>2. StoresAgree' /\ TombstonesInOrder' /\ UploadsInOrder'
        BY <1>4, <1>7, <1>9 DEF DInv, StoresAgree, HalfUploaded, TombstonesInOrder, UploadsInOrder
    <2>3. QED
        BY <1>6, <2>1, <2>2 DEF DInv
<1>10. QED
    BY <1>2, <1>8, <1>9 DEF CompleteUpload

LEMMA ListVersionKeepsDInv == ASSUME DInv, ListVersion PROVE DInv'
<1>1. PICK u \in Uploads, a \in Artifacts : storing.id = u /\ storing.art = a
    BY DEF ListVersion, DInv, DTypeOK, Completions
<1>2. /\ storing # NONE /\ status[a] = "absent" /\ object[a] = "live"
      /\ session[u] # NONE /\ completed[u] = NONE /\ a[1] = session[u].dataset
      /\ <<session[u].file, a[2]>> \in Parses
    BY <1>1 DEF ListVersion, DInv, DTypeOK, UploadsInOrder
<1>3. /\ status' = [status EXCEPT ![a] = "ready"]
      /\ completed' = [completed EXCEPT ![u] = a]
      /\ storing' = NONE
      /\ UNCHANGED <<owner, shown, creating, grants, session, object, profiles, req, svars>>
    BY <1>1 DEF ListVersion
<1>4. DTypeOK'
    BY <1>2, <1>3 DEF DInv, DTypeOK, svars
<1>5. status'[a] = "ready" /\ \A b \in Artifacts : b # a => status'[b] = status[b]
    BY <1>3 DEF DInv, DTypeOK
<1>6. \A b \in Artifacts : /\ HalfTombstoned(b) => HalfTombstoned(b)'
                           /\ HalfUploaded(b) => b = a
    BY <1>1, <1>3 DEF HalfTombstoned, HalfUploaded
<1>7. StoresAgree'
    BY <1>2, <1>3, <1>5, <1>6 DEF DInv, StoresAgree
<1>8. TombstonesInOrder'
    <2>1. \A s \in Threads : req[s] # NONE => req[s].art \in Artifacts
        BY DEF DInv, DTypeOK, Requests
    <2>2. QED
        BY <2>1, <1>3, <1>5 DEF DInv, TombstonesInOrder
<1>9. UploadsInOrder'
    BY <1>3 DEF UploadsInOrder
<1>10. ChildEndsWithCall' /\ CallsMatchRequests' /\ AnswersAreWhole'
    <2>1. \A s \in Threads : AtComputing(s) <=> AtComputing(s)'
        BY <1>3 DEF AtComputing
    <2>2. QED
        BY <2>1, <1>3, CallsStaySound
<1>11. QED
    BY <1>4, <1>7, <1>8, <1>9, <1>10 DEF DInv

-----------------------------------------------------------------------------
(***************************************************************************)
(* Steps of a thread's request.                                            *)
(***************************************************************************)
LEMMA BeginTombstoneKeepsDInv ==
    ASSUME DInv, NEW t \in Threads, NEW a \in Artifacts, NEW p \in Principals,
           BeginTombstone(t, a, p)
    PROVE  DInv'
<1>1. req' = [req EXCEPT ![t] = [art |-> a, at |-> "object to delete"]]
    BY DEF BeginTombstone, Go
<1>2. req[t] = NONE /\ status[a] = "ready"
    BY DEF BeginTombstone, Idle
<1>3. UNCHANGED <<rvars, status, object, profiles, svars>>
    BY DEF BeginTombstone
<1>4. DTypeOK'
    BY <1>1, <1>3 DEF DInv, DTypeOK, Requests, rvars, svars
<1>5. StoresAgree'
    <2>1. \A b \in Artifacts : HalfTombstoned(b) => HalfTombstoned(b)'
        BY <1>1, <1>2 DEF DInv, DTypeOK, HalfTombstoned
    <2>2. QED
        BY <2>1, <1>3 DEF DInv, StoresAgree, HalfUploaded, rvars
<1>6. TombstonesInOrder' /\ UploadsInOrder'
    BY <1>1, <1>2, <1>3 DEF DInv, DTypeOK, TombstonesInOrder, UploadsInOrder, rvars
<1>7. ChildEndsWithCall' /\ CallsMatchRequests' /\ AnswersAreWhole'
    <2>1. \A s \in Threads : AtComputing(s) <=> AtComputing(s)'
        BY <1>1, <1>2, <1>3 DEF DInv, DTypeOK, AtComputing
    <2>2. QED
        BY <2>1, <1>3, CallsStaySound
<1>8. QED
    BY <1>4, <1>5, <1>6, <1>7 DEF DInv

LEMMA TombstoneObjectKeepsDInv ==
    ASSUME DInv, NEW t \in Threads, TombstoneObject(t)
    PROVE  DInv'
<1>a. PICK a \in Artifacts : a = req[t].art
    BY DEF TombstoneObject, DInv, DTypeOK, Requests
<1>1. req[t] # NONE /\ req[t].at = "object to delete" /\ status[a] # "absent"
    BY <1>a DEF TombstoneObject, DInv, TombstonesInOrder
<1>2. /\ object' = [object EXCEPT ![a] = "deleted"]
      /\ req' = [req EXCEPT ![t] = [art |-> a, at |-> "version to mark"]]
      /\ UNCHANGED <<rvars, status, profiles, svars>>
    BY <1>a DEF TombstoneObject, Go
<1>3. [art |-> a, at |-> "version to mark"] \in Requests
    BY <1>1 DEF Requests
<1>4. DTypeOK'
    BY <1>1, <1>2, <1>3 DEF DInv, DTypeOK, rvars, svars
<1>5. req'[t] # NONE /\ req'[t].art = a /\ req'[t].at = "version to mark"
    <2>1. req'[t] = [art |-> a, at |-> "version to mark"]
        BY <1>2 DEF DInv, DTypeOK
    <2>2. req'[t] \in Requests
        BY <2>1, <1>3
    <2>3. req'[t] # NONE
        BY <2>2, NoneAssumption
    <2>4. [art |-> a, at |-> "version to mark"].art = a
        OBVIOUS
    <2>5. [art |-> a, at |-> "version to mark"].at = "version to mark"
        OBVIOUS
    <2>6. QED
        BY <2>1, <2>3, <2>4, <2>5, Zenon
<1>6. StoresAgree'
    <2>1. HalfTombstoned(a)'
        BY <1>5 DEF HalfTombstoned
    <2>2. ASSUME NEW b \in Artifacts, HalfTombstoned(b)
          PROVE  HalfTombstoned(b)'
        <3>1. PICK s \in Threads : req[s] # NONE /\ req[s].art = b /\ req[s].at = "version to mark"
            BY <2>2 DEF HalfTombstoned
        <3>2. req[t].at # "version to mark"
            BY <1>1
        <3>3. s # t
            BY <3>1, <3>2
        <3>4. req'[s] = req[s]
            BY <3>3, <1>2 DEF DInv, DTypeOK
        <3>5. QED
            BY <3>1, <3>4 DEF HalfTombstoned
    <2>3. status' = status /\ object'[a] = "deleted"
        BY <1>1, <1>2 DEF DInv, DTypeOK
    <2>4. \A b \in Artifacts : b # a => object'[b] = object[b]
        BY <1>2 DEF DInv, DTypeOK
    <2>5. QED
        BY <1>1, <1>2, <2>1, <2>2, <2>3, <2>4 DEF DInv, StoresAgree, HalfUploaded, rvars
<1>7. TombstonesInOrder'
    <2>1. object'[req'[t].art] = "deleted" /\ status'[req'[t].art] # "absent"
        BY <1>1, <1>2, <1>5 DEF DInv, DTypeOK
    <2>2. ASSUME NEW s \in Threads, s # t, req[s] # NONE
          PROVE  /\ req'[s] = req[s]
                 /\ status'[req[s].art] = status[req[s].art]
                 /\ object[req[s].art] = "deleted" => object'[req[s].art] = "deleted"
        <3>1. req[s].art \in Artifacts
            BY <2>2 DEF DInv, DTypeOK, Requests
        <3>2. QED
            BY <3>1, <2>2, <1>1, <1>2 DEF DInv, DTypeOK
    <2>3. \A s \in Threads : s # t => req'[s] = req[s]
        BY <1>2 DEF DInv, DTypeOK
    <2>4. req'[t].at # "object to delete"
        BY <1>5
    <2>5. QED
        BY <2>1, <2>2, <2>3, <2>4 DEF DInv, TombstonesInOrder
<1>8. ChildEndsWithCall' /\ CallsMatchRequests' /\ AnswersAreWhole'
    <2>1. \A s \in Threads : AtComputing(s) <=> AtComputing(s)'
        BY <1>1, <1>2, <1>5 DEF DInv, DTypeOK, AtComputing
    <2>2. QED
        BY <2>1, <1>2, CallsStaySound
<1>9. UploadsInOrder'
    <2>1. storing' = storing /\ status' = status /\ (storing # NONE => storing.art \in Artifacts)
        BY <1>2 DEF rvars, DInv, DTypeOK, Completions
    <2>2. \A b \in Artifacts : b # a => object'[b] = object[b]
        BY <1>2 DEF DInv, DTypeOK
    <2>3. QED
        BY <1>1, <2>1, <2>2 DEF DInv, UploadsInOrder
<1>10. QED
    BY <1>4, <1>6, <1>7, <1>8, <1>9 DEF DInv

LEMMA TombstoneVersionKeepsDInv ==
    ASSUME DInv, NEW t \in Threads, TombstoneVersion(t)
    PROVE  DInv'
<1>a. PICK a \in Artifacts : a = req[t].art
    BY DEF TombstoneVersion, DInv, DTypeOK, Requests
<1>1. /\ req[t] # NONE /\ req[t].at = "version to mark"
      /\ object[a] = "deleted" /\ status[a] # "absent"
    BY <1>a DEF TombstoneVersion, DInv, TombstonesInOrder
<1>2. /\ status' = [status EXCEPT ![a] = "tombstoned"]
      /\ req' = [req EXCEPT ![t] = NONE]
      /\ UNCHANGED <<rvars, object, profiles, svars>>
    BY <1>a DEF TombstoneVersion, Done
<1>3. DTypeOK'
    BY <1>1, <1>2 DEF DInv, DTypeOK, rvars, svars
<1>4. /\ status'[a] = "tombstoned"
      /\ \A b \in Artifacts : b # a => status'[b] = status[b]
      /\ req'[t] = NONE
      /\ \A s \in Threads : s # t => req'[s] = req[s]
    BY <1>2 DEF DInv, DTypeOK
<1>5. StoresAgree'
    <2>1. ASSUME NEW b \in Artifacts, b # a, HalfTombstoned(b)
          PROVE  HalfTombstoned(b)'
        <3>1. PICK s \in Threads : req[s] # NONE /\ req[s].art = b /\ req[s].at = "version to mark"
            BY <2>1 DEF HalfTombstoned
        <3>2. req'[s] = req[s]
            BY <3>1, <2>1, <1>a, <1>4
        <3>3. QED
            BY <3>1, <3>2 DEF HalfTombstoned
    <2>2. object' = object
        BY <1>2
    <2>3. QED
        BY <1>1, <1>2, <1>4, <2>1, <2>2 DEF DInv, StoresAgree, HalfUploaded, rvars
<1>6. TombstonesInOrder'
    <2>1. \A b \in Artifacts : status[b] # "absent" => status'[b] # "absent"
        BY <1>4
    <2>2. \A s \in Threads : req[s] # NONE => req[s].art \in Artifacts
        BY DEF DInv, DTypeOK, Requests
    <2>3. ASSUME NEW s \in Threads, req'[s] # NONE
          PROVE  /\ req'[s].at = "object to delete" => status'[req'[s].art] # "absent"
                 /\ req'[s].at = "version to mark" =>
                        object'[req'[s].art] = "deleted" /\ status'[req'[s].art] # "absent"
        <3>1. req'[s] = req[s]
            BY <2>3, <1>4
        <3>2. object' = object
            BY <1>2
        <3>3. QED
            BY <3>1, <3>2, <2>1, <2>2, <2>3 DEF DInv, TombstonesInOrder
    <2>4. QED
        BY <2>3 DEF TombstonesInOrder
<1>7. ChildEndsWithCall' /\ CallsMatchRequests' /\ AnswersAreWhole'
    <2>1. \A s \in Threads : AtComputing(s) <=> AtComputing(s)'
        BY <1>1, <1>4 DEF AtComputing
    <2>2. QED
        BY <2>1, <1>2, CallsStaySound
<1>8. UploadsInOrder'
    <2>1. storing' = storing /\ object' = object /\ (storing # NONE => storing.art \in Artifacts)
        BY <1>2 DEF rvars, DInv, DTypeOK, Completions
    <2>2. QED
        BY <1>1, <1>4, <2>1 DEF DInv, UploadsInOrder
<1>9. QED
    BY <1>3, <1>5, <1>6, <1>7, <1>8 DEF DInv

(* A thread that is not at the second half of a tombstone may take up any  *)
(* other request, or none: the two stores still agree.                     *)
LEMMA OtherRequestsKeepStores ==
    ASSUME DInv, NEW t \in Threads,
           req[t] = NONE \/ req[t].at \in {"visible", "computing"},
           \A s \in Threads : s # t => req'[s] = req[s],
           req'[t] = NONE \/ req'[t].at \in {"visible", "computing"},
           UNCHANGED <<rvars, status, object>>
    PROVE  StoresAgree' /\ TombstonesInOrder' /\ UploadsInOrder'
<1>1. ASSUME NEW b \in Artifacts, HalfTombstoned(b)
      PROVE  HalfTombstoned(b)'
    <2>1. PICK s \in Threads : req[s] # NONE /\ req[s].art = b /\ req[s].at = "version to mark"
        BY <1>1 DEF HalfTombstoned
    <2>2. s # t
        BY <2>1
    <2>3. req'[s] = req[s]
        BY <2>2
    <2>4. QED
        BY <2>1, <2>3 DEF HalfTombstoned
<1>2. StoresAgree'
    BY <1>1 DEF DInv, StoresAgree, HalfUploaded, rvars
<1>3. TombstonesInOrder' /\ UploadsInOrder'
    BY DEF DInv, TombstonesInOrder, UploadsInOrder, rvars
<1>4. QED
    BY <1>2, <1>3

LEMMA BeginProfileKeepsDInv ==
    ASSUME DInv, NEW t \in Threads, NEW a \in Artifacts, NEW p \in Principals,
           BeginProfile(t, a, p)
    PROVE  DInv'
<1>1. /\ req[t] = NONE
      /\ req' = [req EXCEPT ![t] = [art |-> a, at |-> "visible"]]
      /\ UNCHANGED <<rvars, status, object, profiles, svars>>
    BY DEF BeginProfile, Go, Idle
<1>2. [art |-> a, at |-> "visible"] \in Requests
    BY DEF Requests
<1>3. DTypeOK'
    BY <1>1, <1>2 DEF DInv, DTypeOK, rvars, svars
<1>4. /\ req'[t] = [art |-> a, at |-> "visible"]
      /\ \A s \in Threads : s # t => req'[s] = req[s]
    BY <1>1 DEF DInv, DTypeOK
<1>5. req'[t].at = "visible"
    BY <1>4
<1>6. StoresAgree' /\ TombstonesInOrder' /\ UploadsInOrder'
    BY <1>1, <1>4, <1>5, OtherRequestsKeepStores
<1>7. ChildEndsWithCall' /\ CallsMatchRequests' /\ AnswersAreWhole'
    <2>1. \A s \in Threads : AtComputing(s) <=> AtComputing(s)'
        BY <1>1, <1>4, <1>5 DEF AtComputing
    <2>2. QED
        BY <2>1, <1>1, CallsStaySound
<1>8. QED
    BY <1>3, <1>6, <1>7 DEF DInv

LEMMA LookUpKeepsDInv ==
    ASSUME DInv, NEW t \in Threads, LookUp(t)
    PROVE  DInv'
<1>a. PICK a \in Artifacts : a = req[t].art
    BY DEF LookUp, DInv, DTypeOK, Requests
<1>1. /\ req[t] # NONE /\ req[t].at = "visible"
      /\ UNCHANGED <<rvars, status, object, profiles>>
    BY DEF LookUp
<1>2. CASE /\ req' = [req EXCEPT ![t] = [art |-> a, at |-> "computing"]]
           /\ Spawn(t)
    <2>1. [art |-> a, at |-> "computing"] \in Requests
        BY DEF Requests
    <2>2. [art |-> a, at |-> "computing"] # NONE
        BY <2>1, NoneAssumption
    <2>3. /\ req'[t] = [art |-> a, at |-> "computing"]
          /\ \A s \in Threads : s # t => req'[s] = req[s]
        BY <1>2 DEF DInv, DTypeOK
    <2>4. req'[t] # NONE /\ req'[t].at = "computing"
        BY <2>2, <2>3
    <2>5. DTypeOK'
        BY <1>1, <1>2, <2>1, DeadlineAssumption DEF DInv, DTypeOK, rvars, Spawn
    <2>6. StoresAgree' /\ TombstonesInOrder' /\ UploadsInOrder'
        BY <1>1, <2>3, <2>4, OtherRequestsKeepStores
    <2>7. AtComputing(t)' /\ \A s \in Threads : s # t => (AtComputing(s) <=> AtComputing(s)')
        BY <2>3, <2>4 DEF AtComputing
    <2>8. ChildEndsWithCall' /\ CallsMatchRequests'
        BY <1>2, <2>7 DEF DInv, DTypeOK, ChildEndsWithCall, CallsMatchRequests, Spawn
    <2>9. AnswersAreWhole'
        BY <1>2 DEF DInv, DTypeOK, AnswersAreWhole, Spawn
    <2>10. QED
        BY <2>5, <2>6, <2>8, <2>9 DEF DInv
<1>3. CASE req' = [req EXCEPT ![t] = NONE] /\ UNCHANGED svars
    <2>1. DTypeOK'
        BY <1>1, <1>3 DEF DInv, DTypeOK, rvars, svars
    <2>2. req'[t] = NONE /\ \A s \in Threads : s # t => req'[s] = req[s]
        BY <1>3 DEF DInv, DTypeOK
    <2>3. StoresAgree' /\ TombstonesInOrder' /\ UploadsInOrder'
        BY <1>1, <2>2, OtherRequestsKeepStores
    <2>4. \A s \in Threads : AtComputing(s) <=> AtComputing(s)'
        BY <1>1, <2>2 DEF AtComputing
    <2>5. ChildEndsWithCall' /\ CallsMatchRequests' /\ AnswersAreWhole'
        BY <1>3, <2>4, CallsStaySound
    <2>6. QED
        BY <2>1, <2>3, <2>5 DEF DInv
<1>4. QED
    BY <1>a, <1>2, <1>3 DEF LookUp, Go, Done

LEMMA KeepProfileKeepsDInv ==
    ASSUME DInv, NEW t \in Threads, KeepProfile(t)
    PROVE  DInv'
<1>1. /\ req[t] # NONE /\ parent[t] = "answered"
      /\ req' = [req EXCEPT ![t] = NONE]
      /\ UNCHANGED <<rvars, status, object>>
      /\ Discard(t)
    BY DEF KeepProfile, Done
<1>2. AtComputing(t) /\ child[t] \notin {"computing", "exiting"}
    BY <1>1 DEF DInv, CallsMatchRequests, ChildEndsWithCall
<1>3. req[t].at = "computing" /\ req[t].art \in Artifacts
    BY <1>1, <1>2 DEF AtComputing, DInv, DTypeOK, Requests
<1>4. DTypeOK'
    <2>1. profiles' \subseteq Artifacts
        BY <1>3 DEF KeepProfile, DInv, DTypeOK
    <2>2. QED
        BY <2>1, <1>1, DeadlineAssumption DEF DInv, DTypeOK, rvars, Discard
<1>5. req'[t] = NONE /\ \A s \in Threads : s # t => req'[s] = req[s]
    BY <1>1 DEF DInv, DTypeOK
<1>6. StoresAgree' /\ TombstonesInOrder' /\ UploadsInOrder'
    BY <1>1, <1>3, <1>5, OtherRequestsKeepStores
<1>7. ~AtComputing(t)' /\ \A s \in Threads : s # t => (AtComputing(s) <=> AtComputing(s)')
    BY <1>5 DEF AtComputing
<1>8. ChildEndsWithCall' /\ CallsMatchRequests'
    BY <1>1, <1>2, <1>7 DEF DInv, DTypeOK, ChildEndsWithCall, CallsMatchRequests, Discard
<1>9. AnswersAreWhole'
    BY <1>1 DEF DInv, DTypeOK, AnswersAreWhole, Discard
<1>10. QED
    BY <1>4, <1>6, <1>8, <1>9 DEF DInv

-----------------------------------------------------------------------------
(***************************************************************************)
(* Steps of a call and its process.                                        *)
(***************************************************************************)
LEMMA SupervisorKeepsStores ==
    ASSUME DInv, UNCHANGED others
    PROVE  /\ StoresAgree' /\ TombstonesInOrder' /\ UploadsInOrder'
           /\ \A s \in Threads : AtComputing(s) <=> AtComputing(s)'
<1>1. UNCHANGED <<storing, status, object, req>>
    BY DEF others
<1>2. \A a \in Artifacts : HalfTombstoned(a) => HalfTombstoned(a)'
    BY <1>1 DEF HalfTombstoned
<1>3. StoresAgree'
    BY <1>1, <1>2 DEF DInv, StoresAgree, HalfUploaded
<1>4. TombstonesInOrder' /\ UploadsInOrder'
    BY <1>1 DEF DInv, TombstonesInOrder, UploadsInOrder
<1>5. QED
    BY <1>1, <1>3, <1>4 DEF AtComputing

LEMMA ChildStepKeepsDInv ==
    ASSUME DInv, UNCHANGED others, NEW t \in Threads,
           Exit(t) \/ Killed(t) \/ \E m \in Messages : Put(t, m)
    PROVE  DInv'
<1>1. /\ StoresAgree' /\ TombstonesInOrder' /\ UploadsInOrder'
      /\ \A s \in Threads : AtComputing(s) <=> AtComputing(s)'
    BY SupervisorKeepsStores
<1>2. parent[t] = "joining" /\ AtComputing(t)
    BY DEF Exit, Killed, Put, DInv, ChildEndsWithCall
<1>3. CASE Exit(t) \/ Killed(t)
    <2>1. child' = [child EXCEPT ![t] = "dead"] /\ UNCHANGED <<parent, left, message, pipe, answer>>
        BY <1>3 DEF Exit, Killed
    <2>2. DTypeOK'
        BY <2>1 DEF DInv, DTypeOK, others
    <2>3. ChildEndsWithCall' /\ CallsMatchRequests' /\ AnswersAreWhole'
        BY <1>1, <2>1 DEF DInv, DTypeOK, ChildEndsWithCall, CallsMatchRequests, AnswersAreWhole
    <2>4. QED
        BY <1>1, <2>2, <2>3 DEF DInv
<1>4. ASSUME NEW m \in Messages, Put(t, m)
      PROVE  DInv'
    <2>1. /\ child' = [child EXCEPT ![t] = "exiting"]
          /\ message' = [message EXCEPT ![t] = m]
          /\ pipe' = [pipe EXCEPT ![t] = IF m.size = "small" THEN "whole" ELSE "part"]
          /\ UNCHANGED <<parent, left, answer>>
        BY <1>4 DEF Put
    <2>2. DTypeOK'
        BY <2>1 DEF DInv, DTypeOK, others
    <2>3. ChildEndsWithCall' /\ CallsMatchRequests'
        BY <1>1, <1>2, <2>1 DEF DInv, DTypeOK, ChildEndsWithCall, CallsMatchRequests
    <2>4. AnswersAreWhole'
        BY <1>2, <2>1 DEF DInv, DTypeOK, AnswersAreWhole
    <2>5. QED
        BY <1>1, <2>2, <2>3, <2>4 DEF DInv
<1>5. QED
    BY <1>3, <1>4

LEMMA DeadlineHitKeepsDInv ==
    ASSUME DInv, UNCHANGED others, NEW t \in Threads, DeadlineHit(t)
    PROVE  DInv'
<1>1. /\ StoresAgree' /\ TombstonesInOrder' /\ UploadsInOrder'
      /\ \A s \in Threads : AtComputing(s) <=> AtComputing(s)'
    BY SupervisorKeepsStores
<1>2. /\ parent[t] = "joining"
      /\ child' = [child EXCEPT ![t] = "dead"]
      /\ parent' = [parent EXCEPT ![t] = "answered"]
      /\ answer' = [answer EXCEPT ![t] = "limit"]
      /\ UNCHANGED <<left, message, pipe>>
    BY DEF DeadlineHit, Return
<1>3. DTypeOK'
    BY <1>2 DEF DInv, DTypeOK, Verdicts, others
<1>4. ChildEndsWithCall' /\ CallsMatchRequests'
    BY <1>1, <1>2 DEF DInv, DTypeOK, ChildEndsWithCall, CallsMatchRequests
<1>5. AnswersAreWhole'
    BY <1>2 DEF DInv, DTypeOK, AnswersAreWhole
<1>6. QED
    BY <1>1, <1>3, <1>4, <1>5 DEF DInv

LEMMA ReadKeepsDInv ==
    ASSUME DInv, UNCHANGED others, NEW t \in Threads, Read(t)
    PROVE  DInv'
<1>1. /\ StoresAgree' /\ TombstonesInOrder' /\ UploadsInOrder'
      /\ \A s \in Threads : AtComputing(s) <=> AtComputing(s)'
    BY SupervisorKeepsStores
<1>2. parent[t] = "joining" /\ child[t] = "dead" /\ UNCHANGED <<left, child, message, pipe>>
    BY DEF Read
<1>3. CASE parent' = [parent EXCEPT ![t] = "stuck"] /\ UNCHANGED answer
    <2>1. DTypeOK'
        BY <1>2, <1>3 DEF DInv, DTypeOK, others
    <2>2. ChildEndsWithCall' /\ CallsMatchRequests' /\ AnswersAreWhole'
        BY <1>1, <1>2, <1>3 DEF DInv, DTypeOK, ChildEndsWithCall, CallsMatchRequests, AnswersAreWhole
    <2>3. QED
        BY <1>1, <2>1, <2>2 DEF DInv
<1>4. ASSUME NEW a, Return(t, a),
             a = "ValueError" \/ (pipe[t] = "whole" /\ a = message[t].verdict)
      PROVE  DInv'
    <2>1. /\ parent' = [parent EXCEPT ![t] = "answered"]
          /\ answer' = [answer EXCEPT ![t] = a]
        BY <1>4 DEF Return
    <2>2. a \in Verdicts \cup {"ValueError"}
        BY <1>4 DEF DInv, DTypeOK, Messages, Verdicts
    <2>3. DTypeOK'
        BY <1>2, <2>1, <2>2 DEF DInv, DTypeOK, others
    <2>4. ChildEndsWithCall' /\ CallsMatchRequests'
        BY <1>1, <1>2, <2>1 DEF DInv, DTypeOK, ChildEndsWithCall, CallsMatchRequests
    <2>5. AnswersAreWhole'
        BY <1>2, <1>4, <2>1 DEF DInv, DTypeOK, AnswersAreWhole
    <2>6. QED
        BY <1>1, <2>3, <2>4, <2>5 DEF DInv
<1>5. QED
    BY <1>3, <1>4 DEF Read

LEMMA STickKeepsDInv ==
    ASSUME DInv, UNCHANGED others, STick
    PROVE  DInv'
<1>1. /\ StoresAgree' /\ TombstonesInOrder' /\ UploadsInOrder'
      /\ \A s \in Threads : AtComputing(s) <=> AtComputing(s)'
    BY SupervisorKeepsStores
<1>2. /\ left' = [t \in Threads |-> IF left[t] > 0 THEN left[t] - 1 ELSE 0]
      /\ UNCHANGED <<parent, child, message, pipe, answer>>
    BY DEF STick
<1>3. DTypeOK'
    <2>1. left' \in [Threads -> 0 .. Deadline]
        BY <1>2, DeadlineAssumption DEF DInv, DTypeOK
    <2>2. QED
        BY <1>2, <2>1 DEF DInv, DTypeOK, others
<1>4. ChildEndsWithCall' /\ CallsMatchRequests' /\ AnswersAreWhole'
    BY <1>1, <1>2 DEF DInv, ChildEndsWithCall, CallsMatchRequests, AnswersAreWhole
<1>5. QED
    BY <1>1, <1>3, <1>4 DEF DInv

LEMMA StutteringKeepsDInv == ASSUME DInv, UNCHANGED dvars PROVE DInv'
<1>1. DTypeOK'
    BY DEF DInv, DTypeOK, dvars
<1>2. UNCHANGED others /\ UNCHANGED svars
    BY DEF dvars, others, svars
<1>3. /\ StoresAgree' /\ TombstonesInOrder' /\ UploadsInOrder'
      /\ \A s \in Threads : AtComputing(s) <=> AtComputing(s)'
    BY <1>2, SupervisorKeepsStores
<1>4. ChildEndsWithCall' /\ CallsMatchRequests' /\ AnswersAreWhole'
    BY <1>2, <1>3, CallsStaySound
<1>5. QED
    BY <1>1, <1>3, <1>4 DEF DInv

-----------------------------------------------------------------------------
(* DInv holds in every reachable state: each action keeps it.              *)
THEOREM DatasetsInvariant == DSpec => []DInv
<1>1. DInv /\ [DNext]_dvars => DInv'
    <2> SUFFICES ASSUME DInv, [DNext]_dvars PROVE DInv'
        OBVIOUS
    <2>1. ASSUME NEW t \in Threads,
                 (\E d \in Names, p \in Principals : BeginCreate(t, d, p)) \/ Register(t) \/ Show(t)
          PROVE  DInv'
        BY <2>1, AccessStepKeepsDInv
    <2>2. ASSUME NEW d \in Names, NEW p \in Principals, NEW q \in Principals, NEW access \in Access,
                 Grant(d, p, q, access)
          PROVE  DInv'
        BY <2>2, AccessStepKeepsDInv
    <2>3. ASSUME NEW u \in Uploads, NEW d \in Names, NEW p \in Principals, NEW f \in Files,
                 BeginUpload(u, d, p, f)
          PROVE  DInv'
        BY <2>3, BeginUploadKeepsDInv
    <2>4. ASSUME NEW u \in Uploads, NEW p \in Principals, NEW h \in Payloads, CompleteUpload(u, p, h)
          PROVE  DInv'
        BY <2>4, CompleteUploadKeepsDInv
    <2>10. ASSUME ListVersion PROVE DInv'
        BY <2>10, ListVersionKeepsDInv
    <2>5. ASSUME NEW t \in Threads, NEW a \in Artifacts, NEW p \in Principals,
                 BeginTombstone(t, a, p) \/ BeginProfile(t, a, p)
          PROVE  DInv'
        BY <2>5, BeginTombstoneKeepsDInv, BeginProfileKeepsDInv
    <2>6. ASSUME NEW t \in Threads, Goes(t) PROVE DInv'
        BY <2>6, TombstoneObjectKeepsDInv, TombstoneVersionKeepsDInv, LookUpKeepsDInv,
           KeepProfileKeepsDInv DEF Goes
    <2>7. ASSUME SupervisorStep, UNCHANGED others PROVE DInv'
        BY <2>7, ChildStepKeepsDInv, DeadlineHitKeepsDInv, ReadKeepsDInv, STickKeepsDInv
           DEF SupervisorStep, Ends
    <2>8. CASE UNCHANGED dvars
        BY <2>8, StutteringKeepsDInv
    <2>9. QED
        BY <2>1, <2>2, <2>3, <2>4, <2>5, <2>6, <2>7, <2>8, <2>10 DEF DNext
<1>2. QED
    BY InitIsSound, <1>1, PTL DEF DSpec

(* The variables have their types.                                         *)
THEOREM DatasetsTypes == DSpec => []DTypeOK
<1>1. DInv => DTypeOK
    BY DEF DInv
<1>2. QED
    BY <1>1, DatasetsInvariant, PTL

(* Store and registry disagree on an artifact only while an upload has     *)
(* stored its object and not listed it, or a tombstone has deleted it and  *)
(* not marked it.                                                          *)
THEOREM StoresAlwaysAgree == DSpec => []StoresAgree
<1>1. DInv => StoresAgree
    BY DEF DInv
<1>2. QED
    BY <1>1, DatasetsInvariant, PTL

(* Registry and object store agree but between the two writes of an upload *)
(* or a tombstone, and every upload ends in an artifact of its own         *)
(* dataset.                                                                *)
THEOREM RegistryAlwaysAgrees == DSpec => []RegistryAgrees
<1>1. DInv => RegistryAgrees
    BY DEF DInv, RegistryAgrees
<1>2. QED
    BY <1>1, DatasetsInvariant, PTL

(* No process outlives the call that spawned it.                           *)
THEOREM ChildrenEndWithCalls == DSpec => []ChildEndsWithCall
<1>1. DInv => ChildEndsWithCall
    BY DEF DInv
<1>2. QED
    BY <1>1, DatasetsInvariant, PTL

-----------------------------------------------------------------------------
(* An upload id stands for one upload: neither its session nor the         *)
(* artifact it ended in is ever replaced.                                  *)
THEOREM UploadsStaySettled == DSpec => UploadsSettle
<1> DEFINE Settled == \A u \in Uploads : /\ session[u] # NONE => session'[u] = session[u]
                                         /\ completed[u] # NONE => completed'[u] = completed[u]
<1>1. DInv /\ [DNext]_dvars => Settled
    <2> SUFFICES ASSUME DInv, [DNext]_dvars PROVE Settled
        OBVIOUS
    <2>1. ASSUME NEW u \in Uploads, NEW d \in Names, NEW p \in Principals, NEW f \in Files,
                 BeginUpload(u, d, p, f)
          PROVE  Settled
        BY <2>1 DEF BeginUpload, DInv, DTypeOK
    <2>2. ASSUME NEW u \in Uploads, NEW p \in Principals, NEW h \in Payloads, CompleteUpload(u, p, h)
          PROVE  Settled
        BY <2>2 DEF CompleteUpload, MayComplete, DInv, DTypeOK
    <2>3. CASE UNCHANGED <<session, completed>>
        BY <2>3
    <2>4. ASSUME ListVersion PROVE Settled
        <3>1. PICK u \in Uploads : storing.id = u /\ completed[u] = NONE
            BY <2>4 DEF ListVersion, DInv, DTypeOK, Completions
        <3>2. QED
            BY <2>4, <3>1 DEF ListVersion, DInv, DTypeOK
    <2>5. QED
        BY <2>1, <2>2, <2>3, <2>4 DEF DNext, BeginCreate, Register, Show, Apart, Grant, BeginTombstone, BeginProfile, Goes,
           TombstoneObject, TombstoneVersion, LookUp, KeepProfile, rvars, others, dvars
<1>2. QED
    BY <1>1, DatasetsInvariant, PTL DEF DSpec, UploadsSettle

(* Deleted bytes stay deleted, whoever uploads them again.                 *)
THEOREM TombstonesAreForGood == DSpec => TombstonedForGood
<1> DEFINE Gone == \A a \in Artifacts : /\ status[a] = "tombstoned" => status'[a] = "tombstoned"
                                        /\ object[a] = "deleted" => object'[a] = "deleted"
<1>1. DInv /\ [DNext]_dvars => Gone
    <2> SUFFICES ASSUME DInv, [DNext]_dvars PROVE Gone
        OBVIOUS
    <2>1. ASSUME NEW u \in Uploads, NEW p \in Principals, NEW h \in Payloads, CompleteUpload(u, p, h)
          PROVE  Gone
        <3>1. session[u] \in Sessions
            BY <2>1 DEF CompleteUpload, MayComplete, DInv, DTypeOK
        <3>2. PICK a \in Artifacts : a = <<session[u].dataset, h>>
            BY <3>1 DEF Sessions, Artifacts
        <3>3. /\ status' = status
              /\ \/ object' = object
                 \/ object' = [object EXCEPT ![a] = IF @ = "absent" THEN "live" ELSE @]
            BY <2>1, <3>2 DEF CompleteUpload, NewVersion, PutImmutable
        <3>4. QED
            BY <3>3 DEF DInv, DTypeOK
    <2>2. ASSUME NEW t \in Threads, TombstoneObject(t) PROVE Gone
        BY <2>2 DEF TombstoneObject, DInv, DTypeOK
    <2>3. ASSUME NEW t \in Threads, TombstoneVersion(t) PROVE Gone
        BY <2>3 DEF TombstoneVersion, DInv, DTypeOK
    <2>4. CASE UNCHANGED <<status, object>>
        BY <2>4
    <2>5. ASSUME ListVersion PROVE Gone
        <3>1. PICK a \in Artifacts : storing.art = a /\ status[a] = "absent"
            BY <2>5 DEF ListVersion, DInv, DTypeOK, Completions, UploadsInOrder
        <3>2. QED
            BY <2>5, <3>1 DEF ListVersion, DInv, DTypeOK
    <2>6. QED
        BY <2>1, <2>2, <2>3, <2>4, <2>5 DEF DNext, BeginCreate, Register, Show, Apart, Grant, BeginUpload, BeginTombstone,
           BeginProfile, Goes, LookUp, KeepProfile, others, dvars
<1>2. QED
    BY <1>1, DatasetsInvariant, PTL DEF DSpec, TombstonedForGood

(* A profile enters the cache only with a complete message, a result, of   *)
(* the child spawned for its artifact.                                     *)
THEOREM CachedIsAlwaysComputed == DSpec => CachedIsComputed
<1> DEFINE Computed == \A a \in profiles' \ profiles :
                          \E t \in Threads : /\ req[t] # NONE /\ req[t].art = a
                                             /\ pipe[t] = "whole" /\ message[t].verdict = "ok"
<1>1. DInv /\ [DNext]_dvars => Computed
    <2> SUFFICES ASSUME DInv, [DNext]_dvars PROVE Computed
        OBVIOUS
    <2>1. ASSUME NEW t \in Threads, KeepProfile(t) PROVE Computed
        BY <2>1 DEF KeepProfile, DInv, AnswersAreWhole
    <2>2. CASE UNCHANGED profiles
        BY <2>2
    <2>3. QED
        BY <2>1, <2>2 DEF DNext, BeginCreate, Register, Show, Apart, Grant, BeginUpload,
           CompleteUpload, ListVersion, BeginTombstone, BeginProfile, Goes, TombstoneObject, TombstoneVersion, LookUp, others, dvars
<1>2. QED
    BY <1>1, DatasetsInvariant, PTL DEF DSpec, CachedIsComputed
=============================================================================
