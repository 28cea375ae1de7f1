------------------------------ MODULE Directory ------------------------------
(***************************************************************************)
(* The identity directory: workspaces, their members and roles, and the    *)
(* resources a member was granted.  Callers ask in any order, for any      *)
(* workspace and principal; what the code refuses is no step.              *)
(***************************************************************************)
EXTENDS Naturals, FiniteSets

CONSTANTS Humans, Machines,     \* principal ids; a machine is a bot or a service
          Workspaces, Resources,
          MaxGeneration         \* bound of the model

ASSUME DirectoryAssumption == /\ IsFiniteSet(Humans) /\ IsFiniteSet(Machines)
                              /\ Humans \cap Machines = {}

VARIABLES registered,       \* principals that exist
          workspaces,       \* workspaces that exist
          membership,       \* membership[w][p]: p's role in w, and whether it is active
          access,           \* access[w][r][p]: what p's grant on r allows
          generation        \* generation[w]: policy_generation

dirvars == <<registered, workspaces, membership, access, generation>>

Ids == Humans \cup Machines
Roles == {"viewer", "editor", "owner"}
Memberships == [role : Roles \cup {"none"}, active : BOOLEAN]
Levels == {"none", "read", "write"}

DirInit == /\ registered = {}
           /\ workspaces = {}
           /\ membership = [w \in Workspaces |-> [p \in Ids |-> [role |-> "none", active |-> FALSE]]]
           /\ access = [w \in Workspaces |-> [r \in Resources |-> [p \in Ids |-> "none"]]]
           /\ generation = [w \in Workspaces |-> 0]

RegisterPrincipal(p) == /\ p \notin registered
                        /\ registered' = registered \cup {p}
                        /\ UNCHANGED <<workspaces, membership, access, generation>>

CreateWorkspace(w, owner) ==
    /\ w \notin workspaces /\ owner \in registered \cap Humans
    /\ workspaces' = workspaces \cup {w}
    /\ membership' = [membership EXCEPT ![w][owner] = [role |-> "owner", active |-> TRUE]]
    /\ UNCHANGED <<registered, access, generation>>

Owners(w) == {p \in Ids : membership[w][p].active /\ membership[w][p].role = "owner"}

\* _require_role(OWNER): whoever is no active member, or of a lower rank, is refused.
MayManage(w, actor) == w \in workspaces /\ actor \in Owners(w)

Bump(w) == /\ generation[w] < MaxGeneration
           /\ generation' = [generation EXCEPT ![w] = @ + 1]

AddMember_Unregistered(w, actor, p, role) ==
    /\ MayManage(w, actor) /\ ~membership[w][p].active
    /\ role = "owner" => p \in Humans
    /\ membership' = [membership EXCEPT ![w][p] = [role |-> role, active |-> TRUE]]
    /\ Bump(w)
    /\ UNCHANGED <<registered, workspaces, access>>

AddMember(w, actor, p, role) ==
    /\ MayManage(w, actor) /\ p \in registered
    /\ role = "owner" => p \in Humans
    /\ ~membership[w][p].active
    /\ membership' = [membership EXCEPT ![w][p] = [role |-> role, active |-> TRUE]]
    /\ Bump(w)
    /\ UNCHANGED <<registered, workspaces, access>>

LastOwner_NotMyself(w, p) == Owners(w) = {}
LastOwner(w, p) == membership[w][p].role = "owner" /\ Cardinality(Owners(w)) <= 1

RemoveMember_NoBump(w, actor, p) ==
    /\ MayManage(w, actor) /\ membership[w][p].active /\ ~LastOwner(w, p)
    /\ membership' = [membership EXCEPT ![w][p] = [role |-> @.role, active |-> FALSE]]
    /\ UNCHANGED <<registered, workspaces, access, generation>>

(* The grants of a member who is removed stay; they count again when the   *)
(* member is added again.                                                  *)
RemoveMember(w, actor, p) ==
    /\ MayManage(w, actor) /\ membership[w][p].active /\ ~LastOwner(w, p)
    /\ membership' = [membership EXCEPT ![w][p] = [role |-> @.role, active |-> FALSE]]
    /\ Bump(w)
    /\ UNCHANGED <<registered, workspaces, access>>

(* A grant of neither read nor write is as good as none; one of write      *)
(* without read is refused.                                                *)
GrantResource(w, actor, r, p, level) ==
    /\ MayManage(w, actor) /\ membership[w][p].active
    /\ access' = [access EXCEPT ![w][r][p] = level]
    /\ Bump(w)
    /\ UNCHANGED <<registered, workspaces, membership>>

RevokeResource(w, actor, r, p) ==
    /\ MayManage(w, actor)
    /\ access' = [access EXCEPT ![w][r][p] = "none"]
    /\ Bump(w)
    /\ UNCHANGED <<registered, workspaces, membership>>

CanAccess(w, p, r, write) ==
    membership[w][p].active /\ access[w][r][p] \in (IF write THEN {"write"} ELSE {"read", "write"})

ManageMembers(w, actor, p) == \/ \E role \in Roles : AddMember(w, actor, p, role)
                              \/ RemoveMember(w, actor, p)

ManageAccess(w, actor, r, p) == \/ \E level \in Levels : GrantResource(w, actor, r, p, level)
                                \/ RevokeResource(w, actor, r, p)

DirNext == \/ \E p \in Ids : RegisterPrincipal(p)
           \/ \E w \in Workspaces, p \in Ids : CreateWorkspace(w, p)
           \/ \E w \in Workspaces, actor, p \in Ids : ManageMembers(w, actor, p)
           \/ \E w \in Workspaces, r \in Resources, actor, p \in Ids : ManageAccess(w, actor, r, p)

DirSpec == DirInit /\ [][DirNext]_dirvars

-----------------------------------------------------------------------------
(* Types; who is somebody in a workspace is registered, the workspace      *)
(* exists, and an owner is human.                                          *)
DirTypeOK ==
    /\ registered \subseteq Ids /\ workspaces \subseteq Workspaces
    /\ membership \in [Workspaces -> [Ids -> Memberships]]
    /\ access \in [Workspaces -> [Resources -> [Ids -> Levels]]]
    /\ generation \in [Workspaces -> Nat]
    /\ \A w \in Workspaces, p \in Ids :
          /\ membership[w][p].active => w \in workspaces /\ p \in registered
          /\ membership[w][p].role = "owner" => p \in Humans

(* A workspace is never left without an active human owner, in whatever    *)
(* order owners add and remove one another.  identity/directory.py:108.    *)
OwnersRemain == \A w \in workspaces : Owners(w) \cap Humans # {}

(* ARCHITECTURE.md:204: every change of membership or grant increases      *)
(* policy_generation.  A decision kept with the generation it was made at  *)
(* is right as long as the generation stands: while it does, no answer of  *)
(* can_access changes, and a generation never comes back.                  *)
GenerationTellsDecisions ==
    [][\A w \in Workspaces :
          /\ generation'[w] >= generation[w]
          /\ generation'[w] = generation[w] =>
                \A p \in Ids, r \in Resources, write \in BOOLEAN :
                   CanAccess(w, p, r, write)' = CanAccess(w, p, r, write)]_dirvars
=============================================================================
