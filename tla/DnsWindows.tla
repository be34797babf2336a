------------------------------ MODULE DnsWindows ------------------------------
(***************************************************************************)
(* The Windows manager: rules of the Name Resolution Policy Table, each a  *)
(* registry key named by a GUID, in the local table and, when a group      *)
(* policy has rules of its own, mirrored in the policy table.  Windows     *)
(* reads the policy table if its key exists, and the local one otherwise.  *)
(* The GUIDs we own are recorded in the registry, after the rules.         *)
(***************************************************************************)
EXTENDS Dns

CONSTANTS
    Guids,        \* model bound: identifiers to draw from
    MaxDomains    \* MAX_DOMAINS_PER_RULE

ASSUME WindowsAssumption == MaxDomains \in Nat \ {0}

VARIABLES
    local, policy,  \* the two tables: rules [id, view] of ours
    policyKey,      \* the policy table's key exists
    gpo,            \* it has rules of a group policy
    owned,          \* NRPTRuleIDs, a sequence
    writes,         \* writes apply_rules() has yet to make: a sequence of [table, rule]
    newIds,         \* the identifiers it will record
    gpoKept,        \* history: the policy's rules were there when the current call began
    withdrawn       \* history: a policy has taken its rules back and left the key

windowsVars == <<local, policy, policyKey, gpo, owned, writes, newIds, gpoKept, withdrawn>>

Ids(rules) == {r.id : r \in rules}
OursWindows == Ids(local) \union Ids(policy)
Recorded == {owned[i] : i \in DOMAIN owned}
Distinct(ids) == \A i, j \in DOMAIN ids : i # j => ids[i] # ids[j]

WindowsInit ==
    /\ local = {} /\ policy = {}
    /\ gpo \in BOOLEAN /\ policyKey = gpo
    /\ owned = <<>> /\ writes = <<>> /\ newIds = <<>>
    /\ gpoKept = FALSE
    /\ withdrawn = FALSE

WindowsTypeOK ==
    /\ OursWindows \union Recorded \subseteq Guids
    /\ gpo \/ policy # {} => policyKey
    /\ Distinct(newIds)
    /\ \A table \in {local, policy} : \A r, s \in table : r.id = s.id => r = s

-----------------------------------------------------------------------------
(* install *)

\* detect_gp_write_mode: the policy table has a rule that we do not own.
Mirror == gpo \/ Ids(policy) \ Recorded # {}

\* build_rules: one rule for every MaxDomains suffixes; a blank one becomes
\* ".", which matches every name.
Chunks(seq) == (Len(seq) + MaxDomains - 1) \div MaxDomains
ChunkView(i) ==
    Listed(SubSeq(want.suffixes, (i - 1) * MaxDomains + 1,
                  IF i * MaxDomains < Len(want.suffixes) THEN i * MaxDomains ELSE Len(want.suffixes)))
    \X {want.servers}

\* new_guid_string: identifiers nobody uses, no two the same.  They are opaque,
\* so any choice of them stands for all.
Unused == Guids \ (OursWindows \union Recorded)
Draws(n) == {ids \in [1 .. n -> Unused] : Distinct(ids)}

\* Plausible slip: one identifier is drawn for the whole set.
FreshIdsOnce(n) == [i \in 1 .. n |-> CHOOSE g \in Unused : TRUE]

FreshIds(n) == CHOOSE ids \in Draws(n) : TRUE

\* Recorded identifiers are used again, in their order, before fresh ones.
Assigned(n) ==
    [i \in 1 .. n |-> IF i <= Len(owned) THEN owned[i] ELSE FreshIds(n - Len(owned))[i - Len(owned)]]

\* The writes, in order: every rule locally and, when mirrored, in the policy table.
WritesOf(ids, mirror) ==
    LET rule(i) == [id |-> ids[i], view |-> ChunkView(i)] IN
    IF mirror
    THEN [k \in 1 .. 2 * Len(ids) |->
            [table |-> IF k % 2 = 1 THEN "local" ELSE "policy", rule |-> rule((k + 1) \div 2)]]
    ELSE [k \in 1 .. Len(ids) |-> [table |-> "local", rule |-> rule(k)]]

\* Recorded rules beyond the number of chunks.
Surplus(n) == {owned[i] : i \in {j \in DOMAIN owned : j > n}}

\* The record is read, the mode detected, the rules built, the keys opened.
Install ==
    /\ pc = "install"
    /\ \/ /\ LET n == Chunks(want.suffixes) IN
             /\ Draws(n - Len(owned)) # {}
             /\ \E probed \in BOOLEAN :
                   LET mirror == probed /\ Mirror IN
                   /\ newIds' = Assigned(n)
                   /\ writes' = WritesOf(Assigned(n), mirror)
                   /\ policyKey' = (policyKey \/ mirror)
                   /\ GoOn("surplus", Surplus(n))
                   /\ IF probed THEN Smooth ELSE Fails({})
          /\ gpoKept' = gpo
          /\ UNCHANGED <<local, policy, gpo, owned, withdrawn>>
       \/ ReturnError /\ Fails({}) /\ UNCHANGED windowsVars

\* delete_rule in both tables; a failure is only warned about.
DeleteRule(id) ==
    \/ /\ local' = {r \in local : r.id # id}
       /\ policy' = {r \in policy : r.id # id}
       /\ Smooth
    \/ /\ id \in OursWindows
       /\ Fails({id})
       /\ \/ policy' = {r \in policy : r.id # id} /\ UNCHANGED local
          \/ local' = {r \in local : r.id # id} /\ UNCHANGED policy

DeleteOne ==
    /\ pc \in {"surplus", "clear", "clearOrphans"}
    /\ \E id \in todo : DeleteRule(id) /\ GoOn(pc, todo \ {id})
    /\ UNCHANGED <<policyKey, gpo, owned, writes, newIds, gpoKept, withdrawn>>

Put(table, rule) == {r \in table : r.id # rule.id} \union {rule}

\* write_rule; an error ends install() before the identifiers are recorded.
WriteRule ==
    /\ pc = "surplus" /\ todo = {} /\ writes # <<>>
    /\ LET w == Head(writes) IN
       /\ \/ w.table = "local" /\ local' = Put(local, w.rule) /\ UNCHANGED policy
          \/ w.table = "policy" /\ policy' = Put(policy, w.rule) /\ UNCHANGED local
          \/ UNCHANGED <<local, policy>>
       /\ \/ /\ GoOn("surplus", {}) /\ Smooth
             /\ writes' = Tail(writes)
             /\ <<local', policy'>> # <<local, policy>> \/ w.rule \in (IF w.table = "local" THEN local ELSE policy)
          \/ /\ ReturnError
             /\ Fails((OursWindows \union {w.rule.id}) \ Recorded)
             /\ writes' = <<>>
    /\ newIds' = IF pc' = "idle" THEN <<>> ELSE newIds
    /\ UNCHANGED <<policyKey, gpo, owned, gpoKept, withdrawn>>

\* save_owned_rule_ids comes last.
SaveIds ==
    /\ pc = "surplus" /\ todo = {} /\ writes = <<>>
    /\ \/ owned' = newIds /\ ReturnOk
       \/ ReturnError /\ Fails(OursWindows \ Recorded) /\ UNCHANGED owned
    /\ newIds' = <<>>
    /\ UNCHANGED <<local, policy, policyKey, gpo, writes, gpoKept, withdrawn>>

-----------------------------------------------------------------------------
(* clear_rules, of revert() and of the start-up pass *)

Finish == IF pc \in {"clear", "dropKey", "revert"} THEN Reverted ELSE CleanedUp

\* Plausible slip: only the rules of this process are cleared, so a fresh
\* manager finds nothing.
ClearedIdsOfProcess == IF pc = "revert" THEN Recorded ELSE {}

\* load_owned_rule_ids: what the registry records, not what the manager knows.
ClearedIds == Recorded

ClearRules ==
    /\ pc \in {"revert", "cleanup"}
    /\ \/ GoOn(IF pc = "revert" THEN "clear" ELSE "clearOrphans", ClearedIds) /\ Smooth
       \/ Finish /\ Fails(OursWindows)
    /\ gpoKept' = gpo
    /\ UNCHANGED <<local, policy, policyKey, gpo, owned, writes, newIds, withdrawn>>

\* gp_base_key_is_empty
PolicyEmpty == policyKey /\ policy = {} /\ ~gpo

\* The record is emptied, whether or not every delete worked; an empty policy
\* key is then deleted.
SaveNoIds ==
    /\ pc \in {"clear", "clearOrphans"} /\ todo = {}
    /\ \/ /\ owned' = <<>>
          /\ Smooth
          /\ IF PolicyEmpty
             THEN GoOn(IF pc = "clear" THEN "dropKey" ELSE "dropOrphanKey", {})
             ELSE Finish
       \/ Finish /\ Fails({}) /\ UNCHANGED owned
    /\ UNCHANGED <<local, policy, policyKey, gpo, writes, newIds, gpoKept, withdrawn>>

\* delete_gp_base_key takes whatever has come into the key meanwhile.
DropPolicyKey ==
    /\ pc \in {"dropKey", "dropOrphanKey"}
    /\ \/ /\ policyKey' = FALSE /\ gpo' = FALSE /\ policy' = {}
          /\ withdrawn' = FALSE
          /\ Smooth
       \/ Fails({}) /\ UNCHANGED <<policyKey, gpo, policy, withdrawn>>
    /\ Finish
    /\ UNCHANGED <<local, owned, writes, newIds, gpoKept>>

-----------------------------------------------------------------------------

\* Rules that no record names are found by no start-up.
WindowsKilled ==
    /\ Killed(OursWindows \ Recorded)
    /\ writes' = <<>> /\ newIds' = <<>>
    /\ UNCHANGED <<local, policy, policyKey, gpo, owned, gpoKept, withdrawn>>

\* A group policy puts its rules in the table, or takes them back.
GpoChanges ==
    /\ gpo' = ~gpo
    /\ policyKey' = TRUE
    /\ withdrawn' = (withdrawn \/ gpo)
    /\ gpoKept' = FALSE
    /\ Interference
    /\ UNCHANGED <<platform, profile, pc, attempt, want, todo, reported, stray, faults, crashes,
                   local, policy, owned, writes, newIds>>

WindowsNext ==
    \/ DnsDriver /\ UNCHANGED windowsVars
    \/ Install \/ DeleteOne \/ WriteRule \/ SaveIds
    \/ ClearRules \/ SaveNoIds \/ DropPolicyKey
    \/ WindowsKilled \/ GpoChanges

\* What the resolver does with our rules.
ResolverWindows == UNION {r.view : r \in IF policyKey THEN policy ELSE local}

=============================================================================
