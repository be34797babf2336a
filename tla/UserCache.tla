------------------------------ MODULE UserCache ------------------------------
(***************************************************************************)
(* The user's token cache and the commands around it: up, login and the    *)
(* cloud queries (me, groups, ...), each a process of its own, any number  *)
(* of them at a time.                                                      *)
(*                                                                         *)
(* A token is kept per profile key in one of two stores: the keyring, or   *)
(* files when the keyring does not answer that day.  Builds before the     *)
(* keyed slots kept one blob, in the keyring or in a file; every command   *)
(* that opens the cache for a profile moves such a blob into its slot.     *)
(*                                                                         *)
(* Refresh tokens are numbered in the order in which the identity provider *)
(* issued them; 0 is a token without one.  Whether an access token is      *)
(* still fresh is a choice made when it is loaded.                         *)
(*                                                                         *)
(* A save to the keyring and a remove are one step of the store.  A save   *)
(* to a file goes through a temporary file whose name all commands share,  *)
(* and is under way from the step that leads to it until its own: a        *)
(* command that is alone in it leaves what it wrote; of several at once,   *)
(* any may be renamed into place, whole or torn, and any may go on writing *)
(* to what another has renamed.                                            *)
(***************************************************************************)
EXTENDS Naturals

CONSTANTS
    Procs,      \* processes that run commands
    Keys,       \* profile keys (tenant and audience)
    None,
    MaxRt,      \* model bound: refresh tokens issued
    MaxFaults   \* model bound: store calls that fail and sign-ins without a refresh token

ASSUME UserCacheAssumption ==
    /\ MaxRt \in Nat \ {0} /\ MaxFaults \in Nat
    /\ None \notin Keys /\ None \notin 0 .. MaxRt
    /\ None \notin [key : Keys \union {None}, rt : 0 .. MaxRt]

Backends == {"keyring", "file"}
Rt == 0 .. MaxRt
Blob == [key : Keys \union {None}, rt : Rt]   \* key None: no claims to derive one from

VARIABLES
    host,           \* the store this host prefers: "file" on macOS and without a keyring
    slot,           \* slot[b][k]: the refresh token of the entry, or None
    legacyKeyring,  \* the blob of the account "token-cache", or None
    legacyFile,     \* the blob of token-cache.json, or None
    lastUsed,       \* lastUsed[b]: the last-used pointer, or None
    proc,           \* the commands under way
    issued,         \* number of refresh tokens issued so far
    faults,         \* history: how many of those there were
    hidden,         \* history: the keys of two legacy blobs, of which a command migrates one
    blunt,          \* history: the keys of legacy blobs, and of saved sign-ins, without a refresh token
    orderly,        \* history: no two commands overlapped and no step of a migration failed
    mixed,          \* mixed[k]: what the file of the entry may hold, while several commands write it
    mixedPointer,   \* the same for the file of the pointer
    raced           \* history: the keys whose files several commands wrote at once

vars == <<host, slot, legacyKeyring, legacyFile, lastUsed, proc, issued, faults, hidden, blunt, orderly,
          mixed, mixedPointer, raced>>
stores == <<slot, legacyKeyring, legacyFile, lastUsed>>

Steps == {"idle", "migrate", "keyedSave", "dropLegacy", "dropFile", "pointLegacy",
          "load", "exchange", "signIn", "browser", "device", "save", "point", "done"}
Verbs == {"up", "login", "cloud"}
Process == [pc : Steps, verb : Verbs, key : Keys \union {None}, backend : Backends,
            rt : Rt, blob : Blob \union {None},
            bare : BOOLEAN]     \* it signed in and got an access token only
Idle == [pc |-> "idle", verb |-> "up", key |-> None, backend |-> "file", rt |-> 0, blob |-> None,
         bare |-> FALSE]

TypeOK ==
    /\ host \in Backends
    /\ slot \in [Backends -> [Keys -> Rt \union {None}]]
    /\ legacyKeyring \in Blob \union {None} /\ legacyFile \in Blob \union {None}
    /\ lastUsed \in [Backends -> Keys \union {None}]
    /\ proc \in [Procs -> Process]
    /\ issued \in Rt
    /\ faults \in 0 .. MaxFaults
    /\ hidden \union blunt \subseteq Keys \union {None} /\ orderly \in BOOLEAN
    /\ mixed \in [Keys -> SUBSET (Rt \union {None})] /\ mixedPointer \subseteq Keys \union {None}
    /\ raced \subseteq Keys
    /\ \A p \in Procs : proc[p].pc \in {"load", "exchange", "save", "point"} => proc[p].key # None

\* A fresh install, or an upgrade from a build that kept one blob.
Init ==
    /\ host \in Backends
    /\ slot = [b \in Backends |-> [k \in Keys |-> None]]
    /\ legacyKeyring \in {None} \union
        IF host = "keyring" THEN [key : Keys \union {None}, rt : {0, 1}] ELSE {}
    /\ legacyFile \in {None} \union [key : Keys, rt : {0, 1}]
    /\ lastUsed = [b \in Backends |-> None]
    /\ proc = [p \in Procs |-> Idle]
    /\ issued = 1
    /\ faults = 0
    /\ hidden = IF None \in {legacyKeyring, legacyFile} THEN {}
                ELSE {legacyKeyring.key, legacyFile.key}
    /\ blunt = {blob.key : blob \in {x \in {legacyKeyring, legacyFile} \ {None} : x.rt = 0}}
    /\ orderly = TRUE
    /\ mixed = [k \in Keys |-> {}] /\ mixedPointer = {} /\ raced = {}

\* Process p goes on at a step.
Goto(p, pc) == proc' = [proc EXCEPT ![p].pc = pc]

\* A command ends, with or without success.
End(p) == proc' = [proc EXCEPT ![p] = Idle]

\* A call of the store fails, or a sign-in brings no refresh token.
Fault == faults < MaxFaults /\ faults' = faults + 1
NoFault == UNCHANGED faults

-----------------------------------------------------------------------------
(* Files that several commands write at once *)

\* The commands that save the entry of k to its file, and the token each saves.
EntryWriters(k) ==
    {p \in Procs : /\ proc[p].backend = "file"
                   /\ \/ proc[p].pc = "save" /\ proc[p].key = k
                      \/ proc[p].pc = "keyedSave" /\ proc[p].blob.key = k}
EntryData(p) == IF proc[p].pc = "save" THEN proc[p].rt ELSE proc[p].blob.rt

\* The same for the pointer.
PointerWriters == {p \in Procs : proc[p].backend = "file" /\ proc[p].pc \in {"point", "pointLegacy"}}
PointerData(p) == IF proc[p].pc = "point" THEN proc[p].key ELSE proc[p].blob.key

\* What the temporary file of write_atomic_private may hold once several have
\* opened it, until the last of them is done: the data of any, or none that
\* can be read.
Mixture(before, writers, data) ==
    IF writers # {} /\ (before # {} \/ \E p, q \in writers : p # q)
    THEN before \union data \union {None} ELSE {}

\* Every step: who has which file open.
OpenFiles ==
    /\ mixed' = [k \in Keys |->
          Mixture(mixed[k], EntryWriters(k)', {EntryData(p)' : p \in EntryWriters(k)'})]
    /\ mixedPointer' = Mixture(mixedPointer, PointerWriters', {PointerData(p)' : p \in PointerWriters'})
    /\ raced' = raced \union {k \in Keys : mixed'[k] # {}}

\* What a save puts in place: its data, or what the shared file holds.
PutInPlace(b, data, shared) == IF b = "file" /\ shared # {} THEN shared ELSE {data}

\* A save fails: a fault, or another command has renamed the shared file away.
SaveFails(b, shared) == Fault \/ (b = "file" /\ shared # {} /\ NoFault)

\* A command writes to a file that another has renamed into place.  (It may
\* here as soon as two have opened the file, the rename yet to come.)
WriteThrough ==
    /\ \/ /\ \E k \in Keys : \E rt \in mixed[k] : slot' = [slot EXCEPT !["file"][k] = rt]
          /\ UNCHANGED lastUsed
       \/ /\ \E key \in mixedPointer : lastUsed' = [lastUsed EXCEPT !["file"] = key]
          /\ UNCHANGED slot
    /\ UNCHANGED <<proc, legacyKeyring, legacyFile, issued, faults, host, hidden, blunt, orderly>>

-----------------------------------------------------------------------------
(* Opening the cache *)

\* pick_backend: the keyring if it answers the probe.
PickBackend(b) ==
    \/ b = host /\ NoFault
    \/ host = "keyring" /\ b = "file" /\ Fault

\* for_profile (up, login) or last_used (cloud queries).
Start(p) ==
    /\ proc[p].pc = "idle"
    /\ \E verb \in Verbs, b \in Backends, k \in Keys :
        /\ PickBackend(b)
        /\ proc' = [proc EXCEPT ![p] = [Idle EXCEPT
            !.verb = verb, !.backend = b,
            !.key = IF verb = "cloud" THEN lastUsed[b] ELSE k,
            !.pc = IF verb = "cloud" /\ lastUsed[b] # None THEN "load" ELSE "migrate"]]
    /\ orderly' = (orderly /\ \A q \in Procs : proc[q].pc = "idle")
    /\ UNCHANGED <<stores, issued, host, hidden, blunt>>

\* The blob migrate_legacy_into() finds: the chosen store's own, if it can be
\* read, else the file's.
LegacyBlob(b, readable) ==
    IF b = "keyring"
    THEN IF readable /\ legacyKeyring # None THEN legacyKeyring ELSE legacyFile
    ELSE IF readable THEN legacyFile ELSE None

\* Plausible slip: a cloud query goes on without a key.
NotMigratedAnyway(p) == proc' = [proc EXCEPT ![p].pc = "load", ![p].blob = None]

\* Without a migrated blob, up and login go on; a cloud query has no token.
NotMigrated(p) ==
    proc' = [proc EXCEPT ![p] = IF @.verb = "cloud" THEN Idle
                                ELSE [@ EXCEPT !.pc = "load", !.blob = None]]

Migrate(p) ==
    /\ proc[p].pc = "migrate"
    /\ \E readable \in BOOLEAN :
        LET blob == LegacyBlob(proc[p].backend, readable) IN
        /\ \/ /\ blob \notin [key : Keys, rt : Rt]
              /\ NotMigrated(p)
           \/ /\ blob \in [key : Keys, rt : Rt]
              /\ proc' = [proc EXCEPT ![p].blob = blob, ![p].pc = "keyedSave"]
        /\ IF readable THEN NoFault ELSE Fault
        /\ orderly' = (orderly /\ readable)
    /\ UNCHANGED <<stores, issued, host, hidden, blunt>>

\* The blob is copied first; if that fails the legacy entry stays.
KeyedSave(p) ==
    /\ proc[p].pc = "keyedSave"
    /\ LET b == proc[p].backend  blob == proc[p].blob IN
        \/ /\ \E rt \in PutInPlace(b, blob.rt, mixed[blob.key]) : slot' = [slot EXCEPT ![b][blob.key] = rt]
           /\ Goto(p, "dropLegacy") /\ NoFault /\ UNCHANGED orderly
        \/ NotMigrated(p) /\ SaveFails(b, mixed[blob.key]) /\ orderly' = FALSE /\ UNCHANGED slot
    /\ UNCHANGED <<legacyKeyring, legacyFile, lastUsed, issued, host, hidden, blunt>>

\* Plausible slip: the blob is copied but its entry is not removed.
DropLegacyNot(p) ==
    /\ proc[p].pc = "dropLegacy"
    /\ Goto(p, IF proc[p].backend = "file" THEN "pointLegacy" ELSE "dropFile")
    /\ UNCHANGED <<stores, issued, faults, host, hidden, blunt, orderly>>

\* The legacy entry of the store is removed; a failure is only warned about.
DropLegacy(p) ==
    /\ proc[p].pc = "dropLegacy"
    /\ \/ /\ legacyKeyring' = IF proc[p].backend = "keyring" THEN None ELSE legacyKeyring
          /\ legacyFile' = IF proc[p].backend = "file" THEN None ELSE legacyFile
          /\ NoFault /\ UNCHANGED orderly
       \/ Fault /\ orderly' = FALSE /\ UNCHANGED <<legacyKeyring, legacyFile>>
    /\ Goto(p, "dropFile")
    /\ UNCHANGED <<slot, lastUsed, issued, host, hidden, blunt>>

\* A file that an older build left is removed too, whatever is in it.
DropFile(p) ==
    /\ proc[p].pc = "dropFile"
    /\ \/ legacyFile' = None /\ NoFault /\ UNCHANGED orderly
       \/ legacyFile # None /\ Fault /\ orderly' = FALSE /\ UNCHANGED legacyFile
    /\ Goto(p, "pointLegacy")
    /\ UNCHANGED <<slot, legacyKeyring, lastUsed, issued, host, hidden, blunt>>

\* The pointer follows; a cloud query goes on with the migrated key.
PointLegacy(p) ==
    /\ proc[p].pc = "pointLegacy"
    /\ \/ /\ \E key \in PutInPlace(proc[p].backend, proc[p].blob.key, mixedPointer) :
                lastUsed' = [lastUsed EXCEPT ![proc[p].backend] = key]
          /\ NoFault
       \/ SaveFails(proc[p].backend, mixedPointer) /\ UNCHANGED lastUsed
    /\ proc' = [proc EXCEPT ![p].pc = "load", ![p].blob = None,
                            ![p].key = IF proc[p].verb = "cloud" THEN proc[p].blob.key ELSE @]
    /\ UNCHANGED <<slot, legacyKeyring, legacyFile, issued, host, hidden, blunt, orderly>>

-----------------------------------------------------------------------------
(* Acquiring a token *)

\* Plausible slip: up takes a fresh access token although no refresh token
\* came with it.
GoodEnoughAnyway(p, entry, fresh) == proc[p].verb = "up" /\ entry # None /\ fresh

\* up takes a cached token as it is if it is fresh and has a refresh token.
GoodEnough(p, entry, fresh) == proc[p].verb = "up" /\ entry \notin {None, 0} /\ fresh

\* load_attempt; an unreadable entry is no entry.
Load(p) ==
    /\ proc[p].pc = "load"
    /\ \E fresh \in BOOLEAN, readable \in BOOLEAN :
        LET entry == IF readable THEN slot[proc[p].backend][proc[p].key] ELSE None IN
        /\ IF readable THEN NoFault ELSE Fault
        /\ \/ /\ GoodEnough(p, entry, fresh)
              /\ proc' = [proc EXCEPT ![p].pc = "done", ![p].rt = entry]
           \/ /\ ~GoodEnough(p, entry, fresh) /\ entry \notin {None, 0}
              /\ proc' = [proc EXCEPT ![p].pc = "exchange", ![p].rt = entry]
           \/ /\ ~GoodEnough(p, entry, fresh) /\ entry \in {None, 0}
              /\ IF proc[p].verb = "cloud" THEN End(p) ELSE Goto(p, "signIn")
    /\ UNCHANGED <<stores, issued, host, hidden, blunt, orderly>>

\* A refresh token the identity provider issues.
NextRt == issued + 1

\* Plausible slip: an answer without a refresh token is saved as it is.
KeptRtDropped(previous) == 0

\* save_refresh_result: an answer without a refresh token keeps the previous one.
KeptRt(previous) == previous

\* The refresh grant, with or without rotation.  A cloud query saves nothing;
\* up and login fall back to an interactive sign-in.
Exchange(p) ==
    /\ proc[p].pc = "exchange"
    /\ \/ /\ proc[p].verb = "cloud"
          /\ End(p) /\ UNCHANGED issued
       \/ /\ proc[p].verb # "cloud"
          /\ \/ /\ issued < MaxRt
                /\ issued' = NextRt
                /\ proc' = [proc EXCEPT ![p].pc = "save", ![p].rt = NextRt]
             \/ /\ proc' = [proc EXCEPT ![p].pc = "save", ![p].rt = KeptRt(@)]
                /\ UNCHANGED issued
             \/ Goto(p, "signIn") /\ UNCHANGED issued
    /\ UNCHANGED <<stores, faults, host, hidden, blunt, orderly>>

\* acquire_interactively: the browser flow if its port is free, the device
\* code in a headless session or, unless the mode was forced, if it is not.
SignIn(p) ==
    /\ proc[p].pc = "signIn"
    /\ \/ /\ \A q \in Procs : proc[q].pc # "browser"
          /\ Goto(p, "browser")
       \/ Goto(p, "device")
       \/ /\ \E q \in Procs : proc[q].pc = "browser"
          /\ End(p)
    /\ UNCHANGED <<stores, issued, faults, host, hidden, blunt, orderly>>

\* A sign-in brings a refresh token, or an access token only.
SignedIn(p) ==
    \/ /\ issued < MaxRt
       /\ issued' = NextRt
       /\ proc' = [proc EXCEPT ![p].pc = "save", ![p].rt = NextRt]
       /\ NoFault
    \/ /\ proc' = [proc EXCEPT ![p].pc = "save", ![p].rt = 0, ![p].bare = TRUE]
       /\ Fault /\ UNCHANGED issued

\* What the one connection the loopback listener accepts may carry: the code
\* with the state of this sign-in, that of another one (a stale tab), an
\* error of the identity provider, anything else, or nothing in time.
Callbacks == {"ours", "otherState", "refused", "unparsable", "timeout"}

\* wait_for_callback takes only its own state; all else ends the command.
CallbackAccepted(callback) == callback = "ours"

\* run: the callback, then the code is exchanged, which may fail too.
Browser(p) ==
    /\ proc[p].pc = "browser"
    /\ \E callback \in Callbacks :
        \/ CallbackAccepted(callback) /\ SignedIn(p)
        \/ End(p) /\ NoFault /\ UNCHANGED issued
    /\ UNCHANGED <<stores, host, hidden, blunt, orderly>>

DeviceCode(p) ==
    /\ proc[p].pc = "device"
    /\ \/ SignedIn(p)
       \/ End(p) /\ NoFault /\ UNCHANGED issued
    /\ UNCHANGED <<stores, host, hidden, blunt, orderly>>

-----------------------------------------------------------------------------
(* Saving it *)

\* Plausible slip: the pointer is moved although the token was not saved.
AfterFailedSavePoints == "point"

\* A token that cannot be saved is used all the same, and the pointer stays.
AfterFailedSave == "done"

Save(p) ==
    /\ proc[p].pc = "save"
    /\ LET b == proc[p].backend  k == proc[p].key IN
        \/ /\ \E rt \in PutInPlace(b, proc[p].rt, mixed[k]) : slot' = [slot EXCEPT ![b][k] = rt]
           /\ blunt' = blunt \union IF proc[p].bare THEN {k} ELSE {}
           /\ Goto(p, "point") /\ NoFault
        \/ Goto(p, AfterFailedSave) /\ SaveFails(b, mixed[k]) /\ UNCHANGED <<slot, blunt>>
    /\ UNCHANGED <<legacyKeyring, legacyFile, lastUsed, issued, host, hidden, orderly>>

Point(p) ==
    /\ proc[p].pc = "point"
    /\ \/ /\ \E key \in PutInPlace(proc[p].backend, proc[p].key, mixedPointer) :
                lastUsed' = [lastUsed EXCEPT ![proc[p].backend] = key]
          /\ NoFault
       \/ SaveFails(proc[p].backend, mixedPointer) /\ UNCHANGED lastUsed
    /\ Goto(p, "done")
    /\ UNCHANGED <<slot, legacyKeyring, legacyFile, issued, host, hidden, blunt, orderly>>

\* up hands the pair to the daemon; login is over.
Finish(p) ==
    /\ proc[p].pc = "done"
    /\ End(p)
    /\ UNCHANGED <<stores, issued, faults, host, hidden, blunt, orderly>>

\* The user interrupts the command.
Interrupt(p) ==
    /\ proc[p].pc \notin {"idle", "done"}
    /\ End(p)
    /\ UNCHANGED <<stores, issued, faults, host, hidden, blunt, orderly>>

Next ==
    /\ \/ WriteThrough
       \/ \E p \in Procs :
            \/ Start(p) \/ Migrate(p) \/ KeyedSave(p) \/ DropLegacy(p) \/ DropFile(p) \/ PointLegacy(p)
            \/ Load(p) \/ Exchange(p) \/ SignIn(p) \/ Browser(p) \/ DeviceCode(p)
            \/ Save(p) \/ Point(p) \/ Finish(p) \/ Interrupt(p)
    /\ OpenFiles

Spec == Init /\ [][Next]_vars

-----------------------------------------------------------------------------
(* Properties *)

\* The pointer that commands without a profile follow names an entry that is
\* there, whatever failed or was interrupted around the save it belongs to and
\* whoever wrote the pointer at the same time.  (Not so for an entry whose own
\* file two commands wrote at once through the temporary file they share: it
\* may be torn.)
PointerResolves ==
    \A b \in Backends :
        lastUsed[b] # None /\ ~(b = "file" /\ lastUsed[b] \in raced) => slot[b][lastUsed[b]] # None

\* Some store or legacy blob has a refresh token for the key.
Held(k) ==
    \/ \E b \in Backends : slot[b][k] \notin {None, 0}
    \/ \E blob \in {legacyKeyring, legacyFile} \ {None} : blob.key = k /\ blob.rt > 0

\* The last stored refresh token of a profile is never thrown away: not by a
\* migration that is interrupted or fails half way, by a grant that does not
\* rotate, nor by two commands at once.  (Not so when there are two legacy
\* blobs, one of which is deleted unread; for a legacy blob without a refresh
\* token that a failed or concurrent migration copies late; once a sign-in
\* that brought an access token only is saved over the entry; nor for an
\* entry whose file two commands write at once.)
CredentialNotLost ==
    [][\A k \in Keys \ (hidden \union blunt' \union raced') : Held(k) => Held(k)']_vars

\* When up has a token for the daemon it has a refresh token too, without which
\* the daemon could not reconnect after a reboot, unless this very command
\* signed in and was given none: never from the cache, whatever is in it, nor
\* from the refresh grant.
UpHandsRefreshToken == \A p \in Procs : proc[p].pc = "done" => proc[p].rt > 0 \/ proc[p].bare

\* As long as commands do not overlap and no step of a migration fails, a
\* stored refresh token is never replaced by an older one: an interrupted
\* migration may be repeated.  (Not so when there are two legacy
\* blobs: interrupted between the two removals, the next command copies the
\* file over the entry made from the keyring; nor when a sign-in that brought
\* no refresh token is saved.)
NoRollback ==
    [][orderly => \A b \in Backends, k \in Keys \ hidden :
                    \/ slot[b][k] # None /\ slot[b][k]' # None => slot[b][k]' >= slot[b][k]
                    \/ \E p \in Procs : proc[p].pc = "save" /\ proc[p].bare /\ proc[p].key = k]_vars

=============================================================================
