---------------------------- MODULE UserCacheProof ----------------------------
(***************************************************************************)
(* The user's token cache, for any number of commands at once and any set  *)
(* of profile keys.                                                        *)
(***************************************************************************)
EXTENDS UserCache, TLAPS

-----------------------------------------------------------------------------
(* The inductive invariant *)

Whole == [key : Keys, rt : Rt]      \* a blob that can be migrated

Migrating == {"keyedSave", "dropLegacy", "dropFile", "pointLegacy"}
SigningIn == {"signIn", "browser", "device"}
Keyed == {"load", "exchange", "signIn", "browser", "device", "save", "point", "done"}

\* A command that migrates has a whole blob; up and login know their key from
\* the start and a cloud query once it loads; what is saved or handed over has
\* a refresh token, unless the command signed in and got none.
Well(p) ==
    /\ proc[p].pc \in Migrating => proc[p].blob \in Whole
    /\ proc[p].pc # "idle" /\ proc[p].verb # "cloud" => proc[p].key \in Keys
    /\ proc[p].pc \in Keyed => proc[p].key \in Keys
    /\ proc[p].pc = "exchange" => proc[p].rt > 0
    /\ proc[p].pc \in {"save", "point", "done"} => proc[p].rt > 0 \/ proc[p].bare

\* Entries that several commands write are known for it.
Noted == \A k \in Keys : mixed[k] # {} => k \in raced

Inv == TypeOK /\ Noted /\ \A p \in Procs : Well(p)

\* An entry is there, or its file was written by several commands at once.
Present(b, k) == slot[b][k] # None \/ (b = "file" /\ k \in raced)

\* An entry is there once it was made, and the pointer is to name no other.
Made(p) ==
    /\ proc[p].pc \in {"dropLegacy", "dropFile", "pointLegacy"} =>
          Present(proc[p].backend, proc[p].blob.key)
    /\ proc[p].pc = "point" => Present(proc[p].backend, proc[p].key)
Named == \A k \in mixedPointer \ {None} : Present("file", k)

-----------------------------------------------------------------------------
(* The records of the commands *)

\* The steps of a command's record.
LEMMA ProcessFacts ==
    ASSUME NEW r \in Process
    PROVE  /\ r.pc \in Steps /\ r.verb \in Verbs /\ r.key \in Keys \union {None}
           /\ r.backend \in Backends /\ r.rt \in Rt /\ r.blob \in Blob \union {None}
           /\ r.bare \in BOOLEAN
           /\ \A pc \in Steps :
                 /\ [r EXCEPT !.pc = pc] \in Process
                 /\ [r EXCEPT !.pc = pc].pc = pc /\ [r EXCEPT !.pc = pc].verb = r.verb
                 /\ [r EXCEPT !.pc = pc].key = r.key /\ [r EXCEPT !.pc = pc].backend = r.backend
                 /\ [r EXCEPT !.pc = pc].rt = r.rt /\ [r EXCEPT !.pc = pc].blob = r.blob
                 /\ [r EXCEPT !.pc = pc].bare = r.bare
  BY DEF Process

\* A command that is over.
LEMMA IdleFacts == Idle \in Process /\ Idle.pc = "idle" /\ Idle.blob = None
  BY UserCacheAssumption DEF Idle, Process, Steps, Verbs, Backends, Rt

\* A step of one command leaves the others as they are.
LEMMA GotoFacts ==
    ASSUME proc \in [Procs -> Process], NEW p \in Procs, NEW pc \in Steps, Goto(p, pc)
    PROVE  /\ proc' \in [Procs -> Process]
           /\ \A q \in Procs : q # p => proc'[q] = proc[q]
           /\ proc'[p].pc = pc /\ proc'[p].verb = proc[p].verb /\ proc'[p].key = proc[p].key
           /\ proc'[p].backend = proc[p].backend /\ proc'[p].rt = proc[p].rt
           /\ proc'[p].blob = proc[p].blob /\ proc'[p].bare = proc[p].bare
  BY ProcessFacts DEF Goto

\* A command ends.
LEMMA EndFacts ==
    ASSUME proc \in [Procs -> Process], NEW p \in Procs, End(p)
    PROVE  /\ proc' \in [Procs -> Process]
           /\ \A q \in Procs : q # p => proc'[q] = proc[q]
           /\ proc'[p] = Idle
  BY IdleFacts DEF End

\* A command goes on without a blob.
LEMMA NotMigratedFacts ==
    ASSUME proc \in [Procs -> Process], NEW p \in Procs, NotMigrated(p)
    PROVE  /\ proc' \in [Procs -> Process]
           /\ \A q \in Procs : q # p => proc'[q] = proc[q]
           /\ \/ proc[p].verb = "cloud" /\ proc'[p] = Idle
              \/ /\ proc[p].verb # "cloud" /\ proc'[p].pc = "load" /\ proc'[p].verb = proc[p].verb
                 /\ proc'[p].key = proc[p].key /\ proc'[p].backend = proc[p].backend
                 /\ proc'[p].blob = None
  BY IdleFacts DEF NotMigrated, Process, Steps

\* A command goes on with a token.
LEMMA TokenFacts ==
    ASSUME proc \in [Procs -> Process], NEW p \in Procs, NEW pc \in Steps, NEW rt \in Rt,
           proc' = [proc EXCEPT ![p].pc = pc, ![p].rt = rt]
    PROVE  /\ proc' \in [Procs -> Process]
           /\ \A q \in Procs : q # p => proc'[q] = proc[q]
           /\ proc'[p].pc = pc /\ proc'[p].verb = proc[p].verb /\ proc'[p].key = proc[p].key
           /\ proc'[p].backend = proc[p].backend /\ proc'[p].rt = rt
           /\ proc'[p].blob = proc[p].blob
  BY DEF Process

\* A command goes on with an access token only.
LEMMA BareFacts ==
    ASSUME proc \in [Procs -> Process], NEW p \in Procs,
           proc' = [proc EXCEPT ![p].pc = "save", ![p].rt = 0, ![p].bare = TRUE]
    PROVE  /\ proc' \in [Procs -> Process]
           /\ \A q \in Procs : q # p => proc'[q] = proc[q]
           /\ proc'[p].pc = "save" /\ proc'[p].verb = proc[p].verb /\ proc'[p].key = proc[p].key
           /\ proc'[p].backend = proc[p].backend /\ proc'[p].rt = 0
           /\ proc'[p].blob = proc[p].blob /\ proc'[p].bare
  <1> DEFINE f == [proc EXCEPT ![p].pc = "save", ![p].rt = 0]
             r == [f[p] EXCEPT !.bare = TRUE]
  <1>1. 0 \in Rt /\ "save" \in Steps
    BY UserCacheAssumption DEF Rt, Steps
  <1>2. /\ f \in [Procs -> Process]
        /\ \A q \in Procs : q # p => f[q] = proc[q]
        /\ f[p].pc = "save" /\ f[p].verb = proc[p].verb /\ f[p].key = proc[p].key
        /\ f[p].backend = proc[p].backend /\ f[p].rt = 0 /\ f[p].blob = proc[p].blob
    BY <1>1 DEF Process
  <1>3. proc' = [f EXCEPT ![p] = r]
    OBVIOUS
  <1> HIDE DEF f
  <1>4. /\ r \in Process /\ r.bare /\ r.pc = f[p].pc /\ r.verb = f[p].verb /\ r.key = f[p].key
        /\ r.backend = f[p].backend /\ r.rt = f[p].rt /\ r.blob = f[p].blob
    <2>1. f[p] \in Process
      BY <1>2
    <2> QED
      BY <2>1 DEF Process
  <1> HIDE DEF r
  <1>5. proc' \in [Procs -> Process] /\ proc'[p] = r
    <2>1. f \in [Procs -> Process] /\ r \in Process
      BY <1>2, <1>4
    <2> QED
      BY <1>3, <2>1
  <1>6. ASSUME NEW q \in Procs, q # p PROVE proc'[q] = proc[q]
    BY <1>2, <1>3, <1>6
  <1>7. /\ r.pc = "save" /\ r.verb = proc[p].verb /\ r.key = proc[p].key /\ r.backend = proc[p].backend
        /\ r.rt = 0 /\ r.blob = proc[p].blob /\ r.bare
    BY <1>2, <1>4
  <1> QED
    BY <1>5, <1>6, <1>7

\* A command begins.
LEMMA StartFacts ==
    ASSUME TypeOK, NEW p \in Procs, Start(p)
    PROVE  /\ proc' \in [Procs -> Process]
           /\ \A q \in Procs : q # p => proc'[q] = proc[q]
           /\ proc'[p].pc \in {"load", "migrate"}
           /\ proc'[p].verb # "cloud" => proc'[p].key \in Keys /\ proc'[p].pc = "migrate"
           /\ proc'[p].pc = "load" => proc'[p].key \in Keys /\ proc'[p].verb = "cloud"
           /\ proc'[p].blob = None
           /\ faults' \in 0 .. MaxFaults
  <1>1. PICK verb \in Verbs, b \in Backends, k \in Keys :
           /\ PickBackend(b)
           /\ proc' = [proc EXCEPT ![p] = [Idle EXCEPT
                 !.verb = verb, !.backend = b,
                 !.key = IF verb = "cloud" THEN lastUsed[b] ELSE k,
                 !.pc = IF verb = "cloud" /\ lastUsed[b] # None THEN "load" ELSE "migrate"]]
    BY DEF Start
  <1> DEFINE key == IF verb = "cloud" THEN lastUsed[b] ELSE k
             pc == IF verb = "cloud" /\ lastUsed[b] # None THEN "load" ELSE "migrate"
             r == [Idle EXCEPT !.verb = verb, !.backend = b, !.key = key, !.pc = pc]
  <1>2. key \in Keys \union {None} /\ pc \in {"load", "migrate"}
    BY DEF TypeOK
  <1>3. r \in Process /\ r.pc = pc /\ r.verb = verb /\ r.key = key /\ r.blob = None
    <2> DEFINE r1 == [Idle EXCEPT !.verb = verb]
               r2 == [r1 EXCEPT !.backend = b]
               r3 == [r2 EXCEPT !.key = key]
               r4 == [r3 EXCEPT !.pc = pc]
    <2>1. r = r4
      OBVIOUS
    <2> HIDE DEF key, pc, r
    <2>2. r1 \in Process /\ r1.blob = None /\ r1.verb = verb
      BY IdleFacts DEF Process
    <2>3. r2 \in Process /\ r2.blob = None /\ r2.verb = verb
      <3> HIDE DEF r1
      <3> QED
        BY <2>2 DEF Process
    <2>4. r3 \in Process /\ r3.blob = None /\ r3.verb = verb /\ r3.key = key
      <3> HIDE DEF r2
      <3> QED
        BY <1>2, <2>3 DEF Process
    <2>5. r4 \in Process /\ r4.blob = None /\ r4.verb = verb /\ r4.key = key /\ r4.pc = pc
      <3> HIDE DEF r3
      <3> QED
        BY <1>2, <2>4 DEF Process, Steps
    <2> HIDE DEF r4
    <2> QED
      BY <2>1, <2>5
  <1>5. proc' = [proc EXCEPT ![p] = r]
    BY <1>1
  <1>7. verb = "cloud" /\ pc = "load" => key \in Keys
    BY DEF TypeOK
  <1>8. faults' \in 0 .. MaxFaults
    BY <1>1, UserCacheAssumption DEF PickBackend, NoFault, Fault, TypeOK
  <1> HIDE DEF r
  <1>9. proc' \in [Procs -> Process] /\ proc'[p] = r /\ \A q \in Procs : q # p => proc'[q] = proc[q]
    BY <1>3, <1>5 DEF TypeOK
  <1> QED
    BY <1>2, <1>3, <1>7, <1>8, <1>9

\* A command takes a blob to migrate.
LEMMA BlobFacts ==
    ASSUME proc \in [Procs -> Process], NEW p \in Procs, NEW blob \in Whole,
           proc' = [proc EXCEPT ![p].blob = blob, ![p].pc = "keyedSave"]
    PROVE  /\ proc' \in [Procs -> Process]
           /\ \A q \in Procs : q # p => proc'[q] = proc[q]
           /\ proc'[p].pc = "keyedSave" /\ proc'[p].verb = proc[p].verb
           /\ proc'[p].key = proc[p].key /\ proc'[p].backend = proc[p].backend
           /\ proc'[p].blob = blob
  <1>1. blob \in Blob
    BY DEF Whole, Blob
  <1> QED
    BY <1>1 DEF Process, Steps

\* A command has migrated its blob.
LEMMA PointLegacyFacts ==
    ASSUME proc \in [Procs -> Process], NEW p \in Procs, proc[p].blob \in Whole, PointLegacy(p)
    PROVE  /\ proc' \in [Procs -> Process]
           /\ \A q \in Procs : q # p => proc'[q] = proc[q]
           /\ proc'[p].pc = "load" /\ proc'[p].verb = proc[p].verb
           /\ proc'[p].backend = proc[p].backend /\ proc'[p].blob = None
           /\ proc[p].verb = "cloud" => proc'[p].key \in Keys
           /\ proc[p].verb # "cloud" => proc'[p].key = proc[p].key
  <1> DEFINE key == IF proc[p].verb = "cloud" THEN proc[p].blob.key ELSE proc[p].key
  <1>1. key \in Keys \union {None} /\ (proc[p].verb = "cloud" => key \in Keys)
    BY DEF Whole, Process
  <1>2. proc' = [proc EXCEPT ![p].pc = "load", ![p].blob = None, ![p].key = key]
    BY DEF PointLegacy
  <1>3. proc[p].verb # "cloud" => key = proc[p].key
    OBVIOUS
  <1> DEFINE f1 == [proc EXCEPT ![p].pc = "load"]
             f2 == [f1 EXCEPT ![p].blob = None]
             f3 == [f2 EXCEPT ![p].key = key]
  <1> HIDE DEF key
  <1>4. /\ f1 \in [Procs -> Process] /\ \A q \in Procs : q # p => f1[q] = proc[q]
        /\ f1[p].pc = "load" /\ f1[p].verb = proc[p].verb /\ f1[p].backend = proc[p].backend
    BY DEF Process, Steps
  <1>5. /\ f2 \in [Procs -> Process] /\ \A q \in Procs : q # p => f2[q] = proc[q]
        /\ f2[p].pc = "load" /\ f2[p].verb = proc[p].verb /\ f2[p].backend = proc[p].backend
        /\ f2[p].blob = None
    <2> HIDE DEF f1
    <2> QED
      BY <1>4 DEF Process
  <1>6. /\ f3 \in [Procs -> Process] /\ \A q \in Procs : q # p => f3[q] = proc[q]
        /\ f3[p].pc = "load" /\ f3[p].verb = proc[p].verb /\ f3[p].backend = proc[p].backend
        /\ f3[p].blob = None /\ f3[p].key = key
    <2> HIDE DEF f2
    <2> QED
      BY <1>1, <1>5 DEF Process
  <1>7. proc' = f3
    BY <1>2
  <1> QED
    BY <1>1, <1>3, <1>6, <1>7

-----------------------------------------------------------------------------
(* Types *)

Files ==
    /\ mixed \in [Keys -> SUBSET (Rt \union {None})] /\ mixedPointer \subseteq Keys \union {None}
    /\ raced \subseteq Keys

\* What commands write to a shared file are tokens and keys.
LEMMA FilesStep ==
    ASSUME Files, OpenFiles, proc' \in [Procs -> Process], \A p \in Procs : Well(p)'
    PROVE  Files' /\ Noted'
  <1>1. ASSUME NEW k \in Keys PROVE mixed'[k] \subseteq Rt \union {None}
    <2>1. \A p \in EntryWriters(k)' : EntryData(p)' \in Rt
      BY ProcessFacts DEF EntryWriters, EntryData, Well, Migrating, Whole
    <2>2. mixed'[k] \subseteq mixed[k] \union {EntryData(p)' : p \in EntryWriters(k)'} \union {None}
      BY DEF OpenFiles, Mixture
    <2> QED
      BY <2>1, <2>2 DEF Files
  <1>2. mixedPointer' \subseteq Keys \union {None}
    <2>1. \A p \in PointerWriters' : PointerData(p)' \in Keys
      BY ProcessFacts DEF PointerWriters, PointerData, Well, Migrating, Whole, Keyed
    <2> QED
      BY <2>1 DEF OpenFiles, Mixture, Files
  <1>3. mixed' = [k \in Keys |-> mixed'[k]]
    BY DEF OpenFiles
  <1>4. raced' \subseteq Keys /\ Noted'
    BY DEF OpenFiles, Files, Noted
  <1> QED
    BY <1>1, <1>2, <1>3, <1>4 DEF Files

\* Every step keeps the types and the shape of the commands.
LEMMA TypeStep == Inv /\ [Next]_vars => Inv'
  <1>0. CASE UNCHANGED vars
    BY <1>0 DEF vars, stores, Inv, TypeOK, Noted, Well
  <1> SUFFICES ASSUME Inv, Next PROVE Inv'
    BY <1>0
  <1>o. OpenFiles
    BY DEF Next
  <1> DEFINE Others(p) == \A q \in Procs : q # p => proc'[q] = proc[q]
             Typed == /\ host \in Backends
                      /\ slot \in [Backends -> [Keys -> Rt \union {None}]]
                      /\ legacyKeyring \in Blob \union {None} /\ legacyFile \in Blob \union {None}
                      /\ lastUsed \in [Backends -> Keys \union {None}]
                      /\ issued \in Rt /\ faults \in 0 .. MaxFaults
                      /\ hidden \union blunt \subseteq Keys \union {None}
  <1>a. Typed /\ orderly \in BOOLEAN /\ proc \in [Procs -> Process] /\ Files
    BY DEF Inv, TypeOK, Files
  <1>b. ASSUME NEW p \in Procs, Others(p), proc' \in [Procs -> Process], Well(p)', Typed', orderly' \in BOOLEAN
        PROVE  Inv'
    <2>1. \A q \in Procs : Well(q)'
      BY <1>b DEF Inv, Well
    <2>2. \A q \in Procs : proc'[q].pc \in {"load", "exchange", "save", "point"} => proc'[q].key # None
      BY <2>1, UserCacheAssumption DEF Well, Keyed
    <2>3. Files' /\ Noted'
      BY <1>a, <1>b, <1>o, <2>1, FilesStep
    <2> QED
      BY <1>b, <2>1, <2>2, <2>3 DEF Inv, TypeOK, Files
  <1>c. Fault \/ NoFault => faults' \in 0 .. MaxFaults
    BY <1>a, UserCacheAssumption DEF Fault, NoFault
  <1>d. \A p \in Procs : Well(p) /\ proc[p] \in Process
    BY <1>a DEF Inv
  <1>1. ASSUME NEW p \in Procs, Start(p) PROVE Inv'
    <2>1. Typed'
      BY <1>1, <1>a, StartFacts DEF Start, stores, Inv
    <2>2. orderly' \in BOOLEAN
      BY <1>1, <1>a DEF Start
    <2>3. Well(p)'
      BY <1>1, StartFacts DEF Inv, Well, Migrating, Keyed
    <2> QED
      BY <1>1, <1>b, <2>1, <2>2, <2>3, StartFacts DEF Inv
  <1>2. ASSUME NEW p \in Procs, Migrate(p) PROVE Inv'
    <2>1. PICK readable \in BOOLEAN :
              LET blob == LegacyBlob(proc[p].backend, readable) IN
              /\ \/ /\ blob \notin Whole
                    /\ NotMigrated(p)
                 \/ /\ blob \in Whole
                    /\ proc' = [proc EXCEPT ![p].blob = blob, ![p].pc = "keyedSave"]
              /\ IF readable THEN NoFault ELSE Fault
              /\ orderly' = (orderly /\ readable)
      BY <1>2 DEF Migrate, Whole
    <2>2. Typed'
      BY <1>2, <1>a, <1>c, <2>1 DEF Migrate, stores
    <2>3. orderly' \in BOOLEAN
      BY <2>1
    <2>4. CASE NotMigrated(p)
      <3>1. Well(p)'
        BY <1>2, <1>a, <1>d, <2>4, NotMigratedFacts, IdleFacts DEF Well, Migrating, Keyed, Migrate
      <3> QED
        BY <1>a, <1>b, <2>2, <2>3, <2>4, <3>1, NotMigratedFacts
    <2>5. ASSUME NEW blob \in Whole, proc' = [proc EXCEPT ![p].blob = blob, ![p].pc = "keyedSave"]
          PROVE  Inv'
      <3>1. Well(p)'
        BY <1>2, <1>a, <1>d, <2>5, BlobFacts DEF Well, Migrating, Keyed, Migrate
      <3> QED
        BY <1>a, <1>b, <2>2, <2>3, <2>5, <3>1, BlobFacts
    <2> QED
      BY <2>1, <2>4, <2>5
  <1>3. ASSUME NEW p \in Procs, KeyedSave(p) PROVE Inv'
    <2>1. proc[p].blob \in Whole /\ proc[p].backend \in Backends /\ proc[p].pc = "keyedSave"
      BY <1>3, <1>d, ProcessFacts DEF KeyedSave, Well, Migrating
    <2>2. Typed'
      <3>1. PutInPlace(proc[p].backend, proc[p].blob.rt, mixed[proc[p].blob.key]) \subseteq Rt \union {None}
        BY <1>a, <2>1 DEF PutInPlace, Whole, Files
      <3>2. faults' \in 0 .. MaxFaults
        BY <1>3, <1>c DEF KeyedSave, SaveFails
      <3>3. slot' \in [Backends -> [Keys -> Rt \union {None}]]
        <4>1. CASE UNCHANGED slot
          BY <1>a, <4>1
        <4>2. ASSUME NEW rt \in Rt \union {None}, slot' = [slot EXCEPT ![proc[p].backend][proc[p].blob.key] = rt]
              PROVE  slot' \in [Backends -> [Keys -> Rt \union {None}]]
          BY <1>a, <2>1, <4>2 DEF Whole
        <4> QED
          BY <1>3, <3>1, <4>1, <4>2 DEF KeyedSave
      <3> QED
        BY <1>3, <1>a, <3>2, <3>3 DEF KeyedSave
    <2>3. orderly' \in BOOLEAN
      BY <1>3, <1>a DEF KeyedSave
    <2>4. CASE NotMigrated(p)
      <3>1. Well(p)'
        BY <1>a, <1>d, <2>1, <2>4, NotMigratedFacts, IdleFacts DEF Well, Migrating, Keyed
      <3> QED
        BY <1>a, <1>b, <2>2, <2>3, <2>4, <3>1, NotMigratedFacts
    <2>5. CASE Goto(p, "dropLegacy")
      <3>1. Well(p)'
        BY <1>a, <1>d, <2>1, <2>5, GotoFacts DEF Well, Migrating, Keyed, Steps
      <3> QED
        BY <1>a, <1>b, <2>2, <2>3, <2>5, <3>1, GotoFacts DEF Steps
    <2> QED
      BY <1>3, <2>4, <2>5 DEF KeyedSave
  <1>4. ASSUME NEW p \in Procs, DropLegacy(p) PROVE Inv'
    <2>1. Typed'
      BY <1>4, <1>a, <1>c DEF DropLegacy
    <2>2. orderly' \in BOOLEAN
      BY <1>4, <1>a DEF DropLegacy
    <2>3. Goto(p, "dropFile") /\ proc[p].pc = "dropLegacy"
      BY <1>4 DEF DropLegacy
    <2>4. Well(p)'
      BY <1>a, <1>d, <2>3, GotoFacts DEF Well, Migrating, Keyed, Steps
    <2> QED
      BY <1>a, <1>b, <2>1, <2>2, <2>3, <2>4, GotoFacts DEF Steps
  <1>5. ASSUME NEW p \in Procs, DropFile(p) PROVE Inv'
    <2>1. Typed'
      BY <1>5, <1>a, <1>c DEF DropFile
    <2>2. orderly' \in BOOLEAN
      BY <1>5, <1>a DEF DropFile
    <2>3. Goto(p, "pointLegacy") /\ proc[p].pc = "dropFile"
      BY <1>5 DEF DropFile
    <2>4. Well(p)'
      BY <1>a, <1>d, <2>3, GotoFacts DEF Well, Migrating, Keyed, Steps
    <2> QED
      BY <1>a, <1>b, <2>1, <2>2, <2>3, <2>4, GotoFacts DEF Steps
  <1>6. ASSUME NEW p \in Procs, PointLegacy(p) PROVE Inv'
    <2>1. proc[p].blob \in Whole /\ proc[p].backend \in Backends /\ proc[p].pc = "pointLegacy"
      BY <1>6, <1>d, ProcessFacts DEF PointLegacy, Well, Migrating
    <2>2. Typed'
      <3>1. PutInPlace(proc[p].backend, proc[p].blob.key, mixedPointer) \subseteq Keys \union {None}
        BY <1>a, <2>1 DEF PutInPlace, Whole, Files
      <3>2. faults' \in 0 .. MaxFaults
        BY <1>6, <1>c DEF PointLegacy, SaveFails
      <3>3. lastUsed' \in [Backends -> Keys \union {None}]
        BY <1>6, <1>a, <2>1, <3>1 DEF PointLegacy
      <3> QED
        BY <1>6, <1>a, <3>2, <3>3 DEF PointLegacy
    <2>3. orderly' \in BOOLEAN
      BY <1>6, <1>a DEF PointLegacy
    <2>4. Well(p)'
      BY <1>6, <1>a, <1>d, <2>1, PointLegacyFacts DEF Well, Migrating, Keyed
    <2>5. proc' \in [Procs -> Process] /\ Others(p)
      BY <1>6, <1>a, <2>1, PointLegacyFacts
    <2> QED
      BY <1>b, <2>2, <2>3, <2>4, <2>5
  <1>e. ASSUME NEW p \in Procs, End(p) PROVE proc' \in [Procs -> Process] /\ Others(p) /\ Well(p)'
    BY <1>a, <1>e, EndFacts, IdleFacts DEF Well, Migrating, Keyed
  <1>7. ASSUME NEW p \in Procs, Load(p) PROVE Inv'
    <2>1. PICK fresh \in BOOLEAN, readable \in BOOLEAN :
              LET entry == IF readable THEN slot[proc[p].backend][proc[p].key] ELSE None IN
              /\ IF readable THEN NoFault ELSE Fault
              /\ \/ entry \notin {None, 0} /\ proc' = [proc EXCEPT ![p].pc = "done", ![p].rt = entry]
                 \/ entry \notin {None, 0} /\ proc' = [proc EXCEPT ![p].pc = "exchange", ![p].rt = entry]
                 \/ IF proc[p].verb = "cloud" THEN End(p) ELSE Goto(p, "signIn")
      BY <1>7 DEF Load, GoodEnough
    <2>2. Typed'
      BY <1>7, <1>a, <1>c, <2>1 DEF Load, stores
    <2>3. orderly' \in BOOLEAN /\ proc[p].pc = "load"
      BY <1>7, <1>a DEF Load
    <2>4. ASSUME NEW pc \in {"done", "exchange"}, NEW entry, entry \notin {None, 0},
                 entry \in {None, slot[proc[p].backend][proc[p].key]},
                 proc' = [proc EXCEPT ![p].pc = pc, ![p].rt = entry]
          PROVE  Inv'
      <3>1. entry \in Rt /\ entry > 0
        <4>1. proc[p].backend \in Backends /\ proc[p].key \in Keys
          BY <1>d, <2>3, ProcessFacts DEF Well, Keyed
        <4>2. slot[proc[p].backend][proc[p].key] \in Rt \union {None}
          BY <1>a, <4>1
        <4> QED
          BY <2>4, <4>2, UserCacheAssumption DEF Rt
      <3>2. /\ proc' \in [Procs -> Process] /\ Others(p)
            /\ proc'[p].pc = pc /\ proc'[p].key = proc[p].key /\ proc'[p].rt = entry
        BY <1>a, <2>4, <3>1, TokenFacts DEF Steps
      <3>3. Well(p)'
        BY <1>d, <2>3, <3>1, <3>2 DEF Well, Migrating, Keyed
      <3> QED
        BY <1>b, <2>2, <2>3, <3>2, <3>3
    <2>5. CASE proc[p].verb # "cloud" /\ Goto(p, "signIn")
      <3>1. proc' \in [Procs -> Process] /\ Others(p) /\ Well(p)'
        BY <1>a, <1>d, <2>3, <2>5, GotoFacts DEF Well, Migrating, Keyed, Steps
      <3> QED
        BY <1>b, <2>2, <2>3, <3>1
    <2>6. CASE End(p)
      BY <1>b, <1>e, <2>2, <2>3, <2>6
    <2> QED
      BY <2>1, <2>4, <2>5, <2>6
  <1>f. ASSUME NEW p \in Procs, NEW rt \in Rt, rt > 0,
               proc[p].pc \in Keyed, proc' = [proc EXCEPT ![p].pc = "save", ![p].rt = rt]
        PROVE  proc' \in [Procs -> Process] /\ Others(p) /\ Well(p)'
    <2>1. /\ proc' \in [Procs -> Process] /\ Others(p)
          /\ proc'[p].pc = "save" /\ proc'[p].key = proc[p].key /\ proc'[p].rt = rt
      BY <1>a, <1>f, TokenFacts DEF Steps
    <2> QED
      BY <1>d, <1>f, <2>1 DEF Well, Migrating, Keyed
  <1>g. /\ issued < MaxRt => NextRt \in Rt /\ NextRt > 0
        /\ (issued < MaxRt /\ issued' = NextRt) \/ UNCHANGED issued => issued' \in Rt
    BY <1>a, UserCacheAssumption DEF NextRt, Rt
  <1>8. ASSUME NEW p \in Procs, Exchange(p) PROVE Inv'
    <2>1. Typed'
      BY <1>8, <1>a, <1>g DEF Exchange, stores
    <2>2. orderly' \in BOOLEAN /\ proc[p].pc = "exchange"
      BY <1>8, <1>a DEF Exchange
    <2>3. CASE End(p)
      BY <1>b, <1>e, <2>1, <2>2, <2>3
    <2>4. CASE Goto(p, "signIn")
      <3>1. proc' \in [Procs -> Process] /\ Others(p) /\ Well(p)'
        BY <1>a, <1>d, <2>2, <2>4, GotoFacts DEF Well, Migrating, Keyed, Steps
      <3> QED
        BY <1>b, <2>1, <2>2, <3>1
    <2>5. CASE issued < MaxRt /\ proc' = [proc EXCEPT ![p].pc = "save", ![p].rt = NextRt]
      BY <1>b, <1>f, <1>g, <2>1, <2>2, <2>5 DEF Keyed
    <2>6. CASE proc' = [proc EXCEPT ![p].pc = "save", ![p].rt = proc[p].rt]
      <3>1. proc[p].rt \in Rt /\ proc[p].rt > 0
        BY <1>d, <2>2, ProcessFacts DEF Well
      <3> QED
        BY <1>b, <1>f, <2>1, <2>2, <2>6, <3>1 DEF Keyed
    <2> QED
      BY <1>8, <2>3, <2>4, <2>5, <2>6 DEF Exchange, KeptRt
  <1>9. ASSUME NEW p \in Procs, SignIn(p) PROVE Inv'
    <2>1. Typed' /\ orderly' \in BOOLEAN /\ proc[p].pc = "signIn"
      BY <1>9, <1>a DEF SignIn, stores
    <2>2. CASE End(p)
      BY <1>b, <1>e, <2>1, <2>2
    <2>3. ASSUME NEW pc \in {"browser", "device"}, Goto(p, pc) PROVE Inv'
      <3>1. proc' \in [Procs -> Process] /\ Others(p) /\ Well(p)'
        BY <1>a, <1>d, <2>1, <2>3, GotoFacts DEF Well, Migrating, Keyed, Steps
      <3> QED
        BY <1>b, <2>1, <3>1
    <2> QED
      BY <1>9, <2>2, <2>3 DEF SignIn
  <1>10. ASSUME NEW p \in Procs, Browser(p) \/ DeviceCode(p) PROVE Inv'
    <2>1. Typed' /\ orderly' \in BOOLEAN /\ proc[p].pc \in {"browser", "device"}
      <3>1. faults' \in 0 .. MaxFaults
        BY <1>10, <1>c DEF Browser, DeviceCode, SignedIn
      <3>2. issued' \in Rt
        BY <1>10, <1>g DEF Browser, DeviceCode, SignedIn
      <3> QED
        BY <1>10, <1>a, <3>1, <3>2 DEF Browser, DeviceCode, stores
    <2>2. CASE End(p)
      BY <1>b, <1>e, <2>1, <2>2
    <2>3. CASE issued < MaxRt /\ proc' = [proc EXCEPT ![p].pc = "save", ![p].rt = NextRt]
      BY <1>b, <1>f, <1>g, <2>1, <2>3 DEF Keyed
    <2>4. CASE proc' = [proc EXCEPT ![p].pc = "save", ![p].rt = 0, ![p].bare = TRUE]
      <3>1. proc' \in [Procs -> Process] /\ Others(p) /\ Well(p)'
        BY <1>a, <1>d, <2>1, <2>4, BareFacts DEF Well, Migrating, Keyed
      <3> QED
        BY <1>b, <2>1, <3>1
    <2> QED
      BY <1>10, <2>2, <2>3, <2>4 DEF Browser, DeviceCode, SignedIn
  <1>11. ASSUME NEW p \in Procs, Save(p) PROVE Inv'
    <2>1. proc[p].key \in Keys /\ proc[p].backend \in Backends /\ proc[p].rt \in Rt /\ proc[p].pc = "save"
      BY <1>11, <1>d, ProcessFacts DEF Save, Well, Keyed
    <2>2. Typed'
      <3>1. PutInPlace(proc[p].backend, proc[p].rt, mixed[proc[p].key]) \subseteq Rt \union {None}
        BY <1>a, <2>1 DEF PutInPlace, Files
      <3>2. faults' \in 0 .. MaxFaults
        BY <1>11, <1>c DEF Save, SaveFails
      <3>3. slot' \in [Backends -> [Keys -> Rt \union {None}]]
        <4>1. CASE UNCHANGED slot
          BY <1>a, <4>1
        <4>2. ASSUME NEW rt \in Rt \union {None}, slot' = [slot EXCEPT ![proc[p].backend][proc[p].key] = rt]
              PROVE  slot' \in [Backends -> [Keys -> Rt \union {None}]]
          BY <1>a, <2>1, <4>2
        <4> QED
          BY <1>11, <3>1, <4>1, <4>2 DEF Save
      <3>4. hidden' \union blunt' \subseteq Keys \union {None}
        BY <1>11, <1>a, <2>1 DEF Save
      <3> QED
        BY <1>11, <1>a, <3>2, <3>3, <3>4 DEF Save
    <2>3. orderly' \in BOOLEAN
      BY <1>11, <1>a DEF Save
    <2>4. ASSUME NEW pc \in {"point", "done"}, Goto(p, pc) PROVE Inv'
      <3>1. proc' \in [Procs -> Process] /\ Others(p) /\ Well(p)'
        BY <1>a, <1>d, <2>1, <2>4, GotoFacts DEF Well, Migrating, Keyed, Steps
      <3> QED
        BY <1>b, <2>2, <2>3, <3>1
    <2> QED
      BY <1>11, <2>4 DEF Save, AfterFailedSave
  <1>12. ASSUME NEW p \in Procs, Point(p) PROVE Inv'
    <2>1. proc[p].key \in Keys /\ proc[p].backend \in Backends /\ proc[p].pc = "point"
      BY <1>12, <1>d, ProcessFacts DEF Point, Well, Keyed
    <2>2. Typed'
      <3>1. PutInPlace(proc[p].backend, proc[p].key, mixedPointer) \subseteq Keys \union {None}
        BY <1>a, <2>1 DEF PutInPlace, Files
      <3>2. faults' \in 0 .. MaxFaults
        BY <1>12, <1>c DEF Point, SaveFails
      <3>3. lastUsed' \in [Backends -> Keys \union {None}]
        BY <1>12, <1>a, <2>1, <3>1 DEF Point
      <3> QED
        BY <1>12, <1>a, <3>2, <3>3 DEF Point
    <2>3. orderly' \in BOOLEAN /\ Goto(p, "done")
      BY <1>12, <1>a DEF Point
    <2>4. proc' \in [Procs -> Process] /\ Others(p) /\ Well(p)'
      BY <1>a, <1>d, <2>1, <2>3, GotoFacts DEF Well, Migrating, Keyed, Steps
    <2> QED
      BY <1>b, <2>2, <2>3, <2>4
  <1>13. ASSUME NEW p \in Procs, Finish(p) \/ Interrupt(p) PROVE Inv'
    <2>1. Typed' /\ orderly' \in BOOLEAN /\ End(p)
      BY <1>13, <1>a DEF Finish, Interrupt, stores
    <2> QED
      BY <1>b, <1>e, <2>1
  <1>14. CASE WriteThrough
    <2>1. Typed' /\ orderly' \in BOOLEAN /\ proc' = proc
      <3>1. /\ \/ \E k \in Keys : \E rt \in mixed[k] : slot' = [slot EXCEPT !["file"][k] = rt]
               \/ UNCHANGED slot
            /\ \/ \E key \in mixedPointer : lastUsed' = [lastUsed EXCEPT !["file"] = key]
               \/ UNCHANGED lastUsed
        BY <1>14 DEF WriteThrough
      <3>2. slot' \in [Backends -> [Keys -> Rt \union {None}]]
        BY <1>a, <3>1 DEF Files
      <3>3. lastUsed' \in [Backends -> Keys \union {None}]
        BY <1>a, <3>1 DEF Files
      <3> QED
        BY <1>14, <1>a, <3>2, <3>3 DEF WriteThrough
    <2>2. \A p \in Procs : Well(p)'
      BY <1>d, <2>1 DEF Well
    <2>3. Files' /\ Noted'
      BY <1>a, <1>o, <2>1, <2>2, FilesStep
    <2> QED
      BY <1>a, <2>1, <2>2, <2>3 DEF Inv, TypeOK, Files
  <1> QED
    BY <1>1, <1>2, <1>3, <1>4, <1>5, <1>6, <1>7, <1>8, <1>9, <1>10, <1>11, <1>12, <1>13, <1>14 DEF Next

\* The initial states have their types.
LEMMA InitTypes == Init => Inv
  <1> SUFFICES ASSUME Init PROVE Inv
    OBVIOUS
  <1>1. proc \in [Procs -> Process] /\ \A p \in Procs : proc[p].pc = "idle"
    BY IdleFacts DEF Init
  <1>2. legacyKeyring \in Blob \union {None} /\ legacyFile \in Blob \union {None}
    BY UserCacheAssumption DEF Init, Blob, Rt
  <1>3. hidden \union blunt \subseteq Keys \union {None}
    BY <1>2 DEF Init, Blob
  <1>4. orderly \in BOOLEAN
    BY DEF Init
  <1>5. issued \in Rt /\ faults \in 0 .. MaxFaults
    BY UserCacheAssumption DEF Init, Rt
  <1>6. host \in Backends /\ slot \in [Backends -> [Keys -> Rt \union {None}]]
        /\ lastUsed \in [Backends -> Keys \union {None}]
    BY DEF Init
  <1>7. Files /\ Noted
    BY DEF Init, Files, Noted
  <1> QED
    BY <1>1, <1>2, <1>3, <1>4, <1>5, <1>6, <1>7 DEF Inv, TypeOK, Well, Migrating, Keyed, Files

\* Every variable keeps its type: a command that loads or saves an entry
\* always has its key, a cloud query without a profile included.
THEOREM TypeCorrect == Spec => []TypeOK
  BY InitTypes, TypeStep, PTL DEF Spec, Inv

\* When up has a token for the daemon it has a refresh token too, whether the
\* token came from the cache, the refresh grant or a sign-in, unless it signed
\* in itself and was given an access token only.
THEOREM HandOverCorrect == Spec => []UpHandsRefreshToken
  <1>1. Inv => UpHandsRefreshToken
    BY DEF Inv, Well, UpHandsRefreshToken
  <1> QED
    BY <1>1, InitTypes, TypeStep, PTL DEF Spec

-----------------------------------------------------------------------------
(* What a step may do, told by where the command arrives *)

Step(p) ==
    \/ Start(p) \/ Migrate(p) \/ KeyedSave(p) \/ DropLegacy(p) \/ DropFile(p) \/ PointLegacy(p)
    \/ Load(p) \/ Exchange(p) \/ SignIn(p) \/ Browser(p) \/ DeviceCode(p)
    \/ Save(p) \/ Point(p) \/ Finish(p) \/ Interrupt(p)

\* The command goes on as itself.
Same(p) ==
    /\ proc'[p].verb = proc[p].verb /\ proc'[p].key = proc[p].key
    /\ proc'[p].backend = proc[p].backend

Entry(p) == slot[proc[p].backend][proc[p].key]

\* Where a command arrives says where it came from and what it did.
Arrived(p) ==
    LET pc == proc[p].pc  next == proc'[p].pc IN
    /\ next \in {"idle", "migrate"} => proc'[p].blob = None
    /\ next = "migrate" => pc = "idle"
    /\ next = "keyedSave" =>
          /\ pc = "migrate" /\ Same(p)
          /\ \E readable \in BOOLEAN :
                proc'[p].blob = LegacyBlob(proc[p].backend, readable) /\ (orderly' => readable)
    /\ next = "dropLegacy" => pc = "keyedSave" /\ Same(p) /\ proc'[p].blob = proc[p].blob
    /\ next = "dropFile" => pc = "dropLegacy" /\ Same(p) /\ proc'[p].blob = proc[p].blob
    /\ next = "pointLegacy" => pc = "dropFile" /\ Same(p) /\ proc'[p].blob = proc[p].blob
    /\ next = "load" =>
          /\ proc'[p].blob = None
          /\ \/ pc = "idle" /\ proc'[p].verb = "cloud"
             \/ pc = "migrate" /\ Same(p) /\ \E readable \in BOOLEAN :
                   LegacyBlob(proc[p].backend, readable) \notin Whole /\ (orderly' => readable)
             \/ pc = "keyedSave" /\ ~orderly'
             \/ /\ pc = "pointLegacy" /\ proc'[p].backend = proc[p].backend
                /\ proc'[p].verb = proc[p].verb
    /\ next \in {"exchange", "done"} /\ pc = "load" =>
          Same(p) /\ proc'[p].blob = proc[p].blob /\ proc'[p].rt = Entry(p)
    /\ next = "exchange" => pc = "load"
    /\ next \in SigningIn =>
          /\ pc \in SigningIn \union {"load", "exchange"} /\ Same(p) /\ proc'[p].blob = proc[p].blob
          /\ pc \in {"load", "exchange"} => proc[p].verb # "cloud"
    /\ next = "save" =>
          /\ pc \in SigningIn \union {"exchange"} /\ Same(p) /\ proc'[p].blob = proc[p].blob
          /\ \/ issued < MaxRt /\ issued' = NextRt /\ proc'[p].rt = NextRt
             \/ pc = "exchange" /\ issued' = issued /\ proc'[p].rt = proc[p].rt
             \/ issued' = issued /\ proc'[p].rt = 0 /\ proc'[p].bare
          /\ pc = "exchange" => proc[p].verb # "cloud"
    /\ next = "point" => pc = "save" /\ Same(p) /\ proc'[p].blob = proc[p].blob
    /\ next = "done" => proc'[p].blob = proc[p].blob

\* What the stores look like afterwards.
Stored(p) ==
    LET b == proc[p].backend  blob == proc[p].blob IN
    /\ \/ slot' = slot /\ proc'[p].pc \notin {"dropLegacy", "point"}
       \/ /\ proc[p].pc = "keyedSave" /\ proc'[p].pc = "dropLegacy"
          /\ \E rt \in PutInPlace(b, blob.rt, mixed[blob.key]) : slot' = [slot EXCEPT ![b][blob.key] = rt]
       \/ /\ proc[p].pc = "save" /\ proc'[p].pc = "point"
          /\ \E rt \in PutInPlace(b, proc[p].rt, mixed[proc[p].key]) :
                slot' = [slot EXCEPT ![b][proc[p].key] = rt]
          /\ proc[p].bare => proc[p].key \in blunt'
    /\ \/ lastUsed' = lastUsed
       \/ /\ proc[p].pc = "pointLegacy"
          /\ \E key \in PutInPlace(b, blob.key, mixedPointer) : lastUsed' = [lastUsed EXCEPT ![b] = key]
       \/ /\ proc[p].pc = "point"
          /\ \E key \in PutInPlace(b, proc[p].key, mixedPointer) : lastUsed' = [lastUsed EXCEPT ![b] = key]
    /\ \/ legacyKeyring' = legacyKeyring
       \/ legacyKeyring' = None /\ proc[p].pc = "dropLegacy"
    /\ \/ legacyFile' = legacyFile
       \/ legacyFile' = None /\ proc[p].pc \in {"dropLegacy", "dropFile"}
    /\ orderly' /\ proc'[p].pc = "dropFile" =>
          IF b = "keyring" THEN legacyKeyring' = None ELSE legacyFile' = None
    /\ orderly' /\ proc'[p].pc = "pointLegacy" => legacyFile' = None
    /\ hidden' = hidden /\ blunt \subseteq blunt'
    /\ orderly' => orderly
    /\ orderly' /\ proc[p].pc = "idle" => \A q \in Procs : proc[q].pc = "idle"
    /\ issued' = issued \/ issued' = NextRt

\* Every step of a command is of that kind.
LEMMA Moves ==
    ASSUME Inv, NEW p \in Procs, Step(p)
    PROVE  Arrived(p) /\ Stored(p) /\ \A q \in Procs : q # p => proc'[q] = proc[q]
  <1>a. TypeOK /\ proc \in [Procs -> Process] /\ proc[p] \in Process /\ Well(p)
    BY DEF Inv, TypeOK
  <1> DEFINE Others == \A q \in Procs : q # p => proc'[q] = proc[q]
  <1>e. ASSUME End(p) PROVE proc'[p].pc = "idle" /\ Arrived(p) /\ Others
    BY <1>a, <1>e, EndFacts, IdleFacts DEF Arrived, SigningIn
  <1>1. CASE Start(p)
    <2>1. Arrived(p) /\ Others
      BY <1>1, <1>a, StartFacts DEF Start, Arrived, SigningIn
    <2>2. Stored(p)
      BY <1>1, <1>a, StartFacts DEF Start, Stored, stores
    <2> QED
      BY <2>1, <2>2
  <1>2. CASE Migrate(p)
    <2>1. PICK readable \in BOOLEAN :
              LET blob == LegacyBlob(proc[p].backend, readable) IN
              /\ \/ /\ blob \notin Whole
                    /\ NotMigrated(p)
                 \/ /\ blob \in Whole
                    /\ proc' = [proc EXCEPT ![p].blob = blob, ![p].pc = "keyedSave"]
              /\ orderly' = (orderly /\ readable)
      BY <1>2 DEF Migrate, Whole
    <2>2. proc[p].pc = "migrate" /\ UNCHANGED <<stores, issued, hidden, blunt>>
      BY <1>2 DEF Migrate
    <2>3. CASE NotMigrated(p) /\ LegacyBlob(proc[p].backend, readable) \notin Whole
      <3>1. Arrived(p) /\ Others /\ proc'[p].pc \in {"idle", "load"}
        BY <1>a, <2>1, <2>2, <2>3, NotMigratedFacts, IdleFacts DEF Arrived, SigningIn, Same
      <3> QED
        BY <2>1, <2>2, <3>1 DEF Stored, stores
    <2>4. ASSUME NEW blob \in Whole, blob = LegacyBlob(proc[p].backend, readable),
                 proc' = [proc EXCEPT ![p].blob = blob, ![p].pc = "keyedSave"]
          PROVE  Arrived(p) /\ Stored(p) /\ Others
      <3>1. Arrived(p) /\ Others /\ proc'[p].pc = "keyedSave"
        BY <1>a, <2>1, <2>2, <2>4, BlobFacts DEF Arrived, SigningIn, Same
      <3> QED
        BY <2>1, <2>2, <3>1 DEF Stored, stores
    <2> QED
      BY <2>1, <2>3, <2>4
  <1>3. CASE KeyedSave(p)
    <2>1. proc[p].pc = "keyedSave"
      BY <1>3 DEF KeyedSave
    <2>2. CASE NotMigrated(p) /\ UNCHANGED slot /\ ~orderly'
      <3>1. Arrived(p) /\ Others /\ proc'[p].pc \in {"idle", "load"}
        BY <1>a, <2>1, <2>2, NotMigratedFacts, IdleFacts DEF Arrived, SigningIn
      <3> QED
        BY <1>3, <2>1, <2>2, <3>1 DEF Stored, KeyedSave
    <2>3. CASE /\ Goto(p, "dropLegacy") /\ UNCHANGED orderly
               /\ \E rt \in PutInPlace(proc[p].backend, proc[p].blob.rt, mixed[proc[p].blob.key]) :
                     slot' = [slot EXCEPT ![proc[p].backend][proc[p].blob.key] = rt]
      <3>1. Arrived(p) /\ Others /\ proc'[p].pc = "dropLegacy"
        BY <1>a, <2>1, <2>3, GotoFacts DEF Arrived, SigningIn, Same, Steps
      <3> QED
        BY <1>3, <2>1, <2>3, <3>1 DEF Stored, KeyedSave
    <2> QED
      BY <1>3, <2>2, <2>3 DEF KeyedSave
  <1>4. CASE DropLegacy(p)
    <2>1. proc[p].pc = "dropLegacy" /\ Goto(p, "dropFile")
      BY <1>4 DEF DropLegacy
    <2>2. Arrived(p) /\ Others /\ proc'[p].pc = "dropFile"
      BY <1>a, <2>1, GotoFacts DEF Arrived, SigningIn, Same, Steps
    <2>3. proc[p].backend \in {"keyring", "file"}
      BY <1>a, ProcessFacts DEF Backends
    <2> QED
      BY <1>4, <2>1, <2>2, <2>3 DEF Stored, DropLegacy
  <1>5. CASE DropFile(p)
    <2>1. proc[p].pc = "dropFile" /\ Goto(p, "pointLegacy")
      BY <1>5 DEF DropFile
    <2>2. Arrived(p) /\ Others /\ proc'[p].pc = "pointLegacy"
      BY <1>a, <2>1, GotoFacts DEF Arrived, SigningIn, Same, Steps
    <2> QED
      BY <1>5, <2>1, <2>2 DEF Stored, DropFile
  <1>6. CASE PointLegacy(p)
    <2>1. proc[p].pc = "pointLegacy" /\ proc[p].blob \in Whole
      BY <1>6, <1>a DEF PointLegacy, Well, Migrating
    <2>2. Arrived(p) /\ Others /\ proc'[p].pc = "load"
      BY <1>6, <1>a, <2>1, PointLegacyFacts DEF Arrived, SigningIn, Same
    <2> QED
      BY <1>6, <2>1, <2>2 DEF Stored, PointLegacy
  <1>7. CASE Load(p)
    <2>1. proc[p].pc = "load" /\ UNCHANGED <<stores, issued, hidden, blunt, orderly>>
      BY <1>7 DEF Load
    <2>2. CASE End(p)
      BY <1>e, <2>1, <2>2 DEF Stored, stores
    <2>3. CASE proc[p].verb # "cloud" /\ Goto(p, "signIn")
      <3>1. Arrived(p) /\ Others /\ proc'[p].pc = "signIn"
        BY <1>a, <2>1, <2>3, GotoFacts DEF Arrived, SigningIn, Same, Steps
      <3> QED
        BY <2>1, <3>1 DEF Stored, stores
    <2>4. ASSUME NEW pc \in {"done", "exchange"}, NEW entry, entry # None, entry \in {None, Entry(p)},
                 proc' = [proc EXCEPT ![p].pc = pc, ![p].rt = entry]
          PROVE  Arrived(p) /\ Stored(p) /\ Others
      <3>1. entry \in Rt /\ entry = Entry(p)
        <4>1. proc[p].backend \in Backends /\ proc[p].key \in Keys
          BY <1>a, <2>1, ProcessFacts DEF Well, Keyed
        <4> QED
          BY <1>a, <2>4, <4>1 DEF Entry, TypeOK
      <3>2. Others /\ proc'[p].pc = pc /\ Same(p) /\ proc'[p].rt = entry /\ proc'[p].blob = proc[p].blob
        BY <1>a, <2>4, <3>1, TokenFacts DEF Same, Steps
      <3>3. Arrived(p)
        BY <2>1, <3>1, <3>2 DEF Arrived, SigningIn
      <3> QED
        BY <2>1, <3>2, <3>3 DEF Stored, stores
    <2>5. PICK fresh \in BOOLEAN, readable \in BOOLEAN :
              LET entry == IF readable THEN Entry(p) ELSE None IN
              \/ entry # None /\ proc' = [proc EXCEPT ![p].pc = "done", ![p].rt = entry]
              \/ entry # None /\ proc' = [proc EXCEPT ![p].pc = "exchange", ![p].rt = entry]
              \/ IF proc[p].verb = "cloud" THEN End(p) ELSE Goto(p, "signIn")
      BY <1>7 DEF Load, GoodEnough, Entry
    <2> QED
      BY <2>2, <2>3, <2>4, <2>5
  <1>f. ASSUME proc[p].pc \in SigningIn \union {"exchange"}, proc[p].pc = "exchange" => proc[p].verb # "cloud",
               NEW rt \in Rt, proc' = [proc EXCEPT ![p].pc = "save", ![p].rt = rt],
               \/ issued < MaxRt /\ issued' = NextRt /\ rt = NextRt
               \/ proc[p].pc = "exchange" /\ issued' = issued /\ rt = proc[p].rt,
               UNCHANGED <<stores, hidden, blunt, orderly>>
        PROVE  Arrived(p) /\ Stored(p) /\ Others
    <2>1. Others /\ proc'[p].pc = "save" /\ Same(p) /\ proc'[p].rt = rt /\ proc'[p].blob = proc[p].blob
      BY <1>a, <1>f, TokenFacts DEF Same, Steps
    <2>2. Arrived(p)
      BY <1>f, <2>1 DEF Arrived, SigningIn
    <2> QED
      BY <1>f, <2>1, <2>2 DEF Stored, stores, SigningIn
  <1>g. issued < MaxRt => NextRt \in Rt
    BY <1>a, UserCacheAssumption DEF NextRt, Rt, TypeOK
  <1>8. CASE Exchange(p)
    <2>1. proc[p].pc = "exchange" /\ UNCHANGED <<stores, hidden, blunt, orderly>> /\ proc[p].rt \in Rt
      BY <1>8, <1>a, ProcessFacts DEF Exchange
    <2>2. CASE End(p) /\ UNCHANGED issued
      BY <1>e, <2>1, <2>2 DEF Stored, stores
    <2>3. CASE proc[p].verb # "cloud" /\ Goto(p, "signIn") /\ UNCHANGED issued
      <3>1. Arrived(p) /\ Others /\ proc'[p].pc = "signIn"
        BY <1>a, <2>1, <2>3, GotoFacts DEF Arrived, SigningIn, Same, Steps
      <3> QED
        BY <2>1, <2>3, <3>1 DEF Stored, stores
    <2>4. CASE /\ proc[p].verb # "cloud" /\ issued < MaxRt /\ issued' = NextRt
               /\ proc' = [proc EXCEPT ![p].pc = "save", ![p].rt = NextRt]
      BY <1>f, <1>g, <2>1, <2>4
    <2>5. CASE /\ proc[p].verb # "cloud" /\ UNCHANGED issued
               /\ proc' = [proc EXCEPT ![p].pc = "save", ![p].rt = proc[p].rt]
      BY <1>f, <2>1, <2>5
    <2> QED
      BY <1>8, <2>2, <2>3, <2>4, <2>5 DEF Exchange, KeptRt
  <1>9. CASE SignIn(p)
    <2>1. proc[p].pc = "signIn" /\ UNCHANGED <<stores, issued, hidden, blunt, orderly>>
      BY <1>9 DEF SignIn
    <2>2. CASE End(p)
      BY <1>e, <2>1, <2>2 DEF Stored, stores
    <2>3. ASSUME NEW pc \in {"browser", "device"}, Goto(p, pc) PROVE Arrived(p) /\ Stored(p) /\ Others
      <3>1. Others /\ proc'[p].pc = pc /\ Same(p) /\ proc'[p].blob = proc[p].blob
        BY <1>a, <2>3, GotoFacts DEF Same, Steps
      <3>2. Arrived(p)
        BY <2>1, <3>1 DEF Arrived, SigningIn
      <3> QED
        BY <2>1, <3>1, <3>2 DEF Stored, stores
    <2> QED
      BY <1>9, <2>2, <2>3 DEF SignIn
  <1>10. CASE Browser(p) \/ DeviceCode(p)
    <2>1. proc[p].pc \in {"browser", "device"} /\ UNCHANGED <<stores, hidden, blunt, orderly>>
      BY <1>10 DEF Browser, DeviceCode
    <2>2. CASE End(p) /\ UNCHANGED issued
      BY <1>e, <2>1, <2>2 DEF Stored, stores
    <2>3. CASE /\ issued < MaxRt /\ issued' = NextRt
               /\ proc' = [proc EXCEPT ![p].pc = "save", ![p].rt = NextRt]
      BY <1>f, <1>g, <2>1, <2>3 DEF SigningIn
    <2>4. CASE proc' = [proc EXCEPT ![p].pc = "save", ![p].rt = 0, ![p].bare = TRUE] /\ UNCHANGED issued
      <3>1. /\ Others /\ proc'[p].pc = "save" /\ Same(p) /\ proc'[p].rt = 0 /\ proc'[p].bare
            /\ proc'[p].blob = proc[p].blob
        BY <1>a, <2>4, BareFacts DEF Same
      <3>2. Arrived(p)
        BY <2>1, <2>4, <3>1 DEF Arrived, SigningIn
      <3> QED
        BY <2>1, <2>4, <3>1, <3>2 DEF Stored, stores
    <2> QED
      BY <1>10, <2>2, <2>3, <2>4 DEF Browser, DeviceCode, SignedIn
  <1>11. CASE Save(p)
    <2>1. /\ proc[p].pc = "save"
          /\ UNCHANGED <<legacyKeyring, legacyFile, lastUsed, issued, hidden, orderly>>
      BY <1>11 DEF Save
    <2>2. CASE Goto(p, "done") /\ UNCHANGED <<slot, blunt>>
      <3>1. Arrived(p) /\ Others /\ proc'[p].pc = "done"
        BY <1>a, <2>1, <2>2, GotoFacts DEF Arrived, SigningIn, Same, Steps
      <3> QED
        BY <2>1, <2>2, <3>1 DEF Stored
    <2>3. CASE /\ Goto(p, "point") /\ blunt' = blunt \union IF proc[p].bare THEN {proc[p].key} ELSE {}
               /\ \E rt \in PutInPlace(proc[p].backend, proc[p].rt, mixed[proc[p].key]) :
                     slot' = [slot EXCEPT ![proc[p].backend][proc[p].key] = rt]
      <3>1. Arrived(p) /\ Others /\ proc'[p].pc = "point"
        BY <1>a, <2>1, <2>3, GotoFacts DEF Arrived, SigningIn, Same, Steps
      <3> QED
        BY <2>1, <2>3, <3>1 DEF Stored
    <2> QED
      BY <1>11, <2>2, <2>3 DEF Save, AfterFailedSave
  <1>12. CASE Point(p)
    <2>1. /\ proc[p].pc = "point" /\ Goto(p, "done")
          /\ UNCHANGED <<slot, legacyKeyring, legacyFile, issued, hidden, blunt, orderly>>
          /\ \/ \E key \in PutInPlace(proc[p].backend, proc[p].key, mixedPointer) :
                   lastUsed' = [lastUsed EXCEPT ![proc[p].backend] = key]
             \/ UNCHANGED lastUsed
      BY <1>12 DEF Point
    <2>2. Arrived(p) /\ Others /\ proc'[p].pc = "done"
      BY <1>a, <2>1, GotoFacts DEF Arrived, SigningIn, Same, Steps
    <2> QED
      BY <2>1, <2>2 DEF Stored
  <1>13. CASE Finish(p) \/ Interrupt(p)
    <2>1. /\ End(p) /\ UNCHANGED <<stores, issued, hidden, blunt, orderly>>
          /\ proc[p].pc # "idle"
      BY <1>13 DEF Finish, Interrupt
    <2> QED
      BY <1>e, <2>1 DEF Stored, stores
  <1> QED
    BY <1>1, <1>2, <1>3, <1>4, <1>5, <1>6, <1>7, <1>8, <1>9, <1>10, <1>11, <1>12, <1>13 DEF Step

\* What a step leaves in an entry.
LEMMA Entries ==
    ASSUME Inv, NEW p \in Procs, Step(p)
    PROVE  LET b == proc[p].backend  blob == proc[p].blob IN
           /\ b \in Backends
           /\ proc'[p].pc = "dropLegacy" =>
                 /\ proc[p].pc = "keyedSave" /\ blob \in Whole
                 /\ slot'[b][blob.key] = blob.rt \/ (b = "file" /\ mixed[blob.key] # {})
           /\ proc'[p].pc = "point" =>
                 slot'[b][proc[p].key] = proc[p].rt \/ (b = "file" /\ mixed[proc[p].key] # {})
           /\ proc[p].pc = "save" => /\ proc[p].key \in Keys /\ proc[p].rt \in Rt
                                     /\ proc[p].rt > 0 \/ proc[p].bare
           /\ \A c \in Backends, k \in Keys :
                 \/ slot'[c][k] = slot[c][k]
                 \/ /\ c = b /\ proc[p].pc = "keyedSave" /\ proc'[p].pc = "dropLegacy"
                    /\ k = blob.key /\ slot'[c][k] = blob.rt
                 \/ /\ c = b /\ proc[p].pc = "save" /\ k = proc[p].key /\ slot'[c][k] = proc[p].rt
                    /\ proc[p].bare => k \in blunt'
                 \/ c = "file" /\ mixed[k] # {}
  <1> DEFINE b == proc[p].backend
             blob == proc[p].blob
  <1>1. Stored(p) /\ slot \in [Backends -> [Keys -> Rt \union {None}]] /\ b \in Backends
    BY Moves, ProcessFacts DEF Inv, TypeOK
  <1>2. proc[p].pc = "keyedSave" => blob \in Whole /\ blob.key \in Keys
    BY DEF Inv, Well, Migrating, Whole
  <1>3. proc[p].pc = "save" => /\ proc[p].key \in Keys /\ proc[p].rt \in Rt
                               /\ proc[p].rt > 0 \/ proc[p].bare
    BY ProcessFacts DEF Inv, TypeOK, Well, Keyed
  <1>4. CASE slot' = slot /\ proc'[p].pc \notin {"dropLegacy", "point"}
    BY <1>1, <1>3, <1>4
  <1>5. ASSUME proc[p].pc = "keyedSave", proc'[p].pc = "dropLegacy",
               NEW rt \in PutInPlace(b, blob.rt, mixed[blob.key]),
               slot' = [slot EXCEPT ![b][blob.key] = rt]
        PROVE  /\ slot'[b][blob.key] = blob.rt \/ (b = "file" /\ mixed[blob.key] # {})
               /\ \A c \in Backends, k \in Keys :
                    slot'[c][k] = slot[c][k] \/ (c = b /\ k = blob.key)
    <2>1. rt = blob.rt \/ (b = "file" /\ mixed[blob.key] # {})
      BY <1>5 DEF PutInPlace
    <2>2. slot'[b][blob.key] = rt
      BY <1>1, <1>2, <1>5
    <2>3. \A c \in Backends, k \in Keys : slot'[c][k] = slot[c][k] \/ (c = b /\ k = blob.key)
      BY <1>1, <1>2, <1>5
    <2> QED
      BY <2>1, <2>2, <2>3
  <1>6. ASSUME proc[p].pc = "save", proc'[p].pc = "point",
               NEW rt \in PutInPlace(b, proc[p].rt, mixed[proc[p].key]),
               slot' = [slot EXCEPT ![b][proc[p].key] = rt]
        PROVE  /\ slot'[b][proc[p].key] = proc[p].rt \/ (b = "file" /\ mixed[proc[p].key] # {})
               /\ \A c \in Backends, k \in Keys :
                    slot'[c][k] = slot[c][k] \/ (c = b /\ k = proc[p].key)
    <2>1. rt = proc[p].rt \/ (b = "file" /\ mixed[proc[p].key] # {})
      BY <1>6 DEF PutInPlace
    <2>2. slot'[b][proc[p].key] = rt
      BY <1>1, <1>3, <1>6
    <2>3. \A c \in Backends, k \in Keys : slot'[c][k] = slot[c][k] \/ (c = b /\ k = proc[p].key)
      BY <1>1, <1>3, <1>6
    <2> QED
      BY <2>1, <2>2, <2>3
  <1> QED
    BY <1>1, <1>2, <1>3, <1>4, <1>5, <1>6 DEF Stored

\* What a write through an open descriptor leaves.
LEMMA Through ==
    ASSUME Inv, WriteThrough
    PROVE  /\ UNCHANGED <<proc, legacyKeyring, legacyFile, issued, hidden, blunt, orderly>>
           /\ \A c \in Backends, k \in Keys : slot'[c][k] = slot[c][k] \/ (c = "file" /\ mixed[k] # {})
           /\ \A b \in Backends : lastUsed'[b] = lastUsed[b] \/ (b = "file" /\ lastUsed'[b] \in mixedPointer)
           /\ slot' = slot \/ \E k \in Keys : mixed[k] # {}
  <1>1. slot \in [Backends -> [Keys -> Rt \union {None}]] /\ lastUsed \in [Backends -> Keys \union {None}]
    BY DEF Inv, TypeOK
  <1>2. CASE UNCHANGED slot /\ \E key \in mixedPointer : lastUsed' = [lastUsed EXCEPT !["file"] = key]
    BY <1>1, <1>2 DEF WriteThrough, Backends
  <1>3. ASSUME UNCHANGED lastUsed, NEW k \in Keys, NEW rt \in mixed[k],
               slot' = [slot EXCEPT !["file"][k] = rt]
        PROVE  /\ \A c \in Backends, j \in Keys : slot'[c][j] = slot[c][j] \/ (c = "file" /\ j = k)
               /\ mixed[k] # {}
    BY <1>1, <1>3 DEF Backends
  <1> QED
    BY <1>2, <1>3 DEF WriteThrough

-----------------------------------------------------------------------------
(* The last-used pointer *)

\* Every step keeps the entries that a pointer names or is about to name.
LEMMA PointerStep ==
    ASSUME Inv, \A p \in Procs : Made(p), Named, PointerResolves, [Next]_vars
    PROVE  (\A p \in Procs : Made(p)') /\ Named' /\ PointerResolves'
  <1>1. CASE UNCHANGED vars
    BY <1>1 DEF vars, stores, Made, Named, Present, PointerResolves
  <1>a. ASSUME Next PROVE (\A k \in Keys : mixed[k] # {} => k \in raced) /\ raced \subseteq raced'
    BY <1>a DEF Next, OpenFiles, Inv, Noted
  <1>b. ASSUME Next, \A q \in Procs : Made(q)',
               \A b \in Backends, k \in Keys : Present(b, k) => Present(b, k)'
        PROVE  Named'
    <2> SUFFICES ASSUME NEW k \in mixedPointer', k # None PROVE Present("file", k)'
      BY DEF Named
    <2>1. mixedPointer \subseteq Keys \union {None}
      BY DEF Inv, TypeOK
    <2>2. CASE k \in mixedPointer
      BY <1>b, <2>1, <2>2 DEF Named, Backends
    <2>3. ASSUME NEW q \in PointerWriters', k = PointerData(q)' PROVE Present("file", k)'
      BY <1>b, <2>3 DEF Made, PointerWriters, PointerData
    <2> QED
      BY <1>b, <2>2, <2>3 DEF Next, OpenFiles, Mixture
  <1>c. \A b \in Backends : lastUsed[b] # None => Present(b, lastUsed[b])
    BY DEF PointerResolves, Present
  <1>2. ASSUME Next, NEW p \in Procs, Step(p) PROVE (\A q \in Procs : Made(q)') /\ Named' /\ PointerResolves'
    <2>1. \A b \in Backends, k \in Keys : Present(b, k) => Present(b, k)'
      <3> SUFFICES ASSUME NEW b \in Backends, NEW k \in Keys, Present(b, k), ~(b = "file" /\ k \in raced')
                   PROVE  slot'[b][k] # None
        BY DEF Present
      <3>1. slot[b][k] # None /\ ~(b = "file" /\ mixed[k] # {})
        BY <1>2, <1>a DEF Present
      <3> QED
        BY <1>2, <3>1, Entries, UserCacheAssumption DEF Whole, Rt
    <2>2. Arrived(p) /\ Stored(p) /\ \A q \in Procs : q # p => proc'[q] = proc[q]
      BY <1>2, Moves
    <2>3. \A q \in Procs : /\ proc[q].backend \in Backends
                           /\ proc[q].pc \in Migrating => proc[q].blob.key \in Keys
                           /\ proc[q].pc \in Keyed => proc[q].key \in Keys
      BY ProcessFacts DEF Inv, TypeOK, Well, Whole
    <2>4. \A q \in Procs : q # p => Made(q)'
      BY <2>1, <2>2, <2>3 DEF Made, Migrating, Keyed
    <2>5. Made(p)'
      <3>1. CASE proc'[p].pc = "dropLegacy"
        <4>1. /\ proc'[p].backend = proc[p].backend /\ proc'[p].blob = proc[p].blob
          BY <2>2, <3>1 DEF Arrived, Same
        <4>2. \/ slot'[proc[p].backend][proc[p].blob.key] \in Rt
              \/ proc[p].backend = "file" /\ proc[p].blob.key \in raced'
          BY <1>2, <1>a, <3>1, Entries DEF Whole
        <4> QED
          BY <3>1, <4>1, <4>2, UserCacheAssumption DEF Made, Present, Rt
      <3>2. CASE proc'[p].pc \in {"dropFile", "pointLegacy"}
        <4>1. /\ proc'[p].backend = proc[p].backend /\ proc'[p].blob = proc[p].blob
              /\ proc[p].pc \in {"dropLegacy", "dropFile"}
          BY <2>2, <3>2 DEF Arrived, Same
        <4> QED
          BY <2>1, <2>3, <3>2, <4>1 DEF Made, Migrating
      <3>3. CASE proc'[p].pc = "point"
        <4>1. /\ proc'[p].backend = proc[p].backend /\ proc'[p].key = proc[p].key
              /\ proc[p].pc = "save"
          BY <2>2, <3>3 DEF Arrived, Same
        <4>2. \/ slot'[proc[p].backend][proc[p].key] \in Rt
              \/ proc[p].backend = "file" /\ proc[p].key \in raced'
          BY <1>2, <1>a, <3>3, <4>1, Entries
        <4> QED
          BY <3>3, <4>1, <4>2, UserCacheAssumption DEF Made, Present, Rt
      <3> QED
        BY <3>1, <3>2, <3>3 DEF Made
    <2>6. PointerResolves'
      <3> SUFFICES ASSUME NEW b \in Backends, NEW k, k = lastUsed'[b], k # None PROVE Present(b, k)'
        BY DEF PointerResolves, Present
      <3>1. lastUsed \in [Backends -> Keys \union {None}] /\ mixedPointer \subseteq Keys \union {None}
        BY DEF Inv, TypeOK
      <3>2. CASE lastUsed'[b] = lastUsed[b]
        BY <1>c, <2>1, <3>1, <3>2
      <3>3. CASE /\ proc[p].pc = "pointLegacy" /\ b = proc[p].backend
                 /\ lastUsed'[b] = proc[p].blob.key
        BY <2>1, <2>3, <3>3 DEF Made, Migrating
      <3>4. CASE proc[p].pc = "point" /\ b = proc[p].backend /\ lastUsed'[b] = proc[p].key
        BY <2>1, <2>3, <3>4 DEF Made, Keyed
      <3>5. CASE b = "file" /\ lastUsed'[b] \in mixedPointer
        BY <2>1, <3>1, <3>5 DEF Named
      <3>6. ASSUME NEW data, NEW key \in PutInPlace(proc[p].backend, data, mixedPointer),
                   lastUsed' = [lastUsed EXCEPT ![proc[p].backend] = key]
            PROVE  \/ lastUsed'[b] = lastUsed[b]
                   \/ b = proc[p].backend /\ lastUsed'[b] = data
                   \/ b = "file" /\ lastUsed'[b] \in mixedPointer
        BY <3>1, <3>6 DEF PutInPlace
      <3> QED
        BY <2>2, <3>2, <3>3, <3>4, <3>5, <3>6 DEF Stored
    <2>7. Named'
      BY <1>2, <1>b, <2>1, <2>4, <2>5
    <2> QED
      BY <2>4, <2>5, <2>6, <2>7
  <1>3. ASSUME Next, WriteThrough PROVE (\A q \in Procs : Made(q)') /\ Named' /\ PointerResolves'
    <2>1. \A b \in Backends, k \in Keys : Present(b, k) => Present(b, k)'
      BY <1>3, <1>a, Through DEF Present
    <2>2. \A q \in Procs : /\ proc'[q] = proc[q] /\ proc[q].backend \in Backends
                           /\ proc[q].pc \in Migrating => proc[q].blob.key \in Keys
                           /\ proc[q].pc \in Keyed => proc[q].key \in Keys
      BY <1>3, Through, ProcessFacts DEF Inv, TypeOK, Well, Whole
    <2>3. \A q \in Procs : Made(q)'
      BY <2>1, <2>2 DEF Made, Migrating, Keyed
    <2>4. Named'
      BY <1>3, <1>b, <2>1, <2>3
    <2>5. ASSUME NEW b \in Backends, NEW k, k = lastUsed'[b], k # None PROVE Present(b, k)'
      <3>1. lastUsed \in [Backends -> Keys \union {None}] /\ mixedPointer \subseteq Keys \union {None}
        BY DEF Inv, TypeOK
      <3>2. lastUsed'[b] = lastUsed[b] \/ (b = "file" /\ lastUsed'[b] \in mixedPointer)
        BY <1>3, Through
      <3> QED
        BY <1>c, <2>1, <2>5, <3>1, <3>2 DEF Named
    <2> QED
      BY <2>3, <2>4, <2>5 DEF PointerResolves, Present
  <1> QED
    BY <1>1, <1>2, <1>3 DEF Next, Step

\* The pointer that commands without a profile follow names an entry that is
\* there, unless several commands wrote the file of that entry at once: it only
\* moves after the save it belongs to, entries are never removed, and whoever
\* writes the pointer at the same time, it names the entry of one of them, its
\* old one or none.
THEOREM PointerCorrect == Spec => []PointerResolves
  <1> DEFINE AllMade == (\A p \in Procs : Made(p)) /\ Named
  <1>1. Init => AllMade /\ PointerResolves
    BY IdleFacts DEF Init, Made, Named, PointerResolves
  <1>2. Inv /\ AllMade /\ PointerResolves /\ [Next]_vars => AllMade' /\ PointerResolves'
    BY PointerStep
  <1> HIDE DEF AllMade
  <1> QED
    BY <1>1, <1>2, InitTypes, TypeStep, PTL DEF Spec

-----------------------------------------------------------------------------
(* Refresh tokens are not lost *)

\* The legacy blobs there are, those in the hands of a command included.
Blobs == ({legacyKeyring, legacyFile} \union {proc[p].blob : p \in Procs}) \ {None}

\* There is one, or all of them are among the two the host started with.
Single == (\A x, y \in Blobs : x = y) \/ (\A x \in Blobs : x.key \in hidden)

\* One without a refresh token is known for it.
Blunt == \A x \in Blobs : x.rt > 0 \/ x.key \in blunt

\* What a command has copied has kept its refresh token.
Copied(p) ==
    proc[p].pc \in {"dropLegacy", "dropFile", "pointLegacy"} =>
        \/ proc[p].blob.key \in blunt \union raced
        \/ slot[proc[p].backend][proc[p].blob.key] \notin {None, 0}

Kept == Single /\ Blunt /\ \A p \in Procs : Copied(p)

\* No step makes a blob.
LEMMA BlobsShrink ==
    ASSUME Inv, Next, NEW p \in Procs, Step(p)
    PROVE  Blobs' \subseteq Blobs
  <1>1. Arrived(p) /\ Stored(p) /\ \A q \in Procs : q # p => proc'[q] = proc[q]
    BY Moves
  <1>2. legacyKeyring' \in {legacyKeyring, None} /\ legacyFile' \in {legacyFile, None}
    BY <1>1 DEF Stored
  <1>3. proc'[p].blob \in {proc[p].blob, legacyKeyring, legacyFile, None}
    <2>1. proc'[p].pc \in Steps
      BY TypeStep, ProcessFacts DEF Inv, TypeOK
    <2> QED
      BY <1>1, <2>1 DEF Arrived, LegacyBlob, Steps, SigningIn
  <1> QED
    BY <1>1, <1>2, <1>3 DEF Blobs

\* A blob in the hands of a command is one of them.
LEMMA InHand ==
    ASSUME Inv, NEW p \in Procs, proc[p].pc \in Migrating
    PROVE  proc[p].blob \in Blobs /\ proc[p].blob.key \in Keys /\ proc[p].blob.rt \in Rt
  <1>1. proc[p].blob \in Whole
    BY DEF Inv, Well
  <1>2. proc[p].blob # None
    BY <1>1, UserCacheAssumption DEF Whole, Rt
  <1> QED
    BY <1>1, <1>2 DEF Blobs, Whole

\* An entry with a refresh token keeps one, but for the keys of blobs and
\* sign-ins without, and of files that several commands write.
LEMMA EntryKept ==
    ASSUME Inv, Blunt, Next, NEW p \in Procs, Step(p), NEW b \in Backends, NEW k \in Keys,
           k \notin blunt' \union raced', slot[b][k] \notin {None, 0}
    PROVE  slot'[b][k] \notin {None, 0}
  <1>a. mixed[k] = {} /\ k \notin blunt
    BY Moves DEF Next, OpenFiles, Inv, Noted, Stored
  <1>1. CASE proc[p].pc = "keyedSave" /\ k = proc[p].blob.key /\ slot'[b][k] = proc[p].blob.rt
    <2>1. proc[p].blob \in Blobs /\ proc[p].blob.rt \in Rt
      BY <1>1, InHand DEF Migrating
    <2>2. proc[p].blob.rt > 0
      BY <1>1, <1>a, <2>1 DEF Blunt
    <2> QED
      BY <1>1, <2>1, <2>2, UserCacheAssumption DEF Rt
  <1>2. CASE proc[p].pc = "save" /\ slot'[b][k] = proc[p].rt /\ ~proc[p].bare
    BY <1>2, Entries, UserCacheAssumption DEF Rt
  <1> QED
    BY <1>1, <1>2, <1>a, Entries

\* Every step keeps that.
LEMMA KeptStep == Inv /\ Kept /\ [Next]_vars => Kept'
  <1> SUFFICES ASSUME Inv, Kept, [Next]_vars PROVE Kept'
    OBVIOUS
  <1>1. CASE UNCHANGED vars
    BY <1>1 DEF vars, stores, Kept, Single, Blunt, Blobs, Copied
  <1>a. Next => raced \subseteq raced' /\ \A k \in Keys : mixed[k] # {} => k \in raced'
    BY DEF Next, OpenFiles, Inv, Noted
  <1>2. ASSUME Next, NEW p \in Procs, Step(p) PROVE Kept'
    <2>1. Arrived(p) /\ Stored(p) /\ \A q \in Procs : q # p => proc'[q] = proc[q]
      BY <1>2, Moves
    <2>2. Blobs' \subseteq Blobs /\ hidden' = hidden /\ blunt \subseteq blunt' /\ raced \subseteq raced'
      BY <1>2, <1>a, <2>1, BlobsShrink DEF Stored
    <2>3. Single' /\ Blunt'
      BY <2>2 DEF Kept, Single, Blunt
    <2>4. \A q \in Procs : proc[q].pc \in Migrating => proc[q].backend \in Backends /\ proc[q].blob.key \in Keys
      BY InHand, ProcessFacts DEF Inv, TypeOK
    <2>5. ASSUME NEW q \in Procs, proc'[q].backend = proc[q].backend, proc'[q].blob = proc[q].blob,
                 proc[q].pc \in {"dropLegacy", "dropFile", "pointLegacy"}
          PROVE  Copied(q)'
      BY <1>2, <2>2, <2>4, <2>5, EntryKept DEF Kept, Copied, Migrating
    <2>6. ASSUME NEW q \in Procs, q # p PROVE Copied(q)'
      <3>1. proc'[q] = proc[q]
        BY <2>1, <2>6
      <3> QED
        BY <2>5, <3>1 DEF Copied
    <2>7. Copied(p)'
      <3>1. CASE proc'[p].pc = "dropLegacy"
        <4>1. /\ proc[p].pc = "keyedSave" /\ proc[p].blob.key \in Keys
              /\ \/ slot'[proc[p].backend][proc[p].blob.key] = proc[p].blob.rt
                 \/ proc[p].blob.key \in raced'
          BY <1>2, <1>a, <3>1, Entries DEF Whole
        <4>2. proc[p].blob \in Blobs /\ proc[p].blob.rt \in Rt
          BY <4>1, InHand DEF Migrating
        <4>3. proc[p].blob.key \notin blunt => proc[p].blob.rt \notin {None, 0}
          BY <4>2, UserCacheAssumption DEF Kept, Blunt, Rt
        <4>4. proc'[p].backend = proc[p].backend /\ proc'[p].blob = proc[p].blob
          BY <2>1, <3>1 DEF Arrived, Same
        <4> QED
          BY <2>2, <4>1, <4>3, <4>4 DEF Copied
      <3>2. CASE proc'[p].pc \in {"dropFile", "pointLegacy"}
        BY <2>1, <2>5, <3>2 DEF Arrived, Same
      <3> QED
        BY <3>1, <3>2 DEF Copied
    <2> QED
      BY <2>3, <2>6, <2>7 DEF Kept
  <1>3. ASSUME Next, WriteThrough PROVE Kept'
    <2>1. /\ UNCHANGED <<proc, legacyKeyring, legacyFile, hidden, blunt>>
          /\ \A c \in Backends, k \in Keys : slot'[c][k] = slot[c][k] \/ k \in raced'
      BY <1>3, <1>a, Through
    <2>2. Single' /\ Blunt'
      BY <2>1 DEF Kept, Single, Blunt, Blobs
    <2>3. ASSUME NEW q \in Procs PROVE Copied(q)'
      <3>1. proc[q].pc \in Migrating => proc[q].backend \in Backends /\ proc[q].blob.key \in Keys
        BY InHand, ProcessFacts DEF Inv, TypeOK
      <3> QED
        BY <1>3, <1>a, <2>1, <3>1 DEF Kept, Copied, Migrating
    <2> QED
      BY <2>2, <2>3 DEF Kept
  <1> QED
    BY <1>1, <1>2, <1>3 DEF Next, Step

\* At the start there are the two legacy blobs.
LEMMA InitBlobs ==
    ASSUME Init
    PROVE  /\ Blobs = {legacyKeyring, legacyFile} \ {None}
           /\ \A x \in Blobs : x \in Blob /\ x.rt \in {0, 1}
  <1>1. \A p \in Procs : proc[p].blob = None
    BY IdleFacts DEF Init
  <1>2. Blobs = {legacyKeyring, legacyFile} \ {None}
    BY <1>1 DEF Blobs
  <1>3. \A x \in {legacyKeyring, legacyFile} \ {None} : x \in Blob /\ x.rt \in {0, 1}
    BY UserCacheAssumption DEF Init, Blob, Rt
  <1> QED
    BY <1>2, <1>3

\* They are known for what they are.
LEMMA InitKept == Init => Kept
  <1> SUFFICES ASSUME Init PROVE Kept
    OBVIOUS
  <1>1. Single
    <2>1. CASE None \in {legacyKeyring, legacyFile}
      BY <2>1, InitBlobs DEF Single
    <2>2. CASE None \notin {legacyKeyring, legacyFile}
      BY <2>2, InitBlobs DEF Single, Init
    <2> QED
      BY <2>1, <2>2
  <1>2. Blunt
    BY InitBlobs DEF Blunt, Init
  <1>3. \A p \in Procs : Copied(p)
    BY IdleFacts DEF Init, Copied
  <1> QED
    BY <1>1, <1>2, <1>3 DEF Kept

\* The last stored refresh token of a profile is never thrown away, by an
\* interrupted or half failed migration, a grant that does not rotate or two
\* commands at once: migrate_legacy_into copies a blob before it removes it.
\* The keys of two legacy blobs, of blobs and saved sign-ins without a refresh
\* token and of files that several commands wrote at once are excluded.
THEOREM CredentialCorrect == Spec => CredentialNotLost
  <1>1. Inv /\ Kept /\ [Next]_vars =>
           [\A k \in Keys \ (hidden \union blunt' \union raced') : Held(k) => Held(k)']_vars
    <2>0. ASSUME Inv, Next, WriteThrough, NEW k \in Keys \ raced', Held(k) PROVE Held(k)'
      <3>1. mixed[k] = {}
        BY <2>0 DEF Next, OpenFiles, Inv, Noted
      <3> QED
        BY <2>0, <3>1, Through DEF Held
    <2> SUFFICES ASSUME Inv, Kept, Next, NEW p \in Procs, Step(p),
                        NEW k \in Keys \ (hidden \union blunt' \union raced'), Held(k)
                 PROVE  Held(k)'
      BY <2>0 DEF Next, Step
    <2>1. Stored(p) /\ raced \subseteq raced'
      BY Moves DEF Next, OpenFiles
    <2>2. CASE \E b \in Backends : slot[b][k] \notin {None, 0}
      BY <2>2, EntryKept DEF Kept, Held
    <2>3. ASSUME NEW blob \in {legacyKeyring, legacyFile} \ {None}, blob.key = k, blob.rt > 0
          PROVE  Held(k)'
      <3>1. CASE blob \in {legacyKeyring', legacyFile'}
        BY <2>3, <3>1 DEF Held
      <3>2. CASE blob \notin {legacyKeyring', legacyFile'}
        <4>1. proc[p].pc \in {"dropLegacy", "dropFile"}
          BY <2>1, <2>3, <3>2 DEF Stored
        <4>2. proc[p].blob \in Blobs /\ blob \in Blobs
          BY <2>3, <4>1, InHand DEF Blobs, Migrating
        <4>3. proc[p].blob = blob
          BY <2>3, <4>2 DEF Kept, Single
        <4>4. proc[p].backend \in Backends /\ slot[proc[p].backend][k] \notin {None, 0}
          BY <2>1, <2>3, <4>1, <4>3, ProcessFacts DEF Kept, Copied, Inv, TypeOK, Stored
        <4> QED
          BY <4>4, EntryKept DEF Kept, Held
      <3> QED
        BY <3>1, <3>2
    <2> QED
      BY <2>2, <2>3 DEF Held
  <1> QED
    BY <1>1, InitTypes, InitKept, TypeStep, KeptStep, PTL DEF Spec, CredentialNotLost

-----------------------------------------------------------------------------
(* Refresh tokens are not rolled back *)

\* The identity provider has issued every refresh token there is.
Rated ==
    /\ \A b \in Backends, k \in Keys : slot[b][k] # None => slot[b][k] <= issued
    /\ \A x \in Blobs : x.rt <= issued
    /\ \A p \in Procs : proc[p].pc \in {"exchange", "save"} => proc[p].rt <= issued

\* Two legacy blobs are known for it.
Both ==
    legacyKeyring # None /\ legacyFile # None =>
        legacyKeyring.key \in hidden /\ legacyFile.key \in hidden

\* A legacy blob that a migration may copy, and a store that has none.
Here(x) == x # None /\ x.key \in Keys \ hidden
Clean(b) == ~Here(legacyFile) /\ (b = "keyring" => ~Here(legacyKeyring))

\* An entry of the key of such a blob is a copy of it: no later token was saved
\* before the blob was gone.
Fresh ==
    /\ Here(legacyFile) => \A b \in Backends : slot[b][legacyFile.key] \in {None, legacyFile.rt}
    /\ Here(legacyKeyring) => slot["keyring"][legacyKeyring.key] \in {None, legacyKeyring.rt}

Alone == \A p, q \in Procs : p # q => proc[p].pc = "idle" \/ proc[q].pc = "idle"

\* No two commands write a file at once.
Unmixed == \A k \in Keys : mixed[k] = {}

\* What a command copies is still there; what it loads and saves is in a store
\* without such blobs; and what it saves is no older than the entry, unless it
\* signed in and got none.
Stage(p) ==
    /\ proc[p].pc = "keyedSave" =>
          \/ proc[p].blob = legacyFile
          \/ proc[p].backend = "keyring" /\ proc[p].blob = legacyKeyring
    /\ proc[p].pc = "dropFile" =>
          IF proc[p].backend = "keyring" THEN legacyKeyring = None ELSE legacyFile = None
    /\ proc[p].pc = "pointLegacy" => Clean(proc[p].backend)
    /\ proc[p].pc \in SigningIn \union {"load", "exchange", "save"} /\ proc[p].verb # "cloud" =>
          Clean(proc[p].backend)
    /\ proc[p].pc \in SigningIn \union {"save"} => proc[p].verb # "cloud"
    /\ proc[p].pc = "exchange" /\ Entry(p) # None => Entry(p) <= proc[p].rt
    /\ proc[p].pc = "save" /\ Entry(p) # None => Entry(p) <= proc[p].rt \/ proc[p].bare

Ordered ==
    Both /\ (orderly => Rated /\ Unmixed /\ Fresh /\ Alone /\ \A p \in Procs : Stage(p))

\* A command saves nothing that was not issued, and blobs only go.
LEMMA RatedStep ==
    ASSUME Inv, Rated, Unmixed, Next, NEW p \in Procs, Step(p)
    PROVE  Rated'
  <1>1. Arrived(p) /\ Stored(p) /\ \A q \in Procs : q # p => proc'[q] = proc[q]
    BY Moves
  <1>2. issued \in Nat /\ issued' \in Nat /\ issued <= issued'
    BY <1>1, UserCacheAssumption DEF Inv, TypeOK, Stored, Rt, NextRt
  <1>5. \A x \in Blobs : x.rt \in Nat /\ x.rt <= issued
    BY ProcessFacts DEF Inv, TypeOK, Rated, Blob, Rt, Blobs
  <1>6. \A x \in Blobs' : x.rt <= issued'
    BY <1>2, <1>5, BlobsShrink
  <1>7. \A q \in Procs : proc[q].rt \in Nat
    BY ProcessFacts DEF Inv, TypeOK, Rt
  <1>8. /\ slot \in [Backends -> [Keys -> Rt \union {None}]] /\ proc[p].backend \in Backends
        /\ proc[p].pc \in Keyed => proc[p].key \in Keys
    BY ProcessFacts DEF Inv, TypeOK, Well
  <1>9. ASSUME NEW b \in Backends, NEW k \in Keys, slot'[b][k] # None
        PROVE  slot'[b][k] <= issued'
    <2>1. CASE slot'[b][k] = slot[b][k]
      <3>1. slot[b][k] \in Nat /\ slot[b][k] <= issued
        BY <1>8, <1>9, <2>1 DEF Rated, Rt
      <3> QED
        BY <1>2, <2>1, <3>1
    <2>2. CASE proc[p].pc = "keyedSave" /\ slot'[b][k] = proc[p].blob.rt
      <3>1. proc[p].blob \in Blobs
        BY <2>2, InHand DEF Migrating
      <3> QED
        BY <1>2, <1>5, <2>2, <3>1
    <2>3. CASE proc[p].pc = "save" /\ slot'[b][k] = proc[p].rt
      BY <1>2, <1>7, <2>3 DEF Rated
    <2> QED
      BY <2>1, <2>2, <2>3, Entries DEF Unmixed
  <1>10. ASSUME NEW q \in Procs, proc'[q].pc \in {"exchange", "save"} PROVE proc'[q].rt <= issued'
    <2>1. CASE q # p
      BY <1>1, <1>2, <1>7, <1>10, <2>1 DEF Rated
    <2>2. CASE q = p /\ proc'[p].pc = "exchange"
      <3>1. proc[p].pc = "load" /\ proc'[p].rt = Entry(p)
        BY <1>1, <2>2 DEF Arrived
      <3>2. Entry(p) \in Rt \union {None}
        BY <1>8, <3>1 DEF Entry, Keyed
      <3>3. Entry(p) # None
        BY <2>2, <3>1, TypeStep, ProcessFacts, UserCacheAssumption DEF Inv, TypeOK, Rt
      <3>4. Entry(p) \in Nat /\ Entry(p) <= issued
        BY <1>8, <3>1, <3>2, <3>3 DEF Rated, Entry, Rt, Keyed
      <3> QED
        BY <1>2, <2>2, <3>1, <3>4
    <2>3. CASE q = p /\ proc'[p].pc = "save"
      BY <1>1, <1>2, <1>7, <2>3 DEF Arrived, Rated, NextRt
    <2> QED
      BY <1>10, <2>1, <2>2, <2>3
  <1> QED
    BY <1>6, <1>9, <1>10 DEF Rated

\* As long as commands follow each other and migrations succeed, blobs and
\* entries of the same key agree.
LEMMA FreshStep ==
    ASSUME Inv, Unmixed, Both, Fresh, NEW p \in Procs, Stage(p), Step(p)
    PROVE  Fresh'
  <1>1. Arrived(p) /\ Stored(p)
    BY Moves
  <1>2. /\ legacyKeyring' \in {legacyKeyring, None} /\ legacyFile' \in {legacyFile, None}
        /\ hidden' = hidden
    BY <1>1 DEF Stored
  <1>3. proc[p].pc = "keyedSave" => proc[p].blob # None
    BY InHand DEF Migrating, Blobs
  <1>4. ASSUME Here(legacyFile), NEW b \in Backends
        PROVE  slot'[b][legacyFile.key] \in {None, legacyFile.rt}
    <2>1. CASE slot'[b][legacyFile.key] = slot[b][legacyFile.key]
      BY <1>4, <2>1 DEF Fresh
    <2>2. CASE proc[p].pc = "keyedSave" /\ slot'[b][legacyFile.key] = proc[p].blob.rt
      <3>1. proc[p].blob = legacyFile
        BY <1>3, <1>4, <2>2 DEF Stage, Both, Here
      <3> QED
        BY <2>2, <3>1
    <2>3. CASE proc[p].pc = "save"
      BY <1>4, <2>3 DEF Stage, Clean
    <2> QED
      BY <1>4, <2>1, <2>2, <2>3, Entries DEF Here, Unmixed
  <1>5. ASSUME Here(legacyKeyring)
        PROVE  slot'["keyring"][legacyKeyring.key] \in {None, legacyKeyring.rt}
    <2>1. CASE slot'["keyring"][legacyKeyring.key] = slot["keyring"][legacyKeyring.key]
      BY <1>5, <2>1 DEF Fresh
    <2>2. CASE /\ proc[p].pc = "keyedSave"
               /\ slot'["keyring"][legacyKeyring.key] = proc[p].blob.rt
      <3>1. proc[p].blob = legacyKeyring
        BY <1>3, <1>5, <2>2 DEF Stage, Both, Here
      <3> QED
        BY <2>2, <3>1
    <2>3. CASE proc[p].pc = "save" /\ proc[p].backend = "keyring"
      BY <1>5, <2>3 DEF Stage, Clean
    <2> QED
      BY <1>5, <2>1, <2>2, <2>3, Entries DEF Here, Backends, Unmixed
  <1> QED
    BY <1>2, <1>4, <1>5 DEF Fresh, Here

\* The command that takes a step goes on in order.
LEMMA StageStep ==
    ASSUME Inv, Rated, Both, Fresh, Next, NEW p \in Procs, Stage(p), Step(p), orderly'
    PROVE  Stage(p)'
  <1>1. Arrived(p) /\ Stored(p)
    BY Moves
  <1>2. /\ legacyKeyring' \in {legacyKeyring, None} /\ legacyFile' \in {legacyFile, None}
        /\ hidden' = hidden
    BY <1>1 DEF Stored
  <1>3. \A b \in Backends : Clean(b) => Clean(b)'
    BY <1>2 DEF Clean, Here
  <1>4. proc[p].backend \in Backends
    BY ProcessFacts DEF Inv, TypeOK
  <1>5. CASE proc'[p].pc = "keyedSave"
    <2>1. /\ proc'[p].blob = LegacyBlob(proc[p].backend, TRUE) /\ proc'[p].backend = proc[p].backend
          /\ proc[p].pc = "migrate"
      BY <1>1, <1>5 DEF Arrived, Same
    <2>2. legacyKeyring' = legacyKeyring /\ legacyFile' = legacyFile
      BY <1>1, <2>1 DEF Stored
    <2> QED
      BY <1>5, <2>1, <2>2 DEF Stage, LegacyBlob, SigningIn
  <1>6. CASE proc'[p].pc = "dropFile"
    BY <1>1, <1>6 DEF Arrived, Stored, Same, Stage, SigningIn
  <1>7. CASE proc'[p].pc = "pointLegacy"
    <2>1. /\ proc[p].pc = "dropFile" /\ proc'[p].backend = proc[p].backend /\ legacyFile' = None
      BY <1>1, <1>7 DEF Arrived, Stored, Same
    <2>2. Clean(proc[p].backend)'
      BY <1>2, <2>1 DEF Stage, Clean, Here
    <2> QED
      BY <1>7, <2>1, <2>2 DEF Stage, SigningIn
  <1>8. CASE proc'[p].pc = "load"
    <2>1. ASSUME proc'[p].verb # "cloud" PROVE Clean(proc[p].backend)'
      <3>1. CASE proc[p].pc = "pointLegacy" /\ proc'[p].backend = proc[p].backend
        BY <1>3, <1>4, <3>1 DEF Stage
      <3>2. CASE /\ proc[p].pc = "migrate" /\ proc'[p].backend = proc[p].backend
                 /\ LegacyBlob(proc[p].backend, TRUE) \notin Whole
        <4>1. \A x \in {legacyKeyring, legacyFile} : Here(x) => x \in Whole
          BY DEF Inv, TypeOK, Here, Blob, Whole
        <4>2. Clean(proc[p].backend)
          BY <3>2, <4>1 DEF LegacyBlob, Clean, Both, Here
        <4> QED
          BY <1>3, <1>4, <3>2, <4>2
      <3> QED
        BY <1>1, <1>8, <2>1, <3>1, <3>2 DEF Arrived, Same
    <2> QED
      BY <1>8, <2>1 DEF Stage, SigningIn
  <1>9. CASE proc'[p].pc = "exchange"
    <2>1. proc[p].pc = "load" /\ Same(p) /\ proc'[p].rt = Entry(p)
      BY <1>1, <1>9 DEF Arrived
    <2>2. slot' = slot
      BY <1>1, <2>1 DEF Stored
    <2>3. Entry(p)' = Entry(p) /\ proc'[p].rt \in Nat
      BY <2>1, <2>2, TypeStep, ProcessFacts DEF Entry, Same, Inv, TypeOK, Rt
    <2>4. proc[p].verb # "cloud" => Clean(proc[p].backend)'
      BY <1>3, <1>4, <2>1 DEF Stage, Same
    <2> QED
      BY <1>9, <2>1, <2>3, <2>4 DEF Stage, Same, SigningIn
  <1>10. CASE proc'[p].pc \in SigningIn
    <2>1. /\ proc[p].pc \in SigningIn \union {"load", "exchange"} /\ Same(p)
          /\ proc[p].pc \in {"load", "exchange"} => proc[p].verb # "cloud"
      BY <1>1, <1>10 DEF Arrived
    <2>2. proc[p].verb # "cloud" /\ Clean(proc[p].backend)'
      BY <1>3, <1>4, <2>1 DEF Stage, Same
    <2> QED
      BY <1>10, <2>1, <2>2 DEF Stage, Same, SigningIn
  <1>11. CASE proc'[p].pc = "save"
    <2>1. /\ proc[p].pc \in SigningIn \union {"exchange"} /\ Same(p)
          /\ proc[p].pc = "exchange" => proc[p].verb # "cloud"
          /\ \/ proc'[p].rt = NextRt
             \/ proc[p].pc = "exchange" /\ proc'[p].rt = proc[p].rt
             \/ proc'[p].bare
      BY <1>1, <1>11 DEF Arrived
    <2>2. proc[p].verb # "cloud" /\ Clean(proc[p].backend)'
      BY <1>3, <1>4, <2>1 DEF Stage, Same
    <2>3. slot' = slot
      BY <1>1, <2>1 DEF Stored, SigningIn
    <2>4. Entry(p)' = Entry(p)
      BY <2>1, <2>3 DEF Entry, Same
    <2>5. /\ Entry(p) \in Rt \union {None} /\ issued \in Nat
          /\ Entry(p) # None => Entry(p) <= issued
      BY <1>4, <2>1 DEF Inv, TypeOK, Well, Keyed, SigningIn, Entry, Rated, Rt
    <2>6. Entry(p) # None => Entry(p) <= proc'[p].rt \/ proc'[p].bare
      BY <2>1, <2>5 DEF Stage, NextRt, Rt
    <2> QED
      BY <1>11, <2>1, <2>2, <2>4, <2>6 DEF Stage, Same, SigningIn
  <1> QED
    BY <1>5, <1>6, <1>7, <1>8, <1>9, <1>10, <1>11 DEF Stage

\* Every step keeps the order.
LEMMA OrderedStep == Inv /\ Ordered /\ [Next]_vars => Ordered'
  <1> SUFFICES ASSUME Inv, Ordered, [Next]_vars PROVE Ordered'
    OBVIOUS
  <1>1. CASE UNCHANGED vars
    BY <1>1 DEF vars, stores, Ordered, Rated, Blobs, Both, Fresh, Here, Alone, Unmixed, Stage, Clean, Entry
  <1>a. ASSUME Next, Unmixed, Alone' PROVE Unmixed'
    <2> SUFFICES ASSUME NEW k \in Keys PROVE mixed'[k] = {}
      BY DEF Unmixed
    <2>1. \A p, q \in EntryWriters(k)' : p = q
      BY <1>a DEF Alone, EntryWriters
    <2>2. mixed'[k] = Mixture(mixed[k], EntryWriters(k)', {EntryData(p)' : p \in EntryWriters(k)'})
      BY <1>a DEF Next, OpenFiles
    <2> QED
      BY <1>a, <2>1, <2>2 DEF Mixture, Unmixed
  <1>2. ASSUME Next, NEW p \in Procs, Step(p) PROVE Ordered'
    <2>1. Arrived(p) /\ Stored(p) /\ \A q \in Procs : q # p => proc'[q] = proc[q]
      BY <1>2, Moves
    <2>2. Both'
      BY <2>1 DEF Stored, Ordered, Both
    <2>3. ASSUME orderly' PROVE Rated' /\ Unmixed' /\ Fresh' /\ Alone' /\ \A q \in Procs : Stage(q)'
      <3>1. Rated /\ Unmixed /\ Fresh /\ Alone /\ \A q \in Procs : Stage(q)
        BY <2>1, <2>3 DEF Stored, Ordered
      <3>2. \A q \in Procs : q # p => proc[q].pc = "idle"
        BY <2>1, <2>3, <3>1 DEF Stored, Alone
      <3>3. \A q \in Procs : q # p => proc'[q].pc = "idle"
        BY <2>1, <3>2
      <3>4. Rated' /\ Fresh' /\ Stage(p)'
        BY <1>2, <2>3, <3>1, RatedStep, FreshStep, StageStep DEF Ordered
      <3>5. ASSUME NEW q \in Procs, q # p PROVE Stage(q)'
        BY <3>3, <3>5 DEF Stage, SigningIn
      <3>6. Alone'
        BY <3>3 DEF Alone
      <3> QED
        BY <1>2, <1>a, <3>1, <3>4, <3>5, <3>6
    <2> QED
      BY <2>2, <2>3 DEF Ordered
  <1>3. ASSUME Next, WriteThrough PROVE Ordered'
    <2>1. /\ UNCHANGED <<proc, legacyKeyring, legacyFile, issued, hidden, blunt, orderly>>
          /\ slot' = slot \/ ~Unmixed
      BY <1>3, Through DEF Unmixed
    <2>2. Both'
      BY <2>1 DEF Ordered, Both
    <2>3. ASSUME orderly' PROVE Rated' /\ Unmixed' /\ Fresh' /\ Alone' /\ \A q \in Procs : Stage(q)'
      <3>1. Rated /\ Unmixed /\ Fresh /\ Alone /\ (\A q \in Procs : Stage(q)) /\ slot' = slot
        BY <2>1, <2>3 DEF Ordered
      <3>2. Rated' /\ Fresh' /\ Alone' /\ \A q \in Procs : Stage(q)'
        BY <2>1, <3>1 DEF Rated, Blobs, Fresh, Here, Alone, Stage, Clean, Entry
      <3> QED
        BY <1>3, <1>a, <3>1, <3>2
    <2> QED
      BY <2>2, <2>3 DEF Ordered
  <1> QED
    BY <1>1, <1>2, <1>3 DEF Next, Step

LEMMA InitOrdered == Init => Ordered
  <1> SUFFICES ASSUME Init PROVE Ordered
    OBVIOUS
  <1>1. \A p \in Procs : proc[p].pc = "idle"
    BY IdleFacts DEF Init
  <1>2. Rated
    BY <1>1, InitBlobs DEF Init, Rated
  <1>3. Both
    BY DEF Init, Both
  <1>4. Fresh
    BY DEF Init, Fresh, Here, Backends
  <1>5. Alone /\ \A p \in Procs : Stage(p)
    BY <1>1 DEF Alone, Stage, SigningIn
  <1>6. Unmixed
    BY DEF Init, Unmixed
  <1> QED
    BY <1>2, <1>3, <1>4, <1>5, <1>6 DEF Ordered

\* While commands follow one another and no step of a migration fails, a
\* stored refresh token is never replaced by an older one, only by a sign-in
\* that brought none: a migration that is
\* interrupted and repeated copies only what the entry already is, because
\* migrate_legacy_into removes the blob before anything newer is saved.
THEOREM NoRollbackCorrect == Spec => NoRollback
  <1> DEFINE Bare(k) == \E p \in Procs : proc[p].pc = "save" /\ proc[p].bare /\ proc[p].key = k
             Forward == orderly => \A b \in Backends, k \in Keys \ hidden :
                           \/ slot[b][k] # None /\ slot[b][k]' # None => slot[b][k]' >= slot[b][k]
                           \/ Bare(k)
  <1>1. Inv /\ Ordered /\ [Next]_vars => [Forward]_vars
    <2>0. ASSUME Inv, Ordered, WriteThrough, orderly, NEW b \in Backends, NEW k \in Keys, slot[b][k] # None
          PROVE  slot'[b][k] >= slot[b][k]
      <3>1. slot'[b][k] = slot[b][k]
        BY <2>0, Through DEF Ordered, Unmixed
      <3>2. slot[b][k] \in Nat
        BY <2>0 DEF Inv, TypeOK, Rt
      <3> QED
        BY <3>1, <3>2
    <2> SUFFICES ASSUME Inv, Ordered, NEW p \in Procs, Step(p), orderly,
                        NEW b \in Backends, NEW k \in Keys \ hidden,
                        slot[b][k] # None, slot'[b][k] # None, ~Bare(k)
                 PROVE  slot'[b][k] >= slot[b][k]
      <3> HIDE DEF Bare
      <3> QED
        BY <2>0 DEF Next, Step
    <2>1. slot[b][k] \in Nat
      BY DEF Inv, TypeOK, Rt
    <2>2. Stage(p) /\ Fresh /\ Unmixed
      BY DEF Ordered
    <2>3. CASE slot'[b][k] = slot[b][k]
      BY <2>1, <2>3
    <2>4. CASE /\ b = proc[p].backend /\ proc[p].pc = "keyedSave"
               /\ k = proc[p].blob.key /\ slot'[b][k] = proc[p].blob.rt
      <3>1. proc[p].blob # None
        BY <2>4, InHand DEF Migrating, Blobs
      <3>2. slot[b][k] = proc[p].blob.rt
        BY <2>2, <2>4, <3>1 DEF Stage, Fresh, Here
      <3> QED
        BY <2>1, <2>4, <3>2
    <2>5. CASE b = proc[p].backend /\ proc[p].pc = "save" /\ k = proc[p].key /\ slot'[b][k] = proc[p].rt
      <3>1. proc[p].rt \in Nat
        BY ProcessFacts DEF Inv, TypeOK, Rt
      <3>2. ~proc[p].bare
        BY <2>5
      <3> QED
        BY <2>1, <2>2, <2>5, <3>1, <3>2 DEF Stage, Entry
    <2> QED
      BY <2>2, <2>3, <2>4, <2>5, Entries DEF Unmixed
  <1> QED
    BY <1>1, InitTypes, InitOrdered, TypeStep, OrderedStep, PTL DEF Spec, NoRollback

=============================================================================
