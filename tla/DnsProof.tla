------------------------------ MODULE DnsProof ------------------------------
(***************************************************************************)
(* The three DNS managers, for any number of suffixes, servers, links,     *)
(* rule identifiers, failing calls and crashes.                            *)
(***************************************************************************)
EXTENDS MCDns, Integers, FiniteSetTheorems, SequenceTheorems, TLAPS

-----------------------------------------------------------------------------
(* The inductive invariants *)

\* An apply is under way only in an attempt, and what it was asked for is a
\* list of names.
Driving ==
    /\ pc \in {"install", "write", "prune", "drop", "domains", "rewrite", "surplus"} => attempt
    /\ attempt \in BOOLEAN
    /\ \A r \in {profile, want} : r.suffixes \in Seq(Name) /\ r.servers \subseteq Servers

\* macOS: every file of ours is in the record, or has just been written, or is
\* next to be removed, or was given up.
DarwinHeld ==
    /\ file = [s \in Suffixes |-> file[s]]
    /\ pc = "idle" => OursDarwin \subseteq stray \union IF attempt THEN written ELSE {}
    /\ pc \in {"install", "revert"} => OursDarwin \subseteq stray \union written
    /\ pc = "write" => /\ todo \subseteq Desired
                       /\ OursDarwin \subseteq stray \union written \union (Desired \ todo)
    /\ pc = "prune" => OursDarwin \subseteq stray \union todo \union Desired
    /\ pc \in {"drop", "remove", "sweep"} => OursDarwin \subseteq stray \union todo

\* Linux: only the tun's link has settings, and it is the one remembered or
\* the one being set up; a rewritten resolv.conf has its snapshot in memory.
LinkHeld ==
    /\ tun \in Links \union {None}
    /\ setting = [l \in Links |-> setting[l]]
    /\ \A l \in Links : setting[l] # NoSetting =>
          /\ l = tun
          /\ l \in stray \/ l = lastLink \/ (pc = "domains" /\ l \in todo)
    /\ pc = "domains" => backend = "resolved" /\ \E l \in Links : todo = {l}
    /\ lastLink # None => backend = "resolved"

ConfHeld ==
    /\ conf \in Content \union Rendered
    /\ conf.by = "azvpn" => "resolv.conf" \in stray \/ backup # None
    /\ backup # None => /\ backend = "direct" /\ backup \in Content \union Rendered
                        /\ backup.by = "azvpn" => "resolv.conf" \in stray
    /\ pc = "rewrite" => backup # None

LinuxHeld == LinkHeld /\ ConfHeld /\ (backend # None => attempt)

\* Windows: while rules are written, every rule of ours is surplus, or has one
\* of the identifiers that will be recorded; afterwards it is recorded.
NewIds == {newIds[i] : i \in DOMAIN newIds}

InReach ==
    CASE pc = "surplus" -> todo \union NewIds
      [] pc \in {"clear", "clearOrphans"} -> todo
      [] pc \in {"dropKey", "dropOrphanKey"} -> {}
      [] pc = "idle" /\ ~attempt -> {}
      [] OTHER -> Recorded

Writing == [table : {"local", "policy"}, rule : [id : NewIds, view : {ChunkView(i) : i \in Nat}]]

WindowsHeld ==
    /\ owned \in Seq(Recorded) /\ newIds \in Seq(NewIds)
    /\ writes \in Seq(Writing)
    /\ pc # "surplus" => writes = <<>>
    /\ OursWindows \subseteq stray \union InReach

Held ==
    /\ platform = "macos" => DarwinHeld
    /\ platform = "linux" => LinuxHeld
    /\ platform = "windows" => WindowsHeld

Inv == Driving /\ Held

\* Foreign files that were there when the call began are none of those it
\* writes; the policy key is dropped only if the policy had no rules.
Spared ==
    /\ platform = "macos" => /\ kept \subseteq Foreign
                             /\ pc = "write" => todo \intersect kept = {}
    /\ platform = "windows" => /\ gpoKept => gpo
                               /\ pc \in {"dropKey", "dropOrphanKey"} => ~gpoKept

-----------------------------------------------------------------------------
(* The driver *)

Applying == {"install", "write", "prune", "drop", "domains", "rewrite", "surplus"}

\* What a step of any platform does to the request and to the attempt.
Moves ==
    /\ UNCHANGED <<platform, profile>>
    /\ want' = want \/ want' = NoRequest \/ ApplyDns
    /\ \/ attempt' = attempt /\ (pc' \in Applying => pc \in Applying)
       \/ ApplyDns
       \/ pc' \notin Applying /\ attempt' \in BOOLEAN

LEMMA DriverMoves == DnsDriver => Moves
  BY DEF DnsDriver, Begin, ApplyDns, Teardown, StartUp, Moves, Applying

LEMMA DarwinMoves == DarwinNext => Moves
  <1> SUFFICES ASSUME DarwinNext PROVE Moves
    OBVIOUS
  <1>1. CASE DnsDriver
    BY <1>1, DriverMoves
  <1>2. CASE Update \/ WriteOne \/ Written \/ RemoveOne \/ Updated
    BY <1>2 DEF Update, WriteOne, Written, RemoveOne, Updated, Remove, ReturnError, ReturnOk, GoOn,
                Moves, Applying
  <1>3. CASE Clear \/ Cleared \/ Scan \/ Swept \/ DarwinKilled \/ OtherTool
    BY <1>3 DEF Clear, Cleared, Scan, Swept, DarwinKilled, OtherTool, Remove, Reverted, CleanedUp,
                Killed, GoOn, Moves, Applying
  <1> QED
    BY <1>1, <1>2, <1>3 DEF DarwinNext

LEMMA LinuxMoves == LinuxNext => Moves
  <1> SUFFICES ASSUME LinuxNext PROVE Moves
    OBVIOUS
  <1>1. CASE DnsDriver
    BY <1>1, DriverMoves
  <1>2. CASE DetectBackend \/ SetLinkDns \/ SetLinkDomains \/ Snapshot \/ Rewrite
    BY <1>2 DEF DetectBackend, SetLinkDns, SetLinkDomains, Snapshot, Rewrite, ReturnError, ReturnOk,
                GoOn, Moves, Applying
  <1>3. CASE RevertLink \/ Restore \/ NothingToRevert \/ LinuxCleanup \/ LinuxKilled
    BY <1>3 DEF RevertLink, Restore, NothingToRevert, LinuxCleanup, LinuxKilled, Reverted, CleanedUp,
                Killed, Moves, Applying
  <1>4. CASE TunUp \/ TunDown \/ HostWrites
    BY <1>4 DEF TunUp, TunDown, HostWrites, Moves, Applying
  <1> QED
    BY <1>1, <1>2, <1>3, <1>4 DEF LinuxNext

LEMMA WindowsMoves == WindowsNext => Moves
  <1> SUFFICES ASSUME WindowsNext PROVE Moves
    OBVIOUS
  <1>1. CASE DnsDriver
    BY <1>1, DriverMoves
  <1>2. CASE Install \/ DeleteOne \/ WriteRule \/ SaveIds
    BY <1>2 DEF Install, DeleteOne, WriteRule, SaveIds, ReturnError, ReturnOk, GoOn, Moves, Applying
  <1>3. CASE ClearRules \/ SaveNoIds \/ DropPolicyKey
    BY <1>3 DEF ClearRules, SaveNoIds, DropPolicyKey, Finish, Reverted, CleanedUp, GoOn, Moves, Applying
  <1>4. CASE WindowsKilled \/ GpoChanges
    BY <1>4 DEF WindowsKilled, GpoChanges, Killed, Moves, Applying
  <1> QED
    BY <1>1, <1>2, <1>3, <1>4 DEF WindowsNext

LEMMA Collected ==
    ASSUME Driving, ApplyDns
    PROVE  want'.suffixes \in Seq(Name) /\ want'.servers \subseteq Servers
  <1>1. PICK domain \in PushedDomain, pushed \in ServerList : want' = Collect(domain, pushed)
    BY DEF ApplyDns
  <1>2. domain = None \/ domain \in Name
    BY DEF PushedDomain, Name
  <1>3. profile.suffixes \in Seq(Name) /\ profile.servers \subseteq Servers
    BY DEF Driving
  <1>4. domain \in Name => Append(profile.suffixes, domain) \in Seq(Name)
    BY <1>3
  <1>5. want'.suffixes \in Seq(Name)
    BY <1>1, <1>2, <1>3, <1>4 DEF Collect
  <1>6. want'.servers \subseteq Servers
    BY <1>1, <1>3 DEF Collect, ServerList
  <1> QED
    BY <1>5, <1>6

LEMMA DrivingStep ==
    ASSUME Driving, Moves
    PROVE  Driving'
  <1>1. /\ profile'.suffixes \in Seq(Name) /\ profile'.servers \subseteq Servers
        /\ want'.suffixes \in Seq(Name) /\ want'.servers \subseteq Servers
    <2>1. NoRequest.suffixes = <<>> /\ NoRequest.servers = {} /\ <<>> \in Seq(Name)
      BY DEF NoRequest
    <2>2. CASE want' = want
      BY <2>2 DEF Driving, Moves
    <2>3. CASE want' = NoRequest
      BY <2>1, <2>3 DEF Driving, Moves
    <2>4. CASE ApplyDns
      BY <2>4, Collected DEF Driving, Moves
    <2> QED
      BY <2>2, <2>3, <2>4 DEF Moves
  <1>2. attempt' \in BOOLEAN /\ (pc' \in Applying => attempt')
    <2>1. CASE ApplyDns
      BY <2>1 DEF ApplyDns, Driving
    <2>2. CASE ~ApplyDns
      BY <2>2 DEF Moves, Driving, Applying
    <2> QED
      BY <2>1, <2>2
  <1> QED
    BY <1>1, <1>2 DEF Driving, Applying

-----------------------------------------------------------------------------
(* macOS *)

LEMMA DarwinStep ==
    ASSUME Driving, DarwinHeld, DarwinNext
    PROVE  DarwinHeld'
  <1>0. file' = [s \in Suffixes |-> file'[s]]
    BY DEF DarwinHeld, DarwinNext, darwinVars, Update, WriteOne, Written, RemoveOne, RemoveIfOurs, Updated, Remove,
           Clear, Cleared, Scan, Swept, DarwinKilled, OtherTool
  <1>1. CASE DnsDriver /\ UNCHANGED darwinVars
    BY <1>1 DEF DnsDriver, Begin, ApplyDns, Teardown, StartUp, Smooth, Interference, darwinVars,
                DarwinHeld, OursDarwin
  <1>2. CASE Update
    <2>1. UNCHANGED file /\ OursDarwin' = OursDarwin /\ pc = "install" /\ attempt
      BY <1>2 DEF Update, Remove, darwinVars, OursDarwin, Driving
    <2>2. OursDarwin \subseteq stray \union written
      BY <2>1 DEF DarwinHeld
    <2>3. stray \subseteq stray'
      BY <1>2 DEF Update, Remove, Smooth, Fails
    <2>4. CASE ReturnError /\ UNCHANGED written
      BY <2>1, <2>2, <2>3, <2>4 DEF ReturnError, DarwinHeld
    <2>5. CASE Remove("drop")
      BY <2>1, <2>2, <2>3, <2>5 DEF Remove, GoOn, DarwinHeld
    <2>6. CASE GoOn("write", Desired) /\ UNCHANGED written
      BY <2>1, <2>2, <2>3, <2>6 DEF GoOn, DarwinHeld, Desired
    <2> QED
      BY <1>2, <2>4, <2>5, <2>6 DEF Update, darwinVars
  <1>3. CASE WriteOne
    <2>1. /\ pc = "write" /\ attempt /\ UNCHANGED written
          /\ OursDarwin \subseteq stray \union written \union (Desired \ todo)
      BY <1>3 DEF WriteOne, DarwinHeld, Driving
    <2>2. ASSUME NEW s \in todo,
                 file' = [file EXCEPT ![s] = [who |-> "azvpn", servers |-> want.servers]],
                 GoOn("write", todo \ {s}), Smooth
          PROVE  DarwinHeld'
      <3>1. OursDarwin' \subseteq OursDarwin \union {s}
        BY <2>2 DEF OursDarwin
      <3>2. Desired' = Desired /\ todo \subseteq Desired /\ todo' = todo \ {s} /\ pc' = "write"
        BY <2>1, <2>2 DEF GoOn, DarwinHeld, Desired
      <3>3. OursDarwin' \subseteq stray' \union written' \union (Desired' \ todo')
        BY <2>1, <2>2, <3>1, <3>2 DEF Smooth
      <3> QED
        BY <1>0, <3>2, <3>3 DEF DarwinHeld
    <2>3. CASE Fails((Desired \ todo) \ written) /\ ReturnError /\ UNCHANGED file
      BY <2>1, <2>3 DEF Fails, ReturnError, DarwinHeld, OursDarwin
    <2> QED
      BY <1>3, <2>2, <2>3 DEF WriteOne
  <1>4. CASE Written
    BY <1>4 DEF Written, GoOn, Smooth, darwinVars, DarwinHeld, OursDarwin, Desired
  <1>5. CASE RemoveOne
    <2>1. PICK s \in todo : RemoveIfOurs(s) /\ GoOn(pc, todo \ {s})
      BY <1>5 DEF RemoveOne
    <2>0. file = [t \in Suffixes |-> file[t]]
      BY DEF DarwinHeld
    <2>2. OursDarwin' \subseteq OursDarwin /\ stray \subseteq stray'
      BY <2>0, <2>1 DEF RemoveIfOurs, OursDarwin, NoFile, Smooth, Fails
    <2>3. s \notin OursDarwin' \/ s \in stray'
      BY <2>0, <2>1 DEF RemoveIfOurs, OursDarwin, NoFile, Smooth, Fails
    <2>4. /\ OursDarwin \subseteq stray \union todo => OursDarwin' \subseteq stray' \union todo'
          /\ OursDarwin \subseteq stray \union todo \union Desired =>
                OursDarwin' \subseteq stray' \union todo' \union Desired
      BY <2>1, <2>2, <2>3 DEF GoOn
    <2>5. Desired' = Desired /\ pc' = pc /\ pc \in {"prune", "drop", "remove", "sweep"}
      BY <1>5, <2>1 DEF RemoveOne, GoOn, Desired
    <2>6. CASE pc = "prune"
      BY <1>0, <2>4, <2>5, <2>6 DEF DarwinHeld
    <2>7. CASE pc \in {"drop", "remove", "sweep"}
      BY <1>0, <2>4, <2>5, <2>7 DEF DarwinHeld
    <2> QED
      BY <2>5, <2>6, <2>7
  <1>6. CASE Updated
    BY <1>6 DEF Updated, ReturnOk, DarwinHeld, OursDarwin, Driving
  <1>7. CASE Clear
    BY <1>7 DEF Clear, Remove, GoOn, Smooth, DarwinHeld, OursDarwin
  <1>8. CASE Cleared \/ Swept
    BY <1>8 DEF Cleared, Swept, Reverted, CleanedUp, Smooth, darwinVars, DarwinHeld, OursDarwin
  <1>9. CASE Scan
    BY <1>9 DEF Scan, GoOn, Fails, DarwinHeld, OursDarwin
  <1>10. CASE DarwinKilled
    BY <1>10 DEF DarwinKilled, Killed, DarwinHeld
  <1>11. CASE OtherTool
    <2>1. OursDarwin' \subseteq OursDarwin
      BY <1>11 DEF OtherTool, OursDarwin
    <2> QED
      BY <1>11, <2>1 DEF OtherTool, DarwinHeld, Desired
  <1> QED
    BY <1>0, <1>1, <1>2, <1>3, <1>4, <1>5, <1>6, <1>7, <1>8, <1>9, <1>10, <1>11 DEF DarwinNext

-----------------------------------------------------------------------------
(* Linux *)

LEMMA ViewTyped ==
    ASSUME Driving
    PROVE  [by |-> "azvpn", view |-> View(want)] \in Rendered
  <1>1. want.suffixes \in Seq(Name) /\ want.servers \subseteq Servers
    BY DEF Driving
  <1>2. Names(want.suffixes) \subseteq Suffixes \union {Malformed}
    BY <1>1 DEF Names, Listed, Name
  <1>3. View(want) \subseteq (Suffixes \union {Malformed}) \X SUBSET Servers
    BY <1>1, <1>2 DEF View
  <1> QED
    BY <1>3 DEF Rendered

LEMMA LinuxStep ==
    ASSUME Driving, LinuxHeld, LinuxNext
    PROVE  LinuxHeld'
  <1>0. LinkHeld /\ ConfHeld /\ (backend # None => attempt)
    BY DEF LinuxHeld
  <1>1. CASE DnsDriver /\ UNCHANGED linuxVars
    BY <1>0, <1>1 DEF DnsDriver, Begin, ApplyDns, Teardown, StartUp, Smooth, Interference, linuxVars,
                      LinuxHeld, LinkHeld, ConfHeld
  <1>2. CASE DetectBackend
    BY <1>0, <1>2, LinuxAssumption DEF DetectBackend, GoOn, Smooth, LinuxHeld, LinkHeld, ConfHeld, Driving
  <1>3. CASE SetLinkDns
    <2>1. CASE ReturnError /\ Smooth /\ UNCHANGED linuxVars
      BY <1>0, <1>3, <2>1 DEF SetLinkDns, ReturnError, Smooth, linuxVars, LinuxHeld, LinkHeld, ConfHeld
    <2>2. CASE /\ ReturnError /\ Fails({}) /\ UNCHANGED setting
               /\ UNCHANGED <<backend, lastLink, backup, tun, conf, bakFile>>
      BY <1>0, <1>3, <2>2 DEF SetLinkDns, ReturnError, Fails, LinuxHeld, LinkHeld, ConfHeld
    <2>3. CASE /\ tun # None
               /\ setting' = [setting EXCEPT ![tun].servers = want.servers]
               /\ GoOn("domains", {tun}) /\ Smooth
               /\ UNCHANGED <<backend, lastLink, backup, tun, conf, bakFile>>
      <3>1. tun \in Links
        BY <1>0, <2>3 DEF LinkHeld
      <3>2. setting' = [l \in Links |-> setting'[l]] /\ \A l \in Links : l # tun => setting'[l] = setting[l]
        BY <1>0, <2>3 DEF LinkHeld
      <3>3. LinkHeld'
        BY <1>0, <1>3, <2>3, <3>1, <3>2 DEF SetLinkDns, GoOn, Smooth, LinkHeld
      <3> QED
        BY <1>0, <2>3, <3>3 DEF GoOn, Smooth, LinuxHeld, ConfHeld
    <2> QED
      BY <1>3, <2>1, <2>2, <2>3 DEF SetLinkDns, TunnelLink
  <1>4. CASE SetLinkDomains
    <2>1. PICK l \in Links : todo = {l}
      BY <1>0, <1>4 DEF SetLinkDomains, LinkHeld
    <2>2. /\ pc = "domains" /\ backend = "resolved" /\ attempt
          /\ UNCHANGED <<backend, backup, tun, conf, bakFile, attempt>> /\ pc' = "idle"
      BY <1>0, <1>4 DEF SetLinkDomains, LinkHeld, Driving, ReturnOk, ReturnError
    <2>3. CASE /\ l = tun /\ setting' = [setting EXCEPT ![l].domains = Listed(want.suffixes)]
               /\ Remember(l) /\ ReturnOk
      <3>1. setting' = [k \in Links |-> setting'[k]] /\ \A k \in Links : k # l => setting'[k] = setting[k]
        BY <1>0, <2>3 DEF LinkHeld
      <3>2. LinkHeld'
        BY <1>0, <2>2, <2>3, <3>1 DEF Remember, ReturnOk, LinkHeld
      <3> QED
        BY <1>0, <2>2, <2>3, <3>2 DEF ReturnOk, LinuxHeld, ConfHeld
    <2>4. CASE ReturnError /\ Fails(IF lastLink = l THEN {} ELSE {l}) /\ UNCHANGED <<setting, lastLink>>
      BY <1>0, <2>1, <2>2, <2>4 DEF Fails, LinuxHeld, LinkHeld, ConfHeld
    <2>5. CASE l # tun /\ ReturnError /\ Smooth /\ UNCHANGED <<setting, lastLink>>
      BY <1>0, <2>1, <2>2, <2>5 DEF Smooth, LinuxHeld, LinkHeld, ConfHeld
    <2> QED
      BY <1>4, <2>1, <2>3, <2>4, <2>5 DEF SetLinkDomains
  <1>5. CASE RevertLink
    <2>1. backup = None
      BY <1>0, <1>5 DEF RevertLink, ConfHeld
    <2>2. /\ pc' = "idle" /\ lastLink' = None /\ backend' = None
          /\ UNCHANGED <<backup, tun, conf, bakFile>> /\ stray \subseteq stray'
      BY <1>5 DEF RevertLink, Reverted, Smooth, Fails
    <2>3. setting' = [l \in Links |-> setting'[l]]
      BY <1>0, <1>5 DEF RevertLink, LinkHeld
    <2>4. \A l \in Links : setting'[l] # NoSetting => l = tun /\ l \in stray'
      <3> TAKE l \in Links
      <3>1. pc = "revert" /\ (setting[l] # NoSetting => l = tun /\ (l \in stray \/ l = lastLink))
        BY <1>0, <1>5 DEF RevertLink, LinkHeld
      <3>2. CASE setting' = setting /\ (lastLink = None \/ lastLink \in stray')
        BY <2>2, <3>1, <3>2, LinuxAssumption
      <3>3. CASE setting' = [setting EXCEPT ![lastLink] = NoSetting]
        <4>1. setting'[l] # NoSetting => l # lastLink /\ setting'[l] = setting[l]
          BY <1>0, <3>3 DEF LinkHeld
        <4> QED
          BY <2>2, <3>1, <4>1
      <3> QED
        BY <1>5, <3>2, <3>3 DEF RevertLink, Fails
    <2>5. LinkHeld'
      BY <1>0, <2>2, <2>3, <2>4 DEF LinkHeld
    <2> QED
      BY <1>0, <2>1, <2>2, <2>5 DEF LinuxHeld, ConfHeld
  <1>6. CASE Snapshot
    <2>1. UNCHANGED <<backend, lastLink, tun, setting, conf, attempt>> /\ stray \subseteq stray'
      BY <1>6 DEF Snapshot, GoOn, ReturnError, Smooth, Fails
    <2>2. pc' \in {"rewrite", "idle"} /\ pc = "install" /\ backend = "direct"
      BY <1>6 DEF Snapshot, GoOn, ReturnError
    <2>3. LinkHeld'
      BY <1>0, <2>1, <2>2 DEF LinkHeld
    <2>4. ConfHeld'
      <3>1. conf # None
        BY <1>0, LinuxAssumption DEF ConfHeld
      <3>2. \/ backup' = backup /\ (pc' = "rewrite" => backup # None)
            \/ backup' = conf /\ backup = None
        BY <1>6 DEF Snapshot, NeedsSnapshot, GoOn, ReturnError
      <3> QED
        BY <1>0, <2>1, <2>2, <3>1, <3>2 DEF ConfHeld
    <2> QED
      BY <1>0, <2>1, <2>3, <2>4 DEF LinuxHeld
  <1>7. CASE Rewrite
    <2>1. /\ UNCHANGED <<backend, lastLink, backup, tun, setting, attempt>> /\ stray \subseteq stray'
          /\ pc = "rewrite" /\ pc' = "idle"
      BY <1>7 DEF Rewrite, ReturnOk, ReturnError, Fails
    <2>2. conf' = conf \/ conf' = [by |-> "azvpn", view |-> View(want)]
      BY <1>7 DEF Rewrite
    <2>3. ConfHeld'
      BY <1>0, <2>1, <2>2, ViewTyped DEF ConfHeld
    <2> QED
      BY <1>0, <2>1, <2>3 DEF LinuxHeld, LinkHeld
  <1>8. CASE Restore
    <2>1. lastLink = None
      BY <1>0, <1>8 DEF Restore, LinkHeld
    <2>2. /\ pc' = "idle" /\ backup' = None /\ backend' = None /\ UNCHANGED <<lastLink, tun, setting>>
          /\ stray \subseteq stray'
      BY <1>8 DEF Restore, Reverted, Smooth, Fails
    <2>3. \/ backup = None /\ conf' = conf
          \/ backup # None /\ conf' = backup
          \/ conf' = conf /\ "resolv.conf" \in stray'
      BY <1>8 DEF Restore, Smooth, Fails
    <2>4. ConfHeld'
      BY <1>0, <2>2, <2>3 DEF ConfHeld
    <2>5. LinkHeld'
      BY <1>0, <1>8, <2>1, <2>2 DEF Restore, LinkHeld
    <2> QED
      BY <2>2, <2>4, <2>5 DEF LinuxHeld
  <1>9. CASE NothingToRevert \/ LinuxCleanup
    BY <1>0, <1>9 DEF NothingToRevert, LinuxCleanup, Reverted, CleanedUp, Smooth, linuxVars,
                      LinuxHeld, LinkHeld, ConfHeld
  <1>10. CASE LinuxKilled
    BY <1>0, <1>10 DEF LinuxKilled, Killed, LinuxHeld, LinkHeld, ConfHeld
  <1>11. CASE TunUp
    BY <1>0, <1>11, LinuxAssumption DEF TunUp, LinuxHeld, LinkHeld, ConfHeld
  <1>12. CASE TunDown
    <2>1. setting' = [l \in Links |-> setting'[l]] /\ \A l \in Links : setting'[l] = NoSetting
      BY <1>0, <1>12 DEF TunDown, LinkHeld
    <2>2. LinkHeld'
      BY <1>0, <1>12, <2>1 DEF TunDown, LinkHeld
    <2> QED
      BY <1>0, <1>12, <2>2 DEF TunDown, LinuxHeld, ConfHeld
  <1>13. CASE HostWrites
    <2>1. conf' \in Content /\ conf'.by # "azvpn"
      BY <1>13, LinuxAssumption DEF HostWrites, Content
    <2> QED
      BY <1>0, <1>13, <2>1 DEF HostWrites, LinuxHeld, LinkHeld, ConfHeld
  <1> QED
    BY <1>1, <1>2, <1>3, <1>4, <1>5, <1>6, <1>7, <1>8, <1>9, <1>10, <1>11, <1>12, <1>13 DEF LinuxNext

-----------------------------------------------------------------------------
(* Windows *)

LEMMA ChunksTyped == Driving => Chunks(want.suffixes) \in Nat
  <1> SUFFICES ASSUME Driving PROVE Chunks(want.suffixes) \in Nat
    OBVIOUS
  <1>1. Len(want.suffixes) \in Nat
    BY DEF Driving
  <1>2. MaxDomains \in Nat \ {0} /\ Len(want.suffixes) + MaxDomains - 1 \in Nat
    BY <1>1, WindowsAssumption
  <1>3. \A m \in Nat, d \in Nat \ {0} : m \div d \in Nat
    OBVIOUS
  <1> QED
    BY <1>2, <1>3 DEF Chunks

\* A function on 1 .. n is a sequence of its values.
LEMMA ListOf ==
    ASSUME NEW n \in Nat, NEW S, NEW f \in [1 .. n -> S]
    PROVE  f \in Seq(S) /\ Len(f) = n /\ DOMAIN f = 1 .. n
  OBVIOUS

\* The identifiers assigned are the recorded ones that are not surplus, and others.
LEMMA AssignedFacts ==
    ASSUME NEW n \in Nat, owned \in Seq(Recorded)
    PROVE  LET ids == {Assigned(n)[i] : i \in DOMAIN Assigned(n)} IN
           /\ Assigned(n) \in Seq(ids) /\ Len(Assigned(n)) = n /\ DOMAIN Assigned(n) = 1 .. n
           /\ Recorded \subseteq Surplus(n) \union ids
  <1> DEFINE ids == {Assigned(n)[i] : i \in DOMAIN Assigned(n)}
  <1>1. Assigned(n) = [i \in 1 .. n |-> Assigned(n)[i]] /\ DOMAIN Assigned(n) = 1 .. n
    BY DEF Assigned
  <1>2. Assigned(n) \in [1 .. n -> ids]
    BY <1>1
  <1>3. Assigned(n) \in Seq(ids) /\ Len(Assigned(n)) = n
    BY <1>2, ListOf
  <1>4. ASSUME NEW i \in DOMAIN owned PROVE owned[i] \in Surplus(n) \union ids
    <2>1. DOMAIN owned = 1 .. Len(owned) /\ Len(owned) \in Nat
      OBVIOUS
    <2>2. CASE i > n
      BY <2>2 DEF Surplus
    <2>3. CASE ~(i > n)
      <3>1. i \in 1 .. n /\ i <= Len(owned)
        BY <2>1, <2>3
      <3>2. Assigned(n)[i] = owned[i]
        BY <3>1 DEF Assigned
      <3> QED
        BY <1>1, <3>1, <3>2
    <2> QED
      BY <2>2, <2>3
  <1>5. Recorded \subseteq Surplus(n) \union ids
    BY <1>4 DEF Recorded
  <1> QED
    BY <1>1, <1>3, <1>5

\* The writes carry the identifiers, in any mode.
LEMMA WritesTyped ==
    ASSUME NEW n \in Nat, NEW ids, Len(ids) = n, DOMAIN ids = 1 .. n, NEW mirror
    PROVE  WritesOf(ids, mirror) \in
             Seq([table : {"local", "policy"},
                  rule : [id : {ids[i] : i \in DOMAIN ids}, view : {ChunkView(i) : i \in Nat}]])
  <1> DEFINE Ws == [table : {"local", "policy"},
                    rule : [id : {ids[i] : i \in DOMAIN ids}, view : {ChunkView(i) : i \in Nat}]]
             rule(i) == [id |-> ids[i], view |-> ChunkView(i)]
             mirrored == [k \in 1 .. 2 * n |-> [table |-> IF k % 2 = 1 THEN "local" ELSE "policy",
                                               rule |-> rule((k + 1) \div 2)]]
             plain == [k \in 1 .. n |-> [table |-> "local", rule |-> rule(k)]]
  <1>1. \A k \in 1 .. 2 * n : (k + 1) \div 2 \in 1 .. n
    OBVIOUS
  <1>2. \A i \in 1 .. n : rule(i) \in [id : {ids[j] : j \in DOMAIN ids}, view : {ChunkView(j) : j \in Nat}]
    OBVIOUS
  <1>3. \A k \in 1 .. 2 * n : rule((k + 1) \div 2) \in
            [id : {ids[j] : j \in DOMAIN ids}, view : {ChunkView(j) : j \in Nat}]
    BY <1>1, <1>2
  <1> HIDE DEF rule
  <1>4. mirrored \in [1 .. 2 * n -> Ws]
    BY <1>3
  <1>5. plain \in [1 .. n -> Ws]
    BY <1>2
  <1>6. mirrored \in Seq(Ws)
    <2>1. 2 * n \in Nat
      OBVIOUS
    <2> HIDE DEF mirrored, Ws
    <2> QED
      BY <1>4, <2>1, ListOf
  <1>7. plain \in Seq(Ws)
    <2> HIDE DEF plain, Ws
    <2> QED
      BY <1>5, ListOf
  <1>8. WritesOf(ids, mirror) = IF mirror THEN mirrored ELSE plain
    BY DEF WritesOf, rule
  <1> HIDE DEF mirrored, plain, Ws
  <1>9. WritesOf(ids, mirror) \in Seq(Ws)
    BY <1>6, <1>7, <1>8
  <1> QED
    BY <1>9 DEF Ws

\* A rule that is written adds its identifier to a table.
LEMMA PutIds ==
    ASSUME NEW table, NEW rule
    PROVE  Ids(Put(table, rule)) \subseteq Ids(table) \union {rule.id}
  BY DEF Ids, Put

LEMMA EmptyList == \A S : <<>> \in Seq(S)
  OBVIOUS

LEMMA WindowsInstall ==
    ASSUME Driving, WindowsHeld, Install
    PROVE  WindowsHeld'
  <1>1. pc = "install" /\ attempt /\ OursWindows \subseteq stray \union Recorded
    BY DEF Install, Driving, WindowsHeld, InReach
  <1>2. UNCHANGED <<local, policy, owned>> /\ OursWindows' = OursWindows /\ Recorded' = Recorded
    BY DEF Install, windowsVars, OursWindows, Recorded
  <1>3. stray \subseteq stray'
    BY DEF Install, Smooth, Fails
  <1>4. CASE ReturnError /\ UNCHANGED windowsVars
    <2>1. pc' = "idle" /\ attempt' = attempt /\ writes' = <<>> /\ newIds' = newIds
      BY <1>1, <1>4 DEF ReturnError, windowsVars, WindowsHeld
    <2>2. NewIds' = NewIds /\ InReach' = Recorded
      BY <1>1, <1>2, <2>1 DEF NewIds, InReach
    <2> QED
      BY <1>1, <1>2, <1>3, <2>1, <2>2, EmptyList DEF WindowsHeld
  <1>5. ASSUME NEW probed \in BOOLEAN,
               newIds' = Assigned(Chunks(want.suffixes)),
               writes' = WritesOf(Assigned(Chunks(want.suffixes)), probed /\ Mirror),
               GoOn("surplus", Surplus(Chunks(want.suffixes)))
        PROVE  WindowsHeld'
    <2> DEFINE n == Chunks(want.suffixes)
               ids == {Assigned(n)[i] : i \in DOMAIN Assigned(n)}
    <2>1. n \in Nat
      BY ChunksTyped
    <2> HIDE DEF n
    <2>2. /\ Assigned(n) \in Seq(ids) /\ Len(Assigned(n)) = n /\ DOMAIN Assigned(n) = 1 .. n
          /\ Recorded \subseteq Surplus(n) \union ids
      BY <2>1, AssignedFacts DEF WindowsHeld
    <2>3. NewIds' = ids /\ newIds' \in Seq(ids)
      BY <1>5, <2>2 DEF NewIds, n
    <2>4. pc' = "surplus" /\ todo' = Surplus(n) /\ want' = want
      BY <1>5 DEF GoOn, n
    <2>5. WritesOf(Assigned(n), probed /\ Mirror) \in
             Seq([table : {"local", "policy"},
                  rule : [id : ids, view : {ChunkView(i) : i \in Nat}]])
      BY <2>1, <2>2, WritesTyped
    <2>6. Writing' = [table : {"local", "policy"}, rule : [id : ids, view : {ChunkView(i) : i \in Nat}]]
      BY <2>3, <2>4 DEF Writing, ChunkView
    <2>7. writes' \in Seq(Writing')
      BY <1>5, <2>5, <2>6 DEF n
    <2>8. InReach' = Surplus(n) \union ids
      BY <2>3, <2>4 DEF InReach
    <2>9. OursWindows' \subseteq stray' \union InReach'
      BY <1>1, <1>2, <1>3, <2>2, <2>8
    <2>10. owned' \in Seq(Recorded')
      BY <1>2 DEF WindowsHeld
    <2> QED
      BY <2>3, <2>4, <2>7, <2>9, <2>10 DEF WindowsHeld
  <1> QED
    BY <1>4, <1>5 DEF Install

\* When the writes are done or given up, only the record changes.
LEMMA WindowsLists ==
    ASSUME WindowsHeld, owned' \in {owned, newIds, <<>>}, newIds' \in {newIds, <<>>}, writes' = <<>>
    PROVE  owned' \in Seq(Recorded') /\ newIds' \in Seq(NewIds') /\ writes' \in Seq(Writing')
  <1>1. ASSUME owned' = owned PROVE owned' \in Seq(Recorded')
    BY <1>1 DEF WindowsHeld, Recorded
  <1>2. ASSUME owned' = newIds PROVE owned' \in Seq(Recorded')
    BY <1>2 DEF WindowsHeld, Recorded, NewIds
  <1>3. owned' \in Seq(Recorded')
    BY <1>1, <1>2, EmptyList
  <1>4. ASSUME newIds' = newIds PROVE newIds' \in Seq(NewIds')
    BY <1>4 DEF WindowsHeld, NewIds
  <1>5. newIds' \in Seq(NewIds')
    BY <1>4, EmptyList
  <1> QED
    BY <1>3, <1>5, EmptyList

LEMMA WindowsDelete ==
    ASSUME WindowsHeld, DeleteOne
    PROVE  WindowsHeld'
  <1>1. PICK id \in todo : DeleteRule(id) /\ GoOn(pc, todo \ {id})
    BY DEF DeleteOne
  <1>2. UNCHANGED <<owned, writes, newIds, want, pc>> /\ todo' = todo \ {id}
    BY <1>1 DEF DeleteOne, GoOn
  <1>3. OursWindows' \subseteq OursWindows /\ stray \subseteq stray'
    BY <1>1 DEF DeleteRule, OursWindows, Ids, Smooth, Fails
  <1>4. id \notin OursWindows' \/ id \in stray'
    BY <1>1 DEF DeleteRule, OursWindows, Ids, Smooth, Fails
  <1>5. Recorded' = Recorded /\ NewIds' = NewIds /\ Writing' = Writing
    BY <1>2 DEF Recorded, NewIds, Writing, ChunkView
  <1>6. InReach \subseteq InReach' \union {id}
    BY <1>2, <1>5 DEF DeleteOne, InReach
  <1>7. OursWindows' \subseteq stray' \union InReach'
    BY <1>3, <1>4, <1>6 DEF WindowsHeld
  <1> QED
    BY <1>2, <1>5, <1>7 DEF WindowsHeld

LEMMA WindowsWrite ==
    ASSUME Driving, WindowsHeld, WriteRule
    PROVE  WindowsHeld'
  <1> DEFINE w == Head(writes)
  <1>1. pc = "surplus" /\ todo = {} /\ writes # <<>> /\ owned' = owned /\ Recorded' = Recorded /\ attempt
    BY DEF WriteRule, Recorded, Driving
  <1>2. /\ w \in Writing /\ w.rule.id \in NewIds /\ Tail(writes) \in Seq(Writing)
    <2>1. writes \in Seq(Writing)
      BY DEF WindowsHeld
    <2>2. w \in Writing /\ Tail(writes) \in Seq(Writing)
      BY <1>1, <2>1
    <2> QED
      BY <2>2 DEF Writing
  <1>3. OursWindows' \subseteq OursWindows \union {w.rule.id}
    <2>1. \/ local' = Put(local, w.rule) /\ policy' = policy
          \/ policy' = Put(policy, w.rule) /\ local' = local
          \/ UNCHANGED <<local, policy>>
      BY DEF WriteRule
    <2> QED
      BY <2>1, PutIds DEF OursWindows
  <1> HIDE DEF w
  <1>4. CASE GoOn("surplus", {}) /\ Smooth /\ writes' = Tail(writes)
    <2>1. pc' = "surplus" /\ todo' = {} /\ want' = want /\ stray' = stray
      BY <1>4 DEF GoOn, Smooth
    <2>2. newIds' = newIds
      BY <2>1 DEF WriteRule
    <2>3. NewIds' = NewIds /\ Writing' = Writing
      BY <2>1, <2>2 DEF NewIds, Writing, ChunkView
    <2>4. InReach = NewIds /\ InReach' = NewIds
      BY <1>1, <2>1, <2>3 DEF InReach
    <2>5. OursWindows' \subseteq stray' \union InReach'
      BY <1>2, <1>3, <2>1, <2>4 DEF WindowsHeld
    <2> QED
      BY <1>1, <1>2, <1>4, <2>1, <2>2, <2>3, <2>5 DEF WindowsHeld
  <1>5. CASE /\ ReturnError /\ Fails((OursWindows \union {w.rule.id}) \ Recorded) /\ writes' = <<>>
    <2>1. pc' = "idle" /\ attempt' = attempt /\ newIds' = <<>>
      BY <1>5 DEF ReturnError, WriteRule
    <2>2. InReach' = Recorded
      BY <1>1, <2>1 DEF InReach
    <2>3. OursWindows' \subseteq stray' \union InReach'
      BY <1>3, <1>5, <2>2 DEF Fails
    <2>4. owned' \in Seq(Recorded') /\ newIds' \in Seq(NewIds') /\ writes' \in Seq(Writing')
      BY <1>1, <1>5, <2>1, WindowsLists
    <2> QED
      BY <1>5, <2>3, <2>4 DEF WindowsHeld
  <1> QED
    BY <1>4, <1>5 DEF WriteRule, w

LEMMA WindowsStep ==
    ASSUME Driving, WindowsHeld, WindowsNext
    PROVE  WindowsHeld'
  <1>1. CASE DnsDriver /\ UNCHANGED windowsVars
    <2>1. pc # "surplus" /\ pc' # "surplus" /\ writes' = <<>>
      BY <1>1 DEF DnsDriver, Begin, ApplyDns, Teardown, StartUp, windowsVars, WindowsHeld
    <2>2. UNCHANGED <<owned, newIds, local, policy>> /\ OursWindows' = OursWindows /\ Recorded' = Recorded
      BY <1>1 DEF windowsVars, OursWindows, Recorded
    <2>3. stray' = stray
      BY <1>1 DEF DnsDriver, Begin, ApplyDns, Teardown, StartUp, Smooth
    <2>4. InReach \subseteq InReach'
      BY <1>1, <2>2 DEF DnsDriver, Begin, ApplyDns, Teardown, StartUp, InReach
    <2>5. owned' \in Seq(Recorded') /\ newIds' \in Seq(NewIds') /\ writes' \in Seq(Writing')
      BY <2>1, <2>2, WindowsLists
    <2> QED
      BY <2>1, <2>2, <2>3, <2>4, <2>5 DEF WindowsHeld
  <1>2. CASE Install
    BY <1>2, WindowsInstall
  <1>3. CASE DeleteOne
    BY <1>3, WindowsDelete
  <1>4. CASE WriteRule
    BY <1>4, WindowsWrite
  <1>5. CASE SaveIds
    <2>1. /\ pc' = "idle" /\ attempt' = attempt /\ newIds' = <<>> /\ writes' = <<>> /\ pc = "surplus"
          /\ todo = {} /\ attempt /\ OursWindows' = OursWindows
      BY <1>5 DEF SaveIds, ReturnOk, ReturnError, Driving, OursWindows
    <2>2. InReach' = Recorded' /\ InReach = NewIds
      BY <2>1 DEF InReach
    <2>3. CASE owned' = newIds /\ ReturnOk
      <3>1. Recorded' = NewIds /\ stray' = stray
        BY <2>3 DEF Recorded, NewIds, ReturnOk
      <3>2. owned' \in Seq(Recorded') /\ newIds' \in Seq(NewIds') /\ writes' \in Seq(Writing')
        BY <2>1, <2>3, WindowsLists
      <3> QED
        BY <2>1, <2>2, <3>1, <3>2 DEF WindowsHeld
    <2>4. CASE ReturnError /\ Fails(OursWindows \ Recorded) /\ UNCHANGED owned
      <3>1. Recorded' = Recorded /\ OursWindows \subseteq stray' \union Recorded
        BY <2>4 DEF Recorded, Fails
      <3>2. owned' \in Seq(Recorded') /\ newIds' \in Seq(NewIds') /\ writes' \in Seq(Writing')
        BY <2>1, <2>4, WindowsLists
      <3> QED
        BY <2>1, <2>2, <3>1, <3>2 DEF WindowsHeld
    <2> QED
      BY <1>5, <2>3, <2>4 DEF SaveIds
  <1>6. CASE ClearRules
    <2>1. /\ pc \in {"revert", "cleanup"} /\ UNCHANGED <<owned, writes, newIds>>
          /\ OursWindows' = OursWindows /\ writes' = <<>> /\ InReach = Recorded
      BY <1>6 DEF ClearRules, OursWindows, WindowsHeld, InReach
    <2>2. owned' \in Seq(Recorded') /\ newIds' \in Seq(NewIds') /\ writes' \in Seq(Writing')
      BY <2>1, WindowsLists
    <2>3. CASE GoOn(IF pc = "revert" THEN "clear" ELSE "clearOrphans", ClearedIds) /\ Smooth
      <3>1. pc' \in {"clear", "clearOrphans"} /\ todo' = Recorded /\ stray' = stray
        BY <2>3 DEF GoOn, Smooth, ClearedIds
      <3>2. InReach' = Recorded
        BY <3>1 DEF InReach
      <3> QED
        BY <2>1, <2>2, <3>1, <3>2 DEF WindowsHeld
    <2>4. CASE Finish /\ Fails(OursWindows)
      <3>1. pc' = "idle" /\ OursWindows \subseteq stray'
        BY <2>4 DEF Finish, Reverted, CleanedUp, Fails
      <3> QED
        BY <2>1, <2>2, <3>1 DEF WindowsHeld
    <2> QED
      BY <1>6, <2>3, <2>4 DEF ClearRules
  <1>7. CASE SaveNoIds
    <2>1. /\ pc \in {"clear", "clearOrphans"} /\ todo = {} /\ UNCHANGED <<writes, newIds>>
          /\ OursWindows' = OursWindows /\ writes' = <<>> /\ owned' \in {owned, <<>>}
          /\ pc' # "surplus" /\ stray \subseteq stray'
      BY <1>7 DEF SaveNoIds, OursWindows, WindowsHeld, Finish, GoOn, Reverted, CleanedUp, Smooth, Fails
    <2>2. OursWindows \subseteq stray
      BY <2>1 DEF WindowsHeld, InReach
    <2>3. owned' \in Seq(Recorded') /\ newIds' \in Seq(NewIds') /\ writes' \in Seq(Writing')
      BY <2>1, WindowsLists
    <2> QED
      BY <2>1, <2>2, <2>3 DEF WindowsHeld
  <1>8. CASE DropPolicyKey
    <2>1. /\ pc \in {"dropKey", "dropOrphanKey"} /\ UNCHANGED <<writes, newIds, owned>>
          /\ OursWindows' \subseteq OursWindows /\ writes' = <<>>
          /\ pc' # "surplus" /\ stray \subseteq stray'
      BY <1>8 DEF DropPolicyKey, OursWindows, Ids, WindowsHeld, Finish, Reverted, CleanedUp, Smooth, Fails
    <2>2. OursWindows \subseteq stray
      BY <2>1 DEF WindowsHeld, InReach
    <2>3. owned' \in Seq(Recorded') /\ newIds' \in Seq(NewIds') /\ writes' \in Seq(Writing')
      BY <2>1, WindowsLists
    <2> QED
      BY <2>1, <2>2, <2>3 DEF WindowsHeld
  <1>9. CASE WindowsKilled
    <2>1. /\ pc' = "dead" /\ writes' = <<>> /\ newIds' = <<>> /\ owned' = owned
          /\ OursWindows' = OursWindows /\ Recorded' = Recorded
          /\ OursWindows \subseteq stray' \union Recorded
      BY <1>9 DEF WindowsKilled, Killed, OursWindows, Recorded
    <2>2. InReach' = Recorded
      BY <2>1 DEF InReach
    <2>3. owned' \in Seq(Recorded') /\ newIds' \in Seq(NewIds') /\ writes' \in Seq(Writing')
      BY <2>1, WindowsLists
    <2> QED
      BY <2>1, <2>2, <2>3 DEF WindowsHeld
  <1>10. CASE GpoChanges
    <2>1. UNCHANGED <<pc, attempt, want, todo, stray, local, policy, owned, writes, newIds>>
      BY <1>10 DEF GpoChanges
    <2>2. /\ OursWindows' = OursWindows /\ Recorded' = Recorded /\ NewIds' = NewIds /\ Writing' = Writing
      BY <2>1 DEF OursWindows, Recorded, NewIds, Writing, ChunkView
    <2>3. InReach' = InReach
      BY <2>1, <2>2 DEF InReach
    <2> QED
      BY <2>1, <2>2, <2>3 DEF WindowsHeld
  <1> QED
    BY <1>1, <1>2, <1>3, <1>4, <1>5, <1>6, <1>7, <1>8, <1>9, <1>10 DEF WindowsNext

-----------------------------------------------------------------------------
(* The theorems *)

LEMMA InvInit == Init => Inv
  <1> SUFFICES ASSUME Init PROVE Inv
    OBVIOUS
  <1>1. Driving
    <2>1. /\ profile.suffixes \in {<<>>, <<Blank>>} \union {<<s>> : s \in Suffixes}
          /\ profile.servers \subseteq Servers
      BY DEF Init, DnsInit, ServerList
    <2>2. <<>> \in Seq(Name) /\ <<Blank>> \in Seq(Name) /\ \A s \in Suffixes : <<s>> \in Seq(Name)
      BY DEF Name
    <2>3. want.suffixes = <<>> /\ want.servers = {} /\ pc = "idle" /\ attempt = FALSE
      BY DEF Init, DnsInit, NoRequest
    <2> QED
      BY <2>1, <2>2, <2>3 DEF Driving
  <1>2. ASSUME platform = "macos" PROVE DarwinHeld
    BY <1>2 DEF Init, DnsInit, DarwinInit, DarwinHeld, OursDarwin
  <1>3. ASSUME platform = "linux" PROVE LinuxHeld
    <2>1. LinuxInit /\ pc = "idle"
      BY <1>3 DEF Init, DnsInit
    <2>2. conf \in Content /\ conf.by # "azvpn"
      BY <2>1, LinuxAssumption DEF LinuxInit, Content
    <2> QED
      BY <2>1, <2>2 DEF LinuxInit, LinuxHeld, LinkHeld, ConfHeld
  <1>4. ASSUME platform = "windows" PROVE WindowsHeld
    <2>1. local = {} /\ policy = {} /\ owned = <<>> /\ writes = <<>> /\ newIds = <<>>
      BY <1>4 DEF Init, WindowsInit
    <2>2. OursWindows = {}
      BY <2>1 DEF OursWindows, Ids
    <2> QED
      BY <2>1, <2>2, EmptyList DEF WindowsHeld
  <1> QED
    BY <1>1, <1>2, <1>3, <1>4 DEF Inv, Held

LEMMA InvNext == Inv /\ [Next]_vars => Inv'
  <1> SUFFICES ASSUME Inv, [Next]_vars PROVE Inv'
    OBVIOUS
  <1>0. Driving /\ Held
    BY DEF Inv
  <1>1. CASE platform = "macos" /\ DarwinNext
    <2>1. Moves /\ DarwinHeld'
      BY <1>0, <1>1, DarwinMoves, DarwinStep DEF Held
    <2> QED
      BY <1>0, <1>1, <2>1, DrivingStep DEF Inv, Held, Moves
  <1>2. CASE platform = "linux" /\ LinuxNext
    <2>1. Moves /\ LinuxHeld'
      BY <1>0, <1>2, LinuxMoves, LinuxStep DEF Held
    <2> QED
      BY <1>0, <1>2, <2>1, DrivingStep DEF Inv, Held, Moves
  <1>3. CASE platform = "windows" /\ WindowsNext
    <2>1. Moves /\ WindowsHeld'
      BY <1>0, <1>3, WindowsMoves, WindowsStep DEF Held
    <2> QED
      BY <1>0, <1>3, <2>1, DrivingStep DEF Inv, Held, Moves
  <1>4. CASE UNCHANGED vars
    <2>1. Driving' /\ platform' = platform
      BY <1>0, <1>4 DEF vars, dnsVars, Driving
    <2>2. DarwinHeld => DarwinHeld'
      BY <1>4 DEF vars, dnsVars, darwinVars, DarwinHeld, OursDarwin, Desired
    <2>3. LinuxHeld => LinuxHeld'
      BY <1>4 DEF vars, dnsVars, linuxVars, LinuxHeld, LinkHeld, ConfHeld
    <2>4. WindowsHeld => WindowsHeld'
      BY <1>4 DEF vars, dnsVars, windowsVars, WindowsHeld, Recorded, NewIds, Writing, ChunkView,
                  OursWindows, InReach
    <2> QED
      BY <1>0, <2>1, <2>2, <2>3, <2>4 DEF Inv, Held
  <1> QED
    BY <1>1, <1>2, <1>3, <1>4 DEF Next

Known == platform \in {"linux", "macos", "windows"}

LEMMA PlatformKnown == Spec => []Known
  <1>1. Init => Known
    BY DnsAssumption DEF Init, DnsInit, Known
  <1>2. Known /\ [Next]_vars => Known'
    BY DarwinMoves, LinuxMoves, WindowsMoves DEF Next, vars, dnsVars, Moves, Known
  <1> QED
    BY <1>1, <1>2, PTL DEF Spec

\* Between attempts nothing of ours is left in /etc/resolver, on a link, in
\* resolv.conf or in the policy table, but what a failed call or a crash has
\* put out of the managers' reach: for any sequence of applies, updates and
\* clears, with other tools and the host writing in between.
THEOREM NothingLeftCorrect == Spec => []NothingLeftBehind
  <1>1. ASSUME Inv, Known
        PROVE  NothingLeftBehind
    <2> SUFFICES ASSUME pc = "idle", ~attempt
                 PROVE  Ours \subseteq stray
      BY DEF NothingLeftBehind
    <2>1. CASE platform = "macos"
      BY <1>1, <2>1 DEF Inv, Held, DarwinHeld, Ours
    <2>2. CASE platform = "linux"
      <3>1. LinkHeld /\ ConfHeld /\ backend = None
        BY <1>1, <2>2 DEF Inv, Held, LinuxHeld
      <3>2. lastLink = None /\ backup = None
        BY <3>1, LinuxAssumption DEF LinkHeld, ConfHeld
      <3>3. OursLinux \subseteq stray
        BY <3>1, <3>2, LinuxAssumption DEF LinkHeld, ConfHeld, OursLinux
      <3> QED
        BY <2>2, <3>3 DEF Ours
    <2>3. CASE platform = "windows"
      <3>1. InReach = {}
        BY DEF InReach
      <3> QED
        BY <1>1, <2>3, <3>1 DEF Inv, Held, WindowsHeld, Ours
    <2> QED
      BY <1>1, <2>1, <2>2, <2>3 DEF Known
  <1> QED
    BY <1>1, InvInit, InvNext, PlatformKnown, PTL DEF Spec

LEMMA SparedStep == Inv /\ Spared /\ [Next]_vars => Spared'
  <1> SUFFICES ASSUME Inv, Spared, [Next]_vars PROVE Spared'
    OBVIOUS
  <1>1. CASE platform = "macos" /\ DarwinNext
    <2>1. platform' = "macos"
      BY <1>1, DarwinMoves DEF Moves
    <2>2. kept \subseteq Foreign /\ (pc = "write" => todo \intersect kept = {})
      BY <1>1 DEF Spared
    <2>3. CASE DnsDriver /\ UNCHANGED darwinVars
      BY <2>1, <2>2, <2>3 DEF DnsDriver, Begin, ApplyDns, Teardown, StartUp, darwinVars, Spared, Foreign
    <2>4. CASE Update
      BY <2>1, <2>2, <2>4 DEF Update, CheckWritable, Remove, GoOn, ReturnError, darwinVars, Spared, Foreign
    <2>5. CASE WriteOne
      <3>1. ASSUME NEW s \in todo,
                   file' = [file EXCEPT ![s] = [who |-> "azvpn", servers |-> want.servers]],
                   GoOn("write", todo \ {s}), kept' = kept
            PROVE  Spared'
        <4>1. s \notin kept /\ todo' = todo \ {s}
          BY <2>2, <2>5, <3>1 DEF WriteOne, GoOn
        <4>2. kept' \subseteq Foreign'
          BY <2>2, <3>1, <4>1 DEF Foreign
        <4> QED
          BY <2>1, <2>2, <2>5, <3>1, <4>1, <4>2 DEF WriteOne, Spared
      <3>2. ASSUME ReturnError, UNCHANGED <<file, kept>> PROVE Spared'
        BY <2>1, <2>2, <3>2 DEF ReturnError, Spared, Foreign
      <3> QED
        BY <2>5, <3>1, <3>2 DEF WriteOne
    <2>6. CASE RemoveOne
      <3>1. PICK s \in todo : RemoveIfOurs(s) /\ GoOn(pc, todo \ {s})
        BY <2>6 DEF RemoveOne
      <3>0. file = [t \in Suffixes |-> file[t]]
        BY <1>1 DEF Inv, Held, DarwinHeld
      <3>2. Foreign' = Foreign
        BY <3>0, <3>1 DEF RemoveIfOurs, Foreign, OursDarwin, NoFile
      <3> QED
        BY <2>1, <2>2, <2>6, <3>1, <3>2 DEF RemoveOne, GoOn, Spared
    <2>7. CASE Written \/ Updated \/ Clear \/ Cleared \/ Scan \/ Swept \/ DarwinKilled
      BY <2>1, <2>2, <2>7 DEF Written, Updated, Clear, Cleared, Scan, Swept, DarwinKilled, Remove, GoOn,
         ReturnOk, Reverted, CleanedUp, Killed, darwinVars, Spared, Foreign
    <2>8. CASE OtherTool
      BY <2>1, <2>2, <2>8 DEF OtherTool, Spared, Foreign
    <2> QED
      BY <1>1, <2>3, <2>4, <2>5, <2>6, <2>7, <2>8 DEF DarwinNext
  <1>2. CASE platform = "linux" /\ LinuxNext
    BY <1>2, LinuxMoves DEF Moves, Spared
  <1>3. CASE platform = "windows" /\ WindowsNext
    <2>1. platform' = "windows"
      BY <1>3, WindowsMoves DEF Moves
    <2>2. (gpoKept => gpo) /\ (pc \in {"dropKey", "dropOrphanKey"} => ~gpoKept)
      BY <1>3 DEF Spared
    <2>3. CASE DnsDriver /\ UNCHANGED windowsVars
      BY <2>1, <2>2, <2>3 DEF DnsDriver, Begin, ApplyDns, Teardown, StartUp, windowsVars, Spared
    <2>4. CASE Install
      BY <2>1, <2>2, <2>4 DEF Install, GoOn, ReturnError, windowsVars, Spared
    <2>5. CASE DeleteOne \/ WriteRule \/ SaveIds
      BY <2>1, <2>2, <2>5 DEF DeleteOne, WriteRule, SaveIds, GoOn, ReturnOk, ReturnError, Spared
    <2>6. CASE ClearRules \/ SaveNoIds \/ DropPolicyKey
      BY <2>1, <2>2, <2>6 DEF ClearRules, SaveNoIds, DropPolicyKey, PolicyEmpty, Finish, Reverted,
         CleanedUp, GoOn, Spared
    <2>7. CASE WindowsKilled \/ GpoChanges
      BY <2>1, <2>2, <2>7 DEF WindowsKilled, GpoChanges, Killed, Spared
    <2> QED
      BY <1>3, <2>3, <2>4, <2>5, <2>6, <2>7 DEF WindowsNext
  <1>4. CASE UNCHANGED vars
    BY <1>4 DEF vars, dnsVars, darwinVars, windowsVars, Spared, Foreign
  <1> QED
    BY <1>1, <1>2, <1>3, <1>4 DEF Next

\* What other tools put into the shared places before a call of ours is there
\* when it ends: resolver files without our first line, and the rules of a
\* group policy whose key the clear would drop.
THEOREM ForeignCorrect == Spec => []ForeignKept
  <1>1. Init => Spared
    BY DEF Init, DnsInit, DarwinInit, WindowsInit, Spared
  <1>2. Spared => ForeignKept
    BY DEF Spared, ForeignKept
  <1> QED
    BY <1>1, <1>2, InvInit, InvNext, SparedStep, PTL DEF Spec

-----------------------------------------------------------------------------
(* The state of the driver *)

Profile == [suffixes : {<<>>, <<Blank>>} \union {<<s>> : s \in Suffixes}, servers : ServerList]

DriverTyped == DnsTypeOK /\ profile \in Profile

\* What a step of any platform does to the report and to the histories.
Tells ==
    /\ reported' \in {reported, want, None}
    /\ quiet' = quiet \/ quiet' = TRUE \/ quiet' = FALSE
    /\ exact' = exact \/ exact' = quiet \/ exact' = FALSE
    /\ faults' = faults \/ (faults < MaxFaults /\ faults' = faults + 1)
    /\ crashes' = crashes \/ (crashes < MaxCrashes /\ crashes' = crashes + 1)

LEMMA DriverTells == DnsDriver => Tells
  BY DEF DnsDriver, Begin, ApplyDns, Teardown, StartUp, Smooth, Interference, Tells

LEMMA DarwinTells == DarwinNext => Tells
  <1> SUFFICES ASSUME DarwinNext PROVE Tells
    OBVIOUS
  <1> USE DEF Tells, Smooth, Fails, GoOn
  <1>1. CASE DnsDriver
    BY <1>1, DriverTells
  <1>2. CASE Update \/ WriteOne \/ Written
    BY <1>2 DEF Update, WriteOne, Written, Remove, ReturnError
  <1>3. CASE RemoveOne \/ Updated
    BY <1>3 DEF RemoveOne, RemoveIfOurs, Updated, ReturnOk
  <1>4. CASE Clear \/ Cleared \/ Scan \/ Swept
    BY <1>4 DEF Clear, Cleared, Scan, Swept, Remove, Reverted, CleanedUp
  <1>5. CASE DarwinKilled \/ OtherTool
    BY <1>5 DEF DarwinKilled, OtherTool, Killed, Interference
  <1> QED
    BY <1>1, <1>2, <1>3, <1>4, <1>5 DEF DarwinNext

LEMMA LinuxTells == LinuxNext => Tells
  <1> SUFFICES ASSUME LinuxNext PROVE Tells
    OBVIOUS
  <1> USE DEF Tells, Smooth, Fails, GoOn
  <1>1. CASE DnsDriver
    BY <1>1, DriverTells
  <1>2. CASE DetectBackend \/ SetLinkDns \/ Snapshot
    BY <1>2 DEF DetectBackend, SetLinkDns, Snapshot, ReturnError
  <1>3. CASE SetLinkDomains
    BY <1>3 DEF SetLinkDomains, ReturnError, ReturnOk
  <1>4. CASE Rewrite
    BY <1>4 DEF Rewrite, ReturnError, ReturnOk
  <1>5. CASE RevertLink \/ Restore \/ NothingToRevert \/ LinuxCleanup
    BY <1>5 DEF RevertLink, Restore, NothingToRevert, LinuxCleanup, Reverted, CleanedUp
  <1>6. CASE LinuxKilled \/ TunUp \/ TunDown \/ HostWrites
    BY <1>6 DEF LinuxKilled, TunUp, TunDown, HostWrites, Killed, Interference
  <1> QED
    BY <1>1, <1>2, <1>3, <1>4, <1>5, <1>6 DEF LinuxNext

LEMMA WindowsTells == WindowsNext => Tells
  <1> SUFFICES ASSUME WindowsNext PROVE Tells
    OBVIOUS
  <1> USE DEF Tells, Smooth, Fails, GoOn
  <1>1. CASE DnsDriver
    BY <1>1, DriverTells
  <1>2. CASE Install
    BY <1>2 DEF Install, ReturnError
  <1>3. CASE DeleteOne \/ WriteRule
    BY <1>3 DEF DeleteOne, DeleteRule, WriteRule, ReturnError
  <1>4. CASE SaveIds
    BY <1>4 DEF SaveIds, ReturnError, ReturnOk
  <1>5. CASE ClearRules \/ SaveNoIds \/ DropPolicyKey
    BY <1>5 DEF ClearRules, SaveNoIds, DropPolicyKey, Finish, Reverted, CleanedUp
  <1>6. CASE WindowsKilled \/ GpoChanges
    BY <1>6 DEF WindowsKilled, GpoChanges, Killed, Interference
  <1> QED
    BY <1>1, <1>2, <1>3, <1>4, <1>5, <1>6 DEF WindowsNext

\* What collect_dns_inputs puts together is a request.
LEMMA CollectTyped ==
    ASSUME profile \in Profile, NEW domain \in PushedDomain, NEW pushed \in ServerList
    PROVE  Collect(domain, pushed) \in Request
  <1> DEFINE Lists == UNION {[1 .. n -> Name] : n \in 0 .. 2}
  <1>1. \A n \in 0 .. 2 : [1 .. n -> Name] \subseteq Lists
    OBVIOUS
  <1>2. <<>> \in [1 .. 0 -> Name]
    OBVIOUS
  <1>3. \A s \in Name : <<s>> \in [1 .. 1 -> Name]
    OBVIOUS
  <1>5. profile.suffixes \in Lists
    <2>1. CASE profile.suffixes = <<>>
      BY <1>1, <1>2, <2>1
    <2>2. ASSUME NEW s \in Name, profile.suffixes = <<s>>
          PROVE  profile.suffixes \in Lists
      <3>1. <<s>> \in [1 .. 1 -> Name] /\ 1 \in 0 .. 2
        BY <1>3
      <3> QED
        BY <1>1, <2>2, <3>1
    <2> QED
      BY <2>1, <2>2 DEF Profile, Name
  <1>6. ASSUME domain # None PROVE Append(profile.suffixes, domain) \in Lists
    <2>1. domain \in Name
      BY <1>6 DEF PushedDomain, Name
    <2>2. CASE profile.suffixes = <<>>
      <3>1. Append(profile.suffixes, domain) = <<domain>>
        BY <2>2
      <3> QED
        BY <1>1, <1>3, <2>1, <3>1
    <2>3. ASSUME NEW s \in Name, profile.suffixes = <<s>>
          PROVE  Append(profile.suffixes, domain) \in Lists
      <3>1. <<s>> \in Seq(Name) /\ Len(<<s>>) = 1
        OBVIOUS
      <3>2. Append(<<s>>, domain) \in Seq(Name) /\ Len(Append(<<s>>, domain)) = 2
        BY <2>1, <3>1
      <3>3. Append(<<s>>, domain) \in [1 .. 2 -> Name]
        BY <3>2, LenProperties, Zenon
      <3> QED
        BY <1>1, <2>3, <3>3
    <2> QED
      BY <2>2, <2>3 DEF Profile, Name
  <1>7. profile.servers \in ServerList
    BY DEF Profile
  <1> QED
    BY <1>5, <1>6, <1>7 DEF Collect, Request

LEMMA DriverTypedStep == Known /\ DriverTyped /\ [Next]_vars => DriverTyped'
  <1> SUFFICES ASSUME Known, DriverTyped, [Next]_vars PROVE DriverTyped'
    OBVIOUS
  <1>1. CASE UNCHANGED vars
    BY <1>1, Zenon DEF vars, dnsVars, DriverTyped, DnsTypeOK
  <1>2. ASSUME Moves, Tells PROVE DriverTyped'
    <2>1. platform' = platform /\ profile' = profile
      BY <1>2 DEF Moves
    <2>2. NoRequest \in Request
      <3>1. <<>> \in [1 .. 0 -> Name]
        OBVIOUS
      <3>2. want.servers \in ServerList /\ {} \in ServerList
        BY FS_EmptySet, DnsAssumption DEF DriverTyped, DnsTypeOK, Request, ServerList
      <3> QED
        BY <3>1, <3>2 DEF NoRequest, Request
    <2>3. want' \in Request
      <3>1. ASSUME ApplyDns PROVE want' \in Request
        BY <3>1, CollectTyped DEF ApplyDns, DriverTyped
      <3> QED
        BY <1>2, <2>2, <3>1 DEF Moves, DriverTyped, DnsTypeOK
    <2>4. attempt' \in BOOLEAN
      <3>1. ApplyDns => attempt' = attempt
        BY DEF ApplyDns
      <3> QED
        BY <1>2, <3>1, Zenon DEF Moves, DriverTyped, DnsTypeOK
    <2>5. quiet' \in BOOLEAN /\ exact' \in BOOLEAN
      BY <1>2, Zenon DEF Tells, DriverTyped, DnsTypeOK
    <2>6. faults' \in 0 .. MaxFaults /\ crashes' \in 0 .. MaxCrashes
      BY <1>2, DnsAssumption DEF Tells, DriverTyped, DnsTypeOK
    <2>7. reported' \in Request \union {None}
      BY <1>2 DEF Tells, DriverTyped, DnsTypeOK
    <2> QED
      BY <2>1, <2>3, <2>4, <2>5, <2>6, <2>7, Zenon DEF DriverTyped, DnsTypeOK
  <1> QED
    BY <1>1, <1>2, DarwinMoves, LinuxMoves, WindowsMoves, DarwinTells, LinuxTells, WindowsTells DEF Next

-----------------------------------------------------------------------------
(* macOS: the resolver files and the report *)

Done(s) == file[s] = [who |-> "azvpn", servers |-> want.servers]

\* What has been written of the set has its servers, unless somebody
\* interfered, and what is pruned is not of the set.
DarwinExact ==
    /\ pc \in {"revert", "remove", "dead", "cleanup", "sweep"} => ~exact
    /\ pc \in {"idle", "install"} /\ exact /\ stray = {} => ResolverDarwin = View(reported)
    /\ pc \in {"write", "prune"} => Desired \subseteq Suffixes
    /\ pc = "write" /\ quiet => \A s \in Desired \ todo : Done(s)
    /\ pc = "prune" => todo \intersect Desired = {} /\ (quiet => \A s \in Desired : Done(s))
    /\ pc = "drop" => Desired = {}

LEMMA WantedView ==
    ASSUME DriverTyped
    PROVE  View(want) = Names(want.suffixes) \X {want.servers}
  BY RequestAssumption DEF DriverTyped, DnsTypeOK, View

LEMMA WantedAsked ==
    ASSUME DriverTyped
    PROVE  Asked(want) = Listed(want.suffixes) \X {want.servers}
  BY RequestAssumption DEF DriverTyped, DnsTypeOK, Asked

LEMMA DarwinTypedStep ==
    ASSUME Driving, DarwinHeld, DarwinExact, DarwinTypeOK, DarwinNext
    PROVE  DarwinTypeOK'
  <1>1. UNCHANGED darwinVars => DarwinTypeOK'
    BY DEF DarwinTypeOK, darwinVars
  <1>2. CASE WriteOne
    <2>1. ASSUME NEW s \in todo, file' = [file EXCEPT ![s] = [who |-> "azvpn", servers |-> want.servers]]
          PROVE  file' \in [Suffixes -> File]
      <3>1. [who |-> "azvpn", servers |-> want.servers] \in File
        BY DEF File, Driving
      <3> QED
        BY <2>1, <3>1 DEF DarwinTypeOK
    <2> QED
      BY <1>2, <2>1 DEF WriteOne, DarwinTypeOK
  <1>3. CASE RemoveOne
    <2>1. PICK s \in todo : RemoveIfOurs(s)
      BY <1>3 DEF RemoveOne
    <2>2. NoFile \in File
      BY DEF NoFile, File
    <2>3. file' \in [Suffixes -> File]
      BY <2>1, <2>2 DEF RemoveIfOurs, DarwinTypeOK
    <2> QED
      BY <1>3, <2>3 DEF RemoveOne, DarwinTypeOK
  <1>4. CASE OtherTool
    <2>1. file' \in [Suffixes -> File]
      BY <1>4 DEF OtherTool, DarwinTypeOK, File
    <2> QED
      BY <1>4, <2>1 DEF OtherTool, DarwinTypeOK
  <1>5. CASE Updated
    BY <1>5 DEF Updated, DarwinTypeOK, DarwinExact
  <1>6. CASE Update \/ Clear \/ Scan
    BY <1>1, <1>6 DEF Update, Clear, Scan, Remove, DarwinTypeOK, Foreign
  <1>7. CASE Written \/ Cleared \/ Swept \/ DarwinKilled
    BY <1>1, <1>7 DEF Written, Cleared, Swept, DarwinKilled, DarwinTypeOK
  <1> QED
    BY <1>1, <1>2, <1>3, <1>4, <1>5, <1>6, <1>7 DEF DarwinNext

LEMMA DarwinExactStep ==
    ASSUME Driving, DriverTyped, DarwinHeld, DarwinTypeOK, DarwinExact, DarwinNext
    PROVE  DarwinExact'
  <1>0. exact \in BOOLEAN /\ quiet \in BOOLEAN
    BY DEF DriverTyped, DnsTypeOK
  <1>1. CASE DnsDriver /\ UNCHANGED darwinVars
    BY <1>1 DEF DnsDriver, Begin, ApplyDns, Teardown, StartUp, Smooth, Interference, darwinVars,
                DarwinExact, ResolverDarwin, OursDarwin, View
  <1>2. CASE Update
    <2>1. UNCHANGED <<file, reported>>
      BY <1>2 DEF Update, Remove, ReturnError, GoOn, darwinVars
    <2>2. ResolverDarwin' = ResolverDarwin /\ View(reported)' = View(reported) /\ pc = "install"
      BY <1>2, <2>1 DEF Update, ResolverDarwin, OursDarwin, View
    <2>3. CASE ReturnError /\ Smooth
      BY <2>2, <2>3 DEF ReturnError, Smooth, DarwinExact
    <2>4. CASE ReturnError /\ Fails({})
      BY <2>2, <2>4 DEF ReturnError, Fails, DarwinExact
    <2>5. CASE Remove("drop") /\ Desired = {}
      BY <2>5 DEF Remove, GoOn, DarwinExact, Desired
    <2>6. CASE GoOn("write", Desired) /\ Malformed \notin Desired
      <3>1. Desired \subseteq Suffixes /\ Desired' = Desired
        BY <2>6 DEF GoOn, Desired, Names, Listed, Driving, Name
      <3> QED
        BY <2>6, <3>1 DEF GoOn, DarwinExact
    <2> QED
      BY <1>2, <2>3, <2>4, <2>5, <2>6 DEF Update
  <1>3. CASE WriteOne
    <2>1. ASSUME NEW s \in todo,
                 file' = [file EXCEPT ![s] = [who |-> "azvpn", servers |-> want.servers]],
                 GoOn("write", todo \ {s}), Smooth
          PROVE  DarwinExact'
      <3>1. pc = "write" /\ pc' = "write" /\ Desired' = Desired /\ todo' = todo \ {s} /\ want' = want
        BY <1>3, <2>1 DEF WriteOne, GoOn, Desired
      <3>2. Desired \subseteq Suffixes
        BY <3>1 DEF DarwinExact
      <3>3. ASSUME quiet', NEW t \in Desired \ todo' PROVE Done(t)'
        <4>1. t = s \/ Done(t)
          BY <2>1, <3>1, <3>3 DEF Smooth, DarwinExact
        <4> QED
          BY <2>1, <3>1, <3>2, <4>1 DEF Done, DarwinTypeOK
      <3> QED
        BY <3>1, <3>2, <3>3 DEF DarwinExact
    <2>2. CASE ReturnError /\ Fails((Desired \ todo) \ written)
      BY <2>2 DEF ReturnError, Fails, DarwinExact
    <2> QED
      BY <1>3, <2>1, <2>2 DEF WriteOne
  <1>4. CASE Written
    BY <1>4 DEF Written, GoOn, Smooth, darwinVars, DarwinExact, Desired, Done
  <1>5. CASE RemoveOne
    <2>1. PICK s \in todo : RemoveIfOurs(s) /\ GoOn(pc, todo \ {s})
      BY <1>5 DEF RemoveOne
    <2>2. /\ pc \in {"prune", "drop", "remove", "sweep"} /\ pc' = pc
          /\ Desired' = Desired /\ todo' = todo \ {s} /\ want' = want
      BY <1>5, <2>1 DEF RemoveOne, GoOn, Desired
    <2>3. (quiet' => quiet) /\ (exact' => exact)
      BY <2>1 DEF RemoveIfOurs, Smooth, Fails
    <2>4. \A t \in Suffixes : t # s => file'[t] = file[t]
      BY <2>1 DEF RemoveIfOurs, DarwinTypeOK
    <2>5. ASSUME pc = "prune", quiet', NEW t \in Desired PROVE Done(t)'
      BY <2>2, <2>3, <2>4, <2>5 DEF DarwinExact, Done
    <2> QED
      BY <2>2, <2>3, <2>5 DEF DarwinExact
  <1>6. CASE Updated
    <2>1. /\ pc' = "idle" /\ reported' = want /\ exact' = quiet
          /\ UNCHANGED <<file, stray>> /\ todo = {} /\ pc \in {"prune", "drop"}
      BY <1>6 DEF Updated, ReturnOk
    <2>2. ASSUME exact', stray' = {} PROVE ResolverDarwin' = View(reported)'
      <3>1. View(reported)' = Desired \X {want.servers}
        <4>1. View(reported)' = View(want)
          BY <2>1 DEF View
        <4> QED
          BY <4>1, WantedView DEF Desired
      <3>2. ResolverDarwin' = ResolverDarwin
        BY <2>1 DEF ResolverDarwin, OursDarwin
      <3>3. CASE pc = "prune"
        <4>1. OursDarwin \subseteq Desired /\ Desired \subseteq Suffixes
          BY <2>1, <2>2, <3>3 DEF DarwinHeld, DarwinExact
        <4>2. \A s \in Desired : Done(s)
          BY <2>1, <2>2, <3>3 DEF DarwinExact
        <4>3. OursDarwin = Desired /\ \A s \in Desired : file[s].servers = want.servers
          BY <4>1, <4>2 DEF OursDarwin, Done
        <4>4. ResolverDarwin = Desired \X {want.servers}
          BY <4>3 DEF ResolverDarwin
        <4> QED
          BY <3>1, <3>2, <4>4
      <3>4. CASE pc = "drop"
        <4>1. OursDarwin = {} /\ Desired = {}
          BY <2>1, <2>2, <3>4 DEF DarwinHeld, DarwinExact
        <4>2. ResolverDarwin = {} /\ Desired \X {want.servers} = {}
          BY <4>1 DEF ResolverDarwin
        <4> QED
          BY <3>1, <3>2, <4>2
      <3> QED
        BY <2>1, <3>3, <3>4
    <2> QED
      BY <2>1, <2>2 DEF DarwinExact
  <1>7. CASE Clear
    BY <1>7 DEF Clear, Remove, GoOn, Smooth, DarwinExact
  <1>8. CASE Cleared \/ Scan \/ Swept
    BY <1>8 DEF Cleared, Scan, Swept, GoOn, Reverted, CleanedUp, Smooth, Fails, DarwinExact
  <1>9. CASE DarwinKilled
    BY <1>9 DEF DarwinKilled, Killed, Interference, DarwinExact
  <1>10. CASE OtherTool
    BY <1>10 DEF OtherTool, Interference, DarwinExact, Desired
  <1> QED
    BY <1>1, <1>2, <1>3, <1>4, <1>5, <1>6, <1>7, <1>8, <1>9, <1>10 DEF DarwinNext

-----------------------------------------------------------------------------
(* Linux: the link, resolv.conf and the report *)

\* Settings keep their type, and resolv.conf is the host's or ours.
Setting == [servers : SUBSET Servers, domains : SUBSET Name]

LinuxTyped ==
    /\ LinuxTypeOK
    /\ setting \in [Links -> Setting]
    /\ conf.by \in Host \union {"azvpn"}

\* While servers are set but not yet the domains, the link is the tun's,
\* unless somebody interfered.
LinuxExact ==
    /\ pc \in {"revert", "dead", "cleanup"} => ~exact
    /\ pc \in {"idle", "install"} /\ exact /\ stray = {} => ResolverLinux \in {View(reported), Asked(reported)}
    /\ pc = "domains" /\ (quiet \/ exact) =>
          todo = {tun} /\ (quiet => setting[tun].servers = want.servers)

LEMMA LinuxTypedStep ==
    ASSUME Driving, LinuxHeld, LinuxTyped, LinuxNext
    PROVE  LinuxTyped'
  <1>0. LinkHeld /\ ConfHeld
    BY DEF LinuxHeld
  <1>1. NoSetting \in Setting
    BY DEF NoSetting, Setting
  <1>2. setting' \in [Links -> Setting]
    <2>1. CASE UNCHANGED setting
      BY <2>1 DEF LinuxTyped
    <2>2. CASE SetLinkDns /\ ~UNCHANGED setting
      <3>1. setting' = [setting EXCEPT ![tun].servers = want.servers] /\ want.servers \subseteq Servers
        BY <2>2 DEF SetLinkDns, TunnelLink, linuxVars, Driving
      <3>2. \A x \in Setting : [x EXCEPT !.servers = want.servers] \in Setting
        BY <3>1 DEF Setting
      <3> QED
        BY <3>1, <3>2 DEF LinuxTyped
    <2>3. CASE SetLinkDomains /\ ~UNCHANGED setting
      <3>1. PICK l \in todo : setting' = [setting EXCEPT ![l].domains = Listed(want.suffixes)]
        BY <2>3 DEF SetLinkDomains
      <3>2. Listed(want.suffixes) \subseteq Name
        BY DEF Driving, Listed
      <3>3. \A x \in Setting : [x EXCEPT !.domains = Listed(want.suffixes)] \in Setting
        BY <3>2 DEF Setting
      <3> QED
        BY <3>1, <3>3 DEF LinuxTyped
    <2>4. CASE RevertLink \/ TunDown
      BY <1>1, <2>4 DEF RevertLink, TunDown, LinuxTyped
    <2> QED
      BY <2>1, <2>2, <2>3, <2>4 DEF LinuxNext, linuxVars, DetectBackend, Snapshot, Rewrite, Restore,
         NothingToRevert, LinuxCleanup, LinuxKilled, TunUp, HostWrites
  <1>3. conf' \in Content \union Rendered /\ conf'.by \in Host \union {"azvpn"}
    <2>1. CASE UNCHANGED conf
      BY <2>1 DEF LinuxTyped, LinuxTypeOK
    <2>2. CASE Rewrite /\ ~UNCHANGED conf
      BY <2>2, ViewTyped DEF Rewrite
    <2>3. CASE Restore /\ ~UNCHANGED conf
      BY <1>0, <2>3 DEF Restore, ConfHeld, LinuxTyped, LinuxTypeOK
    <2>4. CASE HostWrites
      BY <2>4, LinuxAssumption DEF HostWrites
    <2> QED
      BY <2>1, <2>2, <2>3, <2>4 DEF LinuxNext, linuxVars, DetectBackend, SetLinkDns, SetLinkDomains, RevertLink,
         Snapshot, NothingToRevert, LinuxCleanup, LinuxKilled, TunUp, TunDown
  <1>4. backup' \in {None, backup, conf}
    BY DEF LinuxNext, linuxVars, DetectBackend, SetLinkDns, SetLinkDomains, RevertLink, Snapshot, Rewrite,
       Restore, NothingToRevert, LinuxCleanup, LinuxKilled, TunUp, TunDown, HostWrites
  <1>5. backend' \in {None, backend, "resolved", "direct"} /\ tun' \in Links \union {None, tun}
    BY DEF LinuxNext, linuxVars, DetectBackend, SetLinkDns, SetLinkDomains, RevertLink, Snapshot, Rewrite,
       Restore, NothingToRevert, LinuxCleanup, LinuxKilled, TunUp, TunDown, HostWrites
  <1>6. lastLink' \in Links \union {None, lastLink}
    <2>1. CASE SetLinkDomains
      <3>1. todo \subseteq Links
        BY <1>0, <2>1 DEF SetLinkDomains, LinkHeld
      <3> QED
        BY <2>1, <3>1 DEF SetLinkDomains, Remember
    <2> QED
      BY <2>1 DEF LinuxNext, linuxVars, DetectBackend, SetLinkDns, RevertLink, Snapshot, Rewrite,
         Restore, NothingToRevert, LinuxCleanup, LinuxKilled, TunUp, TunDown, HostWrites
  <1>7. \A l \in Links : setting'[l].servers \subseteq Servers
    BY <1>2 DEF Setting
  <1> QED
    BY <1>2, <1>3, <1>4, <1>5, <1>6, <1>7 DEF LinuxTyped, LinuxTypeOK

LEMMA LinuxExactStep ==
    ASSUME Driving, DriverTyped, LinuxHeld, LinuxTyped, LinuxExact, LinuxNext
    PROVE  LinuxExact'
  <1>0. exact \in BOOLEAN /\ quiet \in BOOLEAN /\ LinkHeld /\ ConfHeld
    BY DEF DriverTyped, DnsTypeOK, LinuxHeld
  <1>1. ASSUME UNCHANGED <<conf, setting, reported>>
        PROVE  /\ ResolverLinux' = ResolverLinux
               /\ View(reported)' = View(reported) /\ Asked(reported)' = Asked(reported)
    BY <1>1 DEF ResolverLinux, View, Asked
  <1>2. CASE DnsDriver /\ UNCHANGED linuxVars
    BY <1>1, <1>2 DEF DnsDriver, Begin, ApplyDns, Teardown, StartUp, Smooth, Interference, linuxVars, LinuxExact
  <1>3. CASE DetectBackend
    BY <1>1, <1>3 DEF DetectBackend, GoOn, Smooth, LinuxExact
  <1>4. CASE SetLinkDns
    <2>1. CASE ReturnError /\ UNCHANGED <<conf, setting>>
      BY <1>1, <1>4, <2>1 DEF SetLinkDns, ReturnError, Smooth, Fails, LinuxExact
    <2>2. CASE /\ setting' = [setting EXCEPT ![tun].servers = want.servers] /\ tun # None
               /\ GoOn("domains", {tun}) /\ tun' = tun
      <3>1. setting'[tun].servers = want.servers
        <4>1. tun \in Links /\ setting[tun] \in Setting
          BY <1>0, <2>2 DEF LinkHeld, LinuxTyped
        <4> QED
          BY <2>2, <4>1 DEF LinuxTyped, Setting
      <3> QED
        BY <2>2, <3>1 DEF GoOn, LinuxExact
    <2> QED
      BY <1>4, <2>1, <2>2 DEF SetLinkDns, TunnelLink, linuxVars
  <1>5. CASE SetLinkDomains
    <2>1. PICK l \in Links : todo = {l}
      BY <1>0, <1>5 DEF SetLinkDomains, LinkHeld
    <2>2. pc = "domains" /\ UNCHANGED conf /\ pc' = "idle" /\ backend = "resolved"
      BY <1>0, <1>5 DEF SetLinkDomains, ReturnOk, ReturnError, LinkHeld
    <2>3. CASE /\ l = tun /\ setting' = [setting EXCEPT ![l].domains = Listed(want.suffixes)]
               /\ ReturnOk
      <3>1. ASSUME exact', stray' = {} PROVE ResolverLinux' = Asked(reported)'
        <4>1. quiet /\ stray = {} /\ reported' = want
          BY <2>3, <3>1 DEF ReturnOk
        <4>2. setting[l].servers = want.servers /\ setting[l] \in Setting
          BY <2>1, <2>2, <2>3, <4>1 DEF LinuxExact, LinuxTyped
        <4>3. setting'[l].servers = want.servers /\ setting'[l].domains = Listed(want.suffixes)
          BY <2>3, <4>2 DEF LinuxTyped, Setting
        <4>4. \A k \in Links : k # l => setting'[k] = NoSetting
          BY <1>0, <2>3 DEF LinkHeld, LinuxTyped
        <4>5. conf'.by # "azvpn"
          BY <1>0, <2>2, <4>1 DEF ConfHeld
        <4>6. \A k \in Links : k # l => setting'[k].domains \X {setting'[k].servers} = {}
          BY <4>4 DEF NoSetting
        <4>7. UNION {setting'[k].domains \X {setting'[k].servers} : k \in Links}
                = Listed(want.suffixes) \X {want.servers}
          BY <4>3, <4>6
        <4>8. Asked(reported)' = Listed(want.suffixes) \X {want.servers}
          <5>1. Asked(reported)' = Asked(want)
            BY <4>1 DEF Asked
          <5> QED
            BY <5>1, WantedAsked
        <4> QED
          BY <4>5, <4>7, <4>8 DEF ResolverLinux
      <3> QED
        BY <2>2, <3>1 DEF LinuxExact
    <2>4. CASE ReturnError /\ Fails(IF lastLink = l THEN {} ELSE {l})
      BY <2>2, <2>4 DEF Fails, LinuxExact
    <2>5. CASE l # tun /\ ReturnError /\ Smooth
      BY <2>1, <2>2, <2>5 DEF Smooth, LinuxExact
    <2> QED
      BY <1>5, <2>1, <2>3, <2>4, <2>5 DEF SetLinkDomains
  <1>6. CASE Snapshot
    BY <1>1, <1>6 DEF Snapshot, GoOn, ReturnError, Smooth, Fails, LinuxExact
  <1>7. CASE Rewrite
    <2>1. CASE conf' = [by |-> "azvpn", view |-> View(want)] /\ ReturnOk
      <3>1. ResolverLinux' = View(want) /\ View(reported)' = View(want) /\ pc' = "idle"
        BY <2>1 DEF ResolverLinux, ReturnOk, View
      <3> QED
        BY <3>1 DEF LinuxExact
    <2>2. CASE ReturnError /\ Fails({})
      BY <2>2 DEF ReturnError, Fails, LinuxExact
    <2> QED
      BY <1>7, <2>1, <2>2 DEF Rewrite
  <1>8. CASE RevertLink \/ Restore \/ NothingToRevert \/ LinuxCleanup
    <2>1. ~exact' /\ pc' = "idle"
      BY <1>8 DEF RevertLink, Restore, NothingToRevert, LinuxCleanup, Reverted, CleanedUp, Smooth, Fails,
                  LinuxExact
    <2> QED
      BY <2>1 DEF LinuxExact
  <1>9. CASE LinuxKilled
    BY <1>9 DEF LinuxKilled, Killed, Interference, LinuxExact
  <1>10. CASE TunUp \/ TunDown \/ HostWrites
    BY <1>10 DEF TunUp, TunDown, HostWrites, Interference, LinuxExact
  <1> QED
    BY <1>2, <1>3, <1>4, <1>5, <1>6, <1>7, <1>8, <1>9, <1>10 DEF LinuxNext

-----------------------------------------------------------------------------
(* Windows: what build_rules makes of a request *)

\* Division in whole numbers.
LEMMA Multiples ==
    ASSUME NEW d \in Nat \ {0}, NEW a \in Int, NEW b \in Int
    PROVE  /\ a <= b => a * d <= b * d
           /\ a * d < b * d => a < b
           /\ (a + 1) * d = a * d + d /\ (a - 1) * d = a * d - d
           /\ a * d \in Int
  OBVIOUS

LEMMA Quotient ==
    ASSUME NEW m \in Nat, NEW d \in Nat \ {0}
    PROVE  /\ m \div d \in Nat
           /\ (m \div d) * d <= m /\ m < (m \div d + 1) * d
  <1>1. m \div d \in Nat /\ m % d \in 0 .. d - 1 /\ m = d * (m \div d) + (m % d)
    OBVIOUS
  <1>2. (m \div d) * d = d * (m \div d) /\ (m \div d + 1) * d = d * (m \div d) + d /\ d * (m \div d) \in Int
    BY <1>1
  <1> QED
    BY <1>1, <1>2

LEMMA SameValues ==
    ASSUME NEW f, NEW A, NEW g, NEW B,
           \A k \in A : \E j \in B : f[k] = g[j], \A j \in B : \E k \in A : f[k] = g[j]
    PROVE  {f[k] : k \in A} = {g[j] : j \in B}
  OBVIOUS

LEMMA SubSeqListed ==
    ASSUME NEW s \in Seq(Name), NEW a \in 1 .. Len(s), NEW b \in a .. Len(s)
    PROVE  Listed(SubSeq(s, a, b)) = {s[j] : j \in a .. b}
  <1> DEFINE t == SubSeq(s, a, b)
  <1>1. /\ DOMAIN t = 1 .. b - a + 1
        /\ \A k \in 1 .. b - a + 1 : t[k] = s[a + k - 1]
    <2>1. a \in Int /\ b \in Int /\ \A i \in a .. b : s[i] \in Name
      OBVIOUS
    <2>2. /\ t \in Seq(Name) /\ Len(t) = b - a + 1
          /\ \A k \in 1 .. b - a + 1 : t[k] = s[a + k - 1]
      BY <2>1, SubSeqProperties
    <2> QED
      BY <2>2
  <1> HIDE DEF t
  <1>3. ASSUME NEW k \in DOMAIN t PROVE \E j \in a .. b : t[k] = s[j]
    <2>1. a + k - 1 \in a .. b /\ t[k] = s[a + k - 1]
      BY <1>1
    <2> QED
      BY <2>1
  <1>4. ASSUME NEW j \in a .. b PROVE \E k \in DOMAIN t : t[k] = s[j]
    <2>1. j - a + 1 \in 1 .. b - a + 1 /\ a + (j - a + 1) - 1 = j
      OBVIOUS
    <2> QED
      BY <1>1, <2>1
  <1>5. {t[k] : k \in DOMAIN t} = {s[j] : j \in a .. b}
    BY <1>3, <1>4, SameValues
  <1> QED
    BY <1>5 DEF Listed, t

\* Together the rules have every name of the request.
LEMMA ChunksCover ==
    ASSUME want.suffixes \in Seq(Name)
    PROVE  UNION {ChunkView(i) : i \in 1 .. Chunks(want.suffixes)}
             = Listed(want.suffixes) \X {want.servers}
  <1> DEFINE s == want.suffixes
             L == Len(s)
             d == MaxDomains
             n == Chunks(s)
             first(i) == (i - 1) * d + 1
             last(i) == IF i * d < L THEN i * d ELSE L
             part(i) == {s[j] : j \in first(i) .. last(i)}
  <1>1. L \in Nat /\ d \in Nat \ {0} /\ DOMAIN s = 1 .. L
    BY WindowsAssumption
  <1>2. n \in Nat /\ n * d <= L + d - 1 /\ L + d - 1 < (n + 1) * d
    <2>1. L + d - 1 \in Nat /\ n = (L + d - 1) \div d
      BY <1>1 DEF Chunks
    <2> HIDE DEF n, d, L
    <2> QED
      BY <1>1, <2>1, Quotient
  <1> HIDE DEF s, L, d, n
  <1>3. ASSUME NEW i \in 1 .. n
        PROVE  first(i) \in 1 .. L /\ last(i) \in first(i) .. L
    <2>1. i * d <= n * d /\ (i - 1) * d = i * d - d /\ i * d \in Int /\ 0 * d <= (i - 1) * d /\ 0 * d = 0
          /\ n * d \in Int
      BY <1>1, <1>2, Multiples
    <2>2. i * d - d + 1 <= L /\ i * d - d >= 0
      BY <1>1, <1>2, <2>1
    <2> QED
      BY <1>1, <2>1, <2>2
  <1>4. ASSUME NEW i \in 1 .. n PROVE ChunkView(i) = part(i) \X {want.servers}
    <2>1. ChunkView(i) = Listed(SubSeq(s, first(i), last(i))) \X {want.servers}
      BY DEF ChunkView, s, L, d
    <2>2. s \in Seq(Name)
      BY DEF s
    <2> HIDE DEF first, last
    <2> QED
      BY <1>3, <2>1, <2>2, SubSeqListed DEF L
  <1>5. ASSUME NEW j \in 1 .. L
        PROVE  \E i \in 1 .. n : j \in first(i) .. last(i)
    <2> DEFINE q == (j - 1) \div d
    <2>1. q \in Nat /\ q * d <= j - 1 /\ j - 1 < (q + 1) * d
      BY <1>1, Quotient
    <2> HIDE DEF q
    <2>2. (q + 1) * d = q * d + d /\ q * d \in Int /\ (n + 1) * d \in Int
      BY <1>1, <1>2, <2>1, Multiples
    <2>3. (q + 1) * d < (n + 1) * d
      BY <1>1, <1>2, <2>1, <2>2
    <2>4. q + 1 < n + 1
      BY <1>1, <1>2, <2>1, <2>3, Multiples
    <2>5. q + 1 \in 1 .. n /\ (q + 1) - 1 = q
      BY <1>2, <2>1, <2>4
    <2>6. j \in first(q + 1) .. last(q + 1)
      BY <1>1, <2>1, <2>2, <2>5
    <2> QED
      BY <2>5, <2>6
  <1>6. ASSUME NEW i \in 1 .. n PROVE part(i) \subseteq Listed(s)
    <2>1. first(i) \in Nat /\ last(i) \in Nat /\ 1 <= first(i) /\ last(i) <= L
      BY <1>1, <1>3
    <2> HIDE DEF first, last
    <2>2. first(i) .. last(i) \subseteq DOMAIN s
      BY <1>1, <2>1
    <2> QED
      BY <2>2 DEF Listed
  <1>7. ASSUME NEW x \in Listed(s) PROVE \E i \in 1 .. n : x \in part(i)
    BY <1>1, <1>5 DEF Listed
  <1> HIDE DEF part
  <1>8. UNION {part(i) \X {want.servers} : i \in 1 .. n} = Listed(s) \X {want.servers}
    BY <1>6, <1>7
  <1>9. UNION {ChunkView(i) : i \in 1 .. n} = UNION {part(i) \X {want.servers} : i \in 1 .. n}
    BY <1>4
  <1> QED
    BY <1>8, <1>9 DEF s, n

-----------------------------------------------------------------------------
(* Windows: the identifiers and the tables *)

Unique(table) == \A r, s \in table : r.id = s.id => r = s

\* Identifiers are not given twice; the policy table's key is there before a
\* rule is written to it.
WindowsTyped ==
    /\ OursWindows \union Recorded \union NewIds \subseteq Guids
    /\ Distinct(owned) /\ Distinct(newIds)
    /\ gpo \in BOOLEAN /\ policyKey \in BOOLEAN /\ withdrawn \in BOOLEAN
    /\ gpo \/ policy # {} \/ (\E k \in DOMAIN writes : writes[k].table = "policy") => policyKey
    /\ Unique(local) /\ Unique(policy)

\* What is recorded and what is drawn are distinct, and apart from the surplus.
LEMMA AssignedDistinct ==
    ASSUME NEW n \in Nat, WindowsHeld, WindowsTyped, Draws(n - Len(owned)) # {}
    PROVE  LET ids == {Assigned(n)[i] : i \in DOMAIN Assigned(n)} IN
           Distinct(Assigned(n)) /\ ids \subseteq Guids /\ Surplus(n) \intersect ids = {}
  <1> DEFINE m == n - Len(owned)
             f == FreshIds(m)
             ids == {Assigned(n)[i] : i \in DOMAIN Assigned(n)}
  <1>1. Len(owned) \in Nat /\ DOMAIN owned = 1 .. Len(owned) /\ m \in Int
    BY DEF WindowsHeld
  <1>2. f \in [1 .. m -> Unused] /\ Distinct(f)
    BY DEF FreshIds, Draws
  <1> HIDE DEF f
  <1>3. DOMAIN Assigned(n) = 1 .. n
    BY DEF Assigned
  <1>4. ASSUME NEW i \in 1 .. n
        PROVE  IF i <= Len(owned) THEN i \in DOMAIN owned /\ Assigned(n)[i] = owned[i]
                                  ELSE i - Len(owned) \in 1 .. m /\ Assigned(n)[i] = f[i - Len(owned)]
    BY <1>1 DEF Assigned, f
  <1>5. \A i \in DOMAIN owned : owned[i] \in Recorded
    BY DEF Recorded
  <1>6. \A k \in 1 .. m : f[k] \in Unused
    BY <1>2
  <1>7. Recorded \intersect Unused = {} /\ Recorded \subseteq Guids /\ Unused \subseteq Guids
    BY DEF Unused, WindowsTyped
  <1>8. ASSUME NEW i \in 1 .. n, NEW j \in 1 .. n, i # j PROVE Assigned(n)[i] # Assigned(n)[j]
    <2>1. CASE i <= Len(owned) /\ j <= Len(owned)
      BY <1>4, <1>8, <2>1 DEF WindowsTyped, Distinct
    <2>2. CASE i > Len(owned) /\ j > Len(owned)
      <3>1. i - Len(owned) # j - Len(owned) /\ DOMAIN f = 1 .. m
        BY <1>1, <1>2, <1>8
      <3>2. /\ i - Len(owned) \in 1 .. m /\ Assigned(n)[i] = f[i - Len(owned)]
            /\ j - Len(owned) \in 1 .. m /\ Assigned(n)[j] = f[j - Len(owned)]
        BY <1>1, <1>4, <2>2
      <3> QED
        BY <1>2, <3>1, <3>2 DEF Distinct
    <2>3. CASE i <= Len(owned) /\ j > Len(owned)
      BY <1>1, <1>4, <1>5, <1>6, <1>7, <2>3
    <2>4. CASE i > Len(owned) /\ j <= Len(owned)
      BY <1>1, <1>4, <1>5, <1>6, <1>7, <2>4
    <2> QED
      BY <1>1, <2>1, <2>2, <2>3, <2>4
  <1>9. ids \subseteq Guids
    BY <1>3, <1>4, <1>5, <1>6, <1>7
  <1>10. ASSUME NEW j \in DOMAIN owned, j > n, NEW i \in 1 .. n PROVE owned[j] # Assigned(n)[i]
    <2>1. i \in DOMAIN owned /\ i # j /\ i <= Len(owned)
      BY <1>1, <1>10
    <2> QED
      BY <1>4, <2>1 DEF WindowsTyped, Distinct
  <1>11. Surplus(n) \intersect ids = {}
    BY <1>3, <1>10 DEF Surplus
  <1> QED
    BY <1>3, <1>8, <1>9, <1>11 DEF Distinct

\* Writing a rule leaves one of its identifier in the table, the rule itself.
LEMMA PutUnique ==
    ASSUME NEW table, NEW rule, Unique(table)
    PROVE  Unique(Put(table, rule)) /\ rule \in Put(table, rule)
  BY DEF Unique, Put

LEMMA EmptyIds == Distinct(<<>>) /\ {<<>>[i] : i \in DOMAIN <<>>} = {}
  BY DEF Distinct

LEMMA WindowsTypedSame ==
    ASSUME WindowsTyped, UNCHANGED windowsVars
    PROVE  WindowsTyped'
  BY Zenon DEF windowsVars, WindowsTyped, OursWindows, Recorded, NewIds

LEMMA WindowsTypedInstall ==
    ASSUME Driving, WindowsHeld, WindowsTyped, Install
    PROVE  WindowsTyped'
  <1>1. CASE UNCHANGED windowsVars
    BY <1>1, WindowsTypedSame
  <1>2. ASSUME NEW probed \in BOOLEAN,
               Draws(Chunks(want.suffixes) - Len(owned)) # {},
               newIds' = Assigned(Chunks(want.suffixes)),
               writes' = WritesOf(Assigned(Chunks(want.suffixes)), probed /\ Mirror),
               policyKey' = (policyKey \/ (probed /\ Mirror)),
               UNCHANGED <<local, policy, gpo, owned, withdrawn>>
        PROVE  WindowsTyped'
    <2> DEFINE n == Chunks(want.suffixes)
               ids == {Assigned(n)[i] : i \in DOMAIN Assigned(n)}
    <2>1. n \in Nat
      BY ChunksTyped
    <2> HIDE DEF n
    <2>2. Distinct(Assigned(n)) /\ ids \subseteq Guids
      BY <1>2, <2>1, AssignedDistinct DEF n
    <2>3. NewIds' = ids /\ OursWindows' = OursWindows /\ Recorded' = Recorded
      BY <1>2 DEF NewIds, n, OursWindows, Recorded
    <2>4. ASSUME NEW k \in DOMAIN writes', writes'[k].table = "policy" PROVE probed /\ Mirror
      <3>1. ASSUME ~(probed /\ Mirror) PROVE writes'[k].table = "local"
        BY <1>2, <2>4, <3>1 DEF WritesOf
      <3> QED
        BY <2>4, <3>1
    <2>5. policyKey' \in BOOLEAN /\ (policyKey \/ (probed /\ Mirror) => policyKey')
      BY <1>2
    <2>6. Distinct(newIds') /\ Distinct(owned')
      BY <1>2, <2>2 DEF n, WindowsTyped
    <2>7. gpo' \/ policy' # {} \/ (\E k \in DOMAIN writes' : writes'[k].table = "policy") => policyKey'
      BY <1>2, <2>4, <2>5 DEF WindowsTyped
    <2>8. Unique(local') /\ Unique(policy') /\ gpo' \in BOOLEAN /\ withdrawn' \in BOOLEAN
      BY <1>2 DEF WindowsTyped
    <2>9. OursWindows' \union Recorded' \union NewIds' \subseteq Guids
      BY <2>2, <2>3 DEF WindowsTyped
    <2> QED
      BY <2>5, <2>6, <2>7, <2>8, <2>9 DEF WindowsTyped, Unique
  <1> QED
    BY <1>1, <1>2 DEF Install

\* A step that draws no identifiers: it may record the new ones, forget them,
\* take rules out, or put one in that it was going to write.
LEMMA WindowsTypedRest ==
    ASSUME WindowsTyped,
           owned' \in {owned, newIds, <<>>}, newIds' \in {newIds, <<>>},
           OursWindows' \subseteq Guids, Unique(local)', Unique(policy)',
           gpo' \in BOOLEAN, policyKey' \in BOOLEAN, withdrawn' \in BOOLEAN,
           gpo' \/ policy' # {} \/ (\E k \in DOMAIN writes' : writes'[k].table = "policy") => policyKey'
    PROVE  WindowsTyped'
  <1>1. Distinct(owned') /\ Distinct(newIds')
    BY EmptyIds DEF WindowsTyped
  <1>2. Recorded' \in {Recorded, NewIds, {}}
    BY EmptyIds DEF Recorded, NewIds
  <1>3. NewIds' \in {NewIds, {}}
    BY EmptyIds DEF NewIds
  <1>4. OursWindows' \union Recorded' \union NewIds' \subseteq Guids
    BY <1>2, <1>3 DEF WindowsTyped
  <1> QED
    BY <1>1, <1>4 DEF WindowsTyped

LEMMA WindowsTypedStep ==
    ASSUME Driving, WindowsHeld, WindowsTyped, WindowsNext
    PROVE  WindowsTyped'
  <1>1. CASE UNCHANGED windowsVars
    BY <1>1, WindowsTypedSame
  <1>2. CASE Install
    BY <1>2, WindowsTypedInstall
  <1>3. CASE DeleteOne
    <2>1. local' \subseteq local /\ policy' \subseteq policy /\ UNCHANGED <<policyKey, gpo, owned, writes, newIds, withdrawn>>
      BY <1>3 DEF DeleteOne, DeleteRule
    <2>2. OursWindows' \subseteq Guids /\ Unique(local)' /\ Unique(policy)'
      BY <2>1 DEF WindowsTyped, OursWindows, Ids, Unique
    <2> QED
      BY <2>1, <2>2, WindowsTypedRest DEF WindowsTyped
  <1>4. CASE WriteRule
    <2> DEFINE w == Head(writes)
    <2>1. writes \in Seq(Writing) /\ writes # <<>>
      BY <1>4 DEF WindowsHeld, WriteRule
    <2>2. /\ w \in Writing /\ w = writes[1] /\ 1 \in DOMAIN writes
          /\ \A k \in DOMAIN Tail(writes) : k + 1 \in DOMAIN writes /\ Tail(writes)[k] = writes[k + 1]
      BY <2>1
    <2> HIDE DEF w
    <2>3. /\ UNCHANGED <<policyKey, gpo, owned, withdrawn>> /\ newIds' \in {newIds, <<>>}
          /\ writes' \in {Tail(writes), <<>>}
          /\ \/ local' = Put(local, w.rule) /\ policy' = policy
             \/ policy' = Put(policy, w.rule) /\ local' = local /\ w.table = "policy"
             \/ UNCHANGED <<local, policy>>
      BY <1>4 DEF WriteRule, w
    <2>4. w.rule.id \in Guids
      BY <2>2 DEF Writing, WindowsTyped
    <2>5. Unique(local)' /\ Unique(policy)'
      BY <2>3, PutUnique DEF WindowsTyped, Unique
    <2>6. OursWindows' \subseteq OursWindows \union {w.rule.id}
      BY <2>3, PutIds DEF OursWindows
    <2>7. (policy' = policy \/ w.table = "policy") /\ gpo' = gpo
      BY <2>3
    <2>8. (\E k \in DOMAIN writes' : writes'[k].table = "policy") => \E k \in DOMAIN writes : writes[k].table = "policy"
      BY <2>2, <2>3
    <2>9. gpo' \/ policy' # {} \/ (\E k \in DOMAIN writes' : writes'[k].table = "policy") => policyKey'
      BY <2>2, <2>3, <2>7, <2>8 DEF WindowsTyped
    <2> QED
      BY <2>3, <2>4, <2>5, <2>6, <2>9, WindowsTypedRest DEF WindowsTyped
  <1>5. CASE SaveIds \/ ClearRules \/ SaveNoIds \/ WindowsKilled
    <2>1. /\ UNCHANGED <<local, policy, policyKey, gpo, withdrawn>> /\ owned' \in {owned, newIds, <<>>}
          /\ newIds' \in {newIds, <<>>} /\ writes' \in {writes, <<>>}
      BY <1>5 DEF SaveIds, ClearRules, SaveNoIds, WindowsKilled
    <2>2. OursWindows' \subseteq Guids /\ Unique(local)' /\ Unique(policy)'
      BY <2>1 DEF WindowsTyped, OursWindows, Unique
    <2> QED
      BY <2>1, <2>2, WindowsTypedRest DEF WindowsTyped
  <1>6. CASE DropPolicyKey
    <2>1. /\ UNCHANGED <<local, owned, newIds, writes>> /\ writes = <<>>
          /\ \/ policyKey' = FALSE /\ gpo' = FALSE /\ policy' = {} /\ withdrawn' = FALSE
             \/ UNCHANGED <<policyKey, gpo, policy, withdrawn>>
      BY <1>6 DEF DropPolicyKey, WindowsHeld
    <2>2. OursWindows' \subseteq Guids /\ Unique(local)' /\ Unique(policy)'
      BY <2>1 DEF WindowsTyped, OursWindows, Ids, Unique
    <2>3. ~\E k \in DOMAIN writes' : writes'[k].table = "policy"
      BY <2>1
    <2>4. /\ gpo' \in BOOLEAN /\ policyKey' \in BOOLEAN /\ withdrawn' \in BOOLEAN
          /\ gpo' \/ policy' # {} \/ (\E k \in DOMAIN writes' : writes'[k].table = "policy") => policyKey'
      <3>1. CASE policyKey' = FALSE /\ gpo' = FALSE /\ policy' = {} /\ withdrawn' = FALSE
        BY <2>3, <3>1
      <3>2. CASE UNCHANGED <<policyKey, gpo, policy, withdrawn>>
        BY <2>3, <3>2 DEF WindowsTyped
      <3> QED
        BY <2>1, <3>1, <3>2
    <2> QED
      BY <2>1, <2>2, <2>4, WindowsTypedRest
  <1>7. CASE GpoChanges
    <2>1. UNCHANGED <<local, policy, owned, newIds, writes>> /\ policyKey' = TRUE /\ gpo' \in BOOLEAN
          /\ withdrawn' \in BOOLEAN
      BY <1>7 DEF GpoChanges, WindowsTyped
    <2>2. OursWindows' \subseteq Guids /\ Unique(local)' /\ Unique(policy)'
      BY <2>1 DEF WindowsTyped, OursWindows, Unique
    <2> QED
      BY <2>1, <2>2, WindowsTypedRest
  <1> QED
    BY <1>1, <1>2, <1>3, <1>4, <1>5, <1>6, <1>7 DEF WindowsNext

-----------------------------------------------------------------------------
(* Windows: the tables and the report *)

Rule(i) == [id |-> newIds[i], view |-> ChunkView(i)]
Pending(table, i) == \E k \in DOMAIN writes : writes[k] = [table |-> table, rule |-> Rule(i)]

\* While the rules are written, each of them is in place or has yet to be
\* written, in the local table and, if a policy has rules, in the policy table.
Progress ==
    /\ \A k \in DOMAIN writes : \E i \in DOMAIN newIds : writes[k].rule = Rule(i)
    /\ \A i \in DOMAIN newIds :
          /\ Rule(i) \in local \/ Pending("local", i)
          /\ gpo => Rule(i) \in policy \/ Pending("policy", i)

WindowsExact ==
    /\ pc \in {"revert", "clear", "dropKey", "dead", "cleanup", "clearOrphans", "dropOrphanKey"} => ~exact
    /\ stray = {} /\ ~withdrawn => policyKey = gpo
    /\ pc \in {"idle", "install"} /\ exact /\ stray = {} /\ ~withdrawn => ResolverWindows = Asked(reported)
    /\ pc = "surplus" => Len(newIds) = Chunks(want.suffixes) /\ todo \intersect NewIds = {}
    /\ pc = "surplus" /\ quiet /\ stray = {} => Progress

\* WritesOf has every rule, in the tables it is for, and nothing else.
LEMMA WritesOfRules ==
    ASSUME NEW n \in Nat, NEW ids, Len(ids) = n, NEW mirror \in BOOLEAN
    PROVE  LET rule(i) == [id |-> ids[i], view |-> ChunkView(i)]
               ws == WritesOf(ids, mirror) IN
           /\ \A k \in DOMAIN ws : \E i \in 1 .. n : ws[k].rule = rule(i)
           /\ \A i \in 1 .. n : \E k \in DOMAIN ws : ws[k] = [table |-> "local", rule |-> rule(i)]
           /\ mirror => \A i \in 1 .. n : \E k \in DOMAIN ws : ws[k] = [table |-> "policy", rule |-> rule(i)]
  <1> DEFINE rule(i) == [id |-> ids[i], view |-> ChunkView(i)]
             ws == WritesOf(ids, mirror)
  <1> HIDE DEF rule
  <1>1. CASE mirror
    <2>1. /\ DOMAIN ws = 1 .. 2 * n
          /\ \A k \in 1 .. 2 * n :
                ws[k] = [table |-> IF k % 2 = 1 THEN "local" ELSE "policy", rule |-> rule((k + 1) \div 2)]
      BY <1>1 DEF WritesOf, rule
    <2> HIDE DEF ws
    <2>2. ASSUME NEW k \in DOMAIN ws PROVE \E i \in 1 .. n : ws[k].rule = rule(i)
      <3>1. (k + 1) \div 2 \in 1 .. n /\ ws[k].rule = rule((k + 1) \div 2)
        BY <2>1
      <3> QED
        BY <3>1
    <2>3. ASSUME NEW i \in 1 .. n
          PROVE  /\ \E k \in DOMAIN ws : ws[k] = [table |-> "local", rule |-> rule(i)]
                 /\ \E k \in DOMAIN ws : ws[k] = [table |-> "policy", rule |-> rule(i)]
      <3>1. /\ 2 * i - 1 \in 1 .. 2 * n /\ (2 * i - 1) % 2 = 1 /\ ((2 * i - 1) + 1) \div 2 = i
            /\ 2 * i \in 1 .. 2 * n /\ (2 * i) % 2 # 1 /\ (2 * i + 1) \div 2 = i
        OBVIOUS
      <3>2. ws[2 * i - 1] = [table |-> "local", rule |-> rule(i)]
        BY <2>1, <3>1
      <3>3. ws[2 * i] = [table |-> "policy", rule |-> rule(i)]
        BY <2>1, <3>1
      <3> QED
        BY <2>1, <3>1, <3>2, <3>3
    <2> QED
      BY <2>2, <2>3 DEF rule, ws
  <1>2. CASE ~mirror
    <2>1. DOMAIN ws = 1 .. n /\ \A k \in 1 .. n : ws[k] = [table |-> "local", rule |-> rule(k)]
      BY <1>2 DEF WritesOf, rule
    <2> HIDE DEF ws
    <2>2. ASSUME NEW k \in DOMAIN ws PROVE \E i \in 1 .. n : ws[k].rule = rule(i)
      BY <2>1
    <2>3. ASSUME NEW i \in 1 .. n
          PROVE  \E k \in DOMAIN ws : ws[k] = [table |-> "local", rule |-> rule(i)]
      BY <2>1
    <2> QED
      BY <1>2, <2>2, <2>3 DEF rule, ws
  <1> QED
    BY <1>1, <1>2

LEMMA WindowsExactInstall ==
    ASSUME Driving, WindowsHeld, WindowsTyped, WindowsExact, Install
    PROVE  WindowsExact'
  <1>1. CASE ReturnError /\ Fails({}) /\ UNCHANGED windowsVars
    BY <1>1 DEF ReturnError, Fails, windowsVars, WindowsExact
  <1>2. ASSUME NEW probed \in BOOLEAN,
               Draws(Chunks(want.suffixes) - Len(owned)) # {},
               newIds' = Assigned(Chunks(want.suffixes)),
               writes' = WritesOf(Assigned(Chunks(want.suffixes)), probed /\ Mirror),
               policyKey' = (policyKey \/ (probed /\ Mirror)),
               GoOn("surplus", Surplus(Chunks(want.suffixes))),
               IF probed THEN Smooth ELSE Fails({}),
               UNCHANGED <<local, policy, gpo, owned, withdrawn>>
        PROVE  WindowsExact'
    <2> DEFINE n == Chunks(want.suffixes)
               ids == {Assigned(n)[i] : i \in DOMAIN Assigned(n)}
    <2>1. n \in Nat
      BY ChunksTyped
    <2>2. pc = "install" /\ pc' = "surplus" /\ todo' = Surplus(n) /\ want' = want
      BY <1>2 DEF Install, GoOn
    <2> HIDE DEF n
    <2>3. /\ Len(Assigned(n)) = n /\ DOMAIN Assigned(n) = 1 .. n /\ Surplus(n) \intersect ids = {}
      BY <1>2, <2>1, AssignedFacts, AssignedDistinct DEF WindowsHeld, n
    <2>4. NewIds' = ids /\ Len(newIds') = n /\ DOMAIN newIds' = 1 .. n
      BY <1>2, <2>3 DEF NewIds, n
    <2>5. Chunks(want.suffixes)' = n
      BY <2>2 DEF n, Chunks
    <2>6. stray' = stray
      BY <1>2 DEF Smooth, Fails
    <2>7. ASSUME stray = {} PROVE Mirror = gpo
      <3>1. Ids(policy) \subseteq Recorded
        BY <2>2, <2>7 DEF WindowsHeld, InReach, OursWindows
      <3> QED
        BY <3>1 DEF Mirror, WindowsTyped
    <2>8. ASSUME stray' = {}, ~withdrawn' PROVE policyKey' = gpo'
      BY <1>2, <2>6, <2>7, <2>8 DEF WindowsExact, WindowsTyped
    <2>9. ASSUME quiet', stray' = {} PROVE Progress'
      <3>1. probed /\ Mirror = gpo
        BY <1>2, <2>6, <2>7, <2>9 DEF Fails
      <3> DEFINE rule(i) == [id |-> Assigned(n)[i], view |-> ChunkView(i)]
                 ws == WritesOf(Assigned(n), probed /\ Mirror)
      <3>2. /\ \A k \in DOMAIN ws : \E i \in 1 .. n : ws[k].rule = rule(i)
            /\ \A i \in 1 .. n : \E k \in DOMAIN ws : ws[k] = [table |-> "local", rule |-> rule(i)]
            /\ gpo => \A i \in 1 .. n : \E k \in DOMAIN ws : ws[k] = [table |-> "policy", rule |-> rule(i)]
        <4> DEFINE mirror == probed /\ Mirror
        <4>1. mirror \in BOOLEAN /\ (gpo => mirror)
          BY <3>1
        <4> HIDE DEF mirror
        <4>2. WritesOf(Assigned(n), mirror) = ws
          BY DEF mirror
        <4> HIDE DEF ws
        <4> QED
          BY <2>1, <2>3, <4>1, <4>2, WritesOfRules
      <3>3. writes' = ws /\ gpo' = gpo /\ \A i \in 1 .. n : Rule(i)' = rule(i)
        BY <1>2, <2>2 DEF n, Rule, ChunkView
      <3> HIDE DEF rule, ws
      <3> QED
        BY <2>4, <3>2, <3>3 DEF Progress, Pending
    <2> QED
      BY <2>2, <2>3, <2>4, <2>5, <2>8, <2>9 DEF WindowsExact
  <1> QED
    BY <1>1, <1>2 DEF Install

LEMMA WindowsExactDelete ==
    ASSUME DriverTyped, WindowsHeld, WindowsTyped, WindowsExact, DeleteOne
    PROVE  WindowsExact'
  <1>1. PICK id \in todo : DeleteRule(id) /\ GoOn(pc, todo \ {id})
    BY DEF DeleteOne
  <1>2. /\ UNCHANGED <<policyKey, gpo, owned, writes, newIds, withdrawn, want, pc>> /\ todo' = todo \ {id}
        /\ pc \in {"surplus", "clear", "clearOrphans"}
    BY <1>1 DEF DeleteOne, GoOn
  <1>3. stray \subseteq stray' /\ (quiet' => quiet) /\ (exact' => exact)
    BY <1>1 DEF DeleteRule, Smooth, Fails
  <1>4. NewIds' = NewIds /\ Chunks(want.suffixes)' = Chunks(want.suffixes)
    BY <1>2 DEF NewIds, Chunks
  <1>5. \A r : /\ r \in local /\ r.id # id => r \in local'
               /\ r \in policy /\ r.id # id => r \in policy'
    BY <1>1 DEF DeleteRule
  <1>6. ASSUME pc = "surplus", quiet', stray' = {} PROVE Progress'
    <2>1. Progress /\ todo \intersect NewIds = {}
      BY <1>3, <1>6 DEF WindowsExact
    <2>2. \A i : Rule(i)' = Rule(i)
      BY <1>2 DEF Rule, ChunkView
    <2>3. \A i : Pending("local", i)' = Pending("local", i) /\ Pending("policy", i)' = Pending("policy", i)
      BY <1>2, <2>2 DEF Pending
    <2>4. \A i \in DOMAIN newIds : Rule(i).id # id
      BY <2>1 DEF Rule, NewIds
    <2> QED
      BY <1>2, <1>5, <2>1, <2>2, <2>3, <2>4 DEF Progress
  <1> QED
    BY <1>2, <1>3, <1>4, <1>6 DEF WindowsExact

LEMMA WindowsExactWrite ==
    ASSUME DriverTyped, WindowsHeld, WindowsTyped, WindowsExact, WriteRule
    PROVE  WindowsExact'
  <1> DEFINE w == Head(writes)
  <1>1. pc = "surplus" /\ UNCHANGED <<policyKey, gpo, withdrawn>>
    BY DEF WriteRule
  <1>2. CASE GoOn("surplus", {}) /\ Smooth /\ writes' = Tail(writes)
    <2>1. pc' = "surplus" /\ want' = want /\ newIds' = newIds /\ todo' = {}
      BY <1>2 DEF GoOn, WriteRule
    <2>2. UNCHANGED <<quiet, exact, stray>>
      BY <1>2 DEF Smooth
    <2>3. NewIds' = NewIds /\ Chunks(want.suffixes)' = Chunks(want.suffixes)
      BY <2>1 DEF NewIds, Chunks
    <2>4. ASSUME quiet', stray' = {} PROVE Progress'
      <3>1. Progress
        BY <1>1, <2>2, <2>4 DEF WindowsExact
      <3>2. writes \in Seq(Writing) /\ writes # <<>>
        BY DEF WindowsHeld, WriteRule
      <3>3. /\ w = writes[1] /\ 1 \in DOMAIN writes /\ w \in Writing
            /\ \A k \in DOMAIN writes' : k + 1 \in DOMAIN writes /\ writes'[k] = writes[k + 1]
            /\ \A k \in DOMAIN writes : k = 1 \/ (k - 1 \in DOMAIN writes' /\ writes'[k - 1] = writes[k])
        BY <1>2, <3>2
      <3>4. /\ \/ local' = Put(local, w.rule) /\ policy' = policy /\ w.table = "local"
               \/ policy' = Put(policy, w.rule) /\ local' = local /\ w.table = "policy"
               \/ local' = local /\ policy' = policy
            /\ <<local', policy'>> # <<local, policy>> \/ w.rule \in (IF w.table = "local" THEN local ELSE policy)
        BY <1>2 DEF WriteRule, GoOn, ReturnError
      <3> HIDE DEF w
      <3>5. PICK c \in DOMAIN newIds : w.rule = Rule(c)
        BY <3>1, <3>3 DEF Progress
      <3>6. /\ w.table = "local" => w.rule \in local'
            /\ w.table = "policy" => w.rule \in policy'
        BY <3>4, PutUnique DEF WindowsTyped
      <3>7. \A i \in DOMAIN newIds : Rule(i).id = w.rule.id => Rule(i) = w.rule
        BY <3>5 DEF WindowsTyped, Distinct, Rule
      <3>8. \A i \in DOMAIN newIds : (Rule(i) \in local => Rule(i) \in local') /\ (Rule(i) \in policy => Rule(i) \in policy')
        BY <3>4, <3>7 DEF Put
      <3>9. \A i : Rule(i)' = Rule(i)
        BY <2>1 DEF Rule, ChunkView
      <3>10. ASSUME NEW table \in {"local", "policy"}, NEW i \in DOMAIN newIds, Pending(table, i)
             PROVE  w = [table |-> table, rule |-> Rule(i)] \/ Pending(table, i)'
        BY <3>3, <3>9, <3>10 DEF Pending
      <3>11. \A k \in DOMAIN writes' : \E i \in DOMAIN newIds : writes'[k].rule = Rule(i)
        BY <3>1, <3>3 DEF Progress
      <3>12. ASSUME NEW i \in DOMAIN newIds
             PROVE  /\ Rule(i) \in local' \/ Pending("local", i)'
                    /\ gpo => Rule(i) \in policy' \/ Pending("policy", i)'
        BY <3>1, <3>6, <3>8, <3>10 DEF Progress
      <3> QED
        BY <1>1, <2>1, <3>9, <3>11, <3>12 DEF Progress
    <2> QED
      BY <1>1, <2>1, <2>2, <2>3, <2>4 DEF WindowsExact
  <1>3. CASE ReturnError /\ Fails((OursWindows \union {w.rule.id}) \ Recorded)
    BY <1>1, <1>3 DEF ReturnError, Fails, WindowsExact
  <1> QED
    BY <1>2, <1>3 DEF WriteRule

\* When everything is written, a table that has the rules has no others.
LEMMA TableComplete ==
    ASSUME NEW table, Unique(table), Ids(table) \subseteq NewIds,
           \A i \in DOMAIN newIds : Rule(i) \in table
    PROVE  UNION {r.view : r \in table} = UNION {ChunkView(i) : i \in DOMAIN newIds}
  <1>1. ASSUME NEW r \in table PROVE \E i \in DOMAIN newIds : r = Rule(i)
    <2>1. PICK i \in DOMAIN newIds : r.id = newIds[i]
      BY DEF Ids, NewIds
    <2>2. Rule(i) \in table /\ Rule(i).id = r.id
      BY <2>1 DEF Rule
    <2> QED
      BY <2>2 DEF Unique
  <1>2. \A i : Rule(i).view = ChunkView(i)
    BY DEF Rule
  <1>3. {r.view : r \in table} = {ChunkView(i) : i \in DOMAIN newIds}
    BY <1>1, <1>2
  <1> QED
    BY <1>3

LEMMA WindowsExactSave ==
    ASSUME Driving, DriverTyped, WindowsHeld, WindowsTyped, WindowsExact, SaveIds
    PROVE  WindowsExact'
  <1>1. /\ pc = "surplus" /\ pc' = "idle" /\ todo = {} /\ writes = <<>>
        /\ UNCHANGED <<local, policy, policyKey, gpo, withdrawn>>
    BY DEF SaveIds, ReturnOk, ReturnError
  <1>2. CASE ReturnOk
    <2>1. exact' = quiet /\ reported' = want /\ stray' = stray
      BY <1>2 DEF ReturnOk
    <2>2. ASSUME exact', stray' = {}, ~withdrawn' PROVE ResolverWindows' = Asked(reported)'
      <3>1. Progress /\ policyKey = gpo /\ Len(newIds) = Chunks(want.suffixes)
        BY <1>1, <2>1, <2>2 DEF WindowsExact
      <3>2. OursWindows \subseteq NewIds
        BY <1>1, <2>1, <2>2 DEF WindowsHeld, InReach
      <3>3. DOMAIN newIds = 1 .. Chunks(want.suffixes)
        BY <3>1 DEF WindowsHeld
      <3>4. \A i \in DOMAIN newIds : Rule(i) \in local /\ (gpo => Rule(i) \in policy)
        BY <1>1, <3>1 DEF Progress, Pending
      <3>5. UNION {r.view : r \in local} = UNION {ChunkView(i) : i \in DOMAIN newIds}
        BY <3>2, <3>4, TableComplete DEF WindowsTyped, OursWindows
      <3>6. gpo => UNION {r.view : r \in policy} = UNION {ChunkView(i) : i \in DOMAIN newIds}
        BY <3>2, <3>4, TableComplete DEF WindowsTyped, OursWindows
      <3>7. ResolverWindows = UNION {ChunkView(i) : i \in DOMAIN newIds}
        BY <3>1, <3>5, <3>6 DEF ResolverWindows
      <3>8. ResolverWindows' = ResolverWindows
        BY <1>1 DEF ResolverWindows
      <3>9. UNION {ChunkView(i) : i \in DOMAIN newIds} = Asked(want)
        BY <3>3, ChunksCover, WantedAsked DEF Driving
      <3>10. Asked(reported)' = Asked(want)
        BY <2>1 DEF Asked
      <3> QED
        BY <3>7, <3>8, <3>9, <3>10
    <2> QED
      BY <1>1, <2>1, <2>2 DEF WindowsExact
  <1>3. CASE ReturnError /\ Fails(OursWindows \ Recorded)
    BY <1>1, <1>3 DEF ReturnError, Fails, WindowsExact
  <1> QED
    BY <1>2, <1>3 DEF SaveIds

LEMMA WindowsExactStep ==
    ASSUME Driving, DriverTyped, WindowsHeld, WindowsTyped, WindowsExact, WindowsNext
    PROVE  WindowsExact'
  <1>1. CASE DnsDriver /\ UNCHANGED windowsVars
    <2>1. ResolverWindows' = ResolverWindows
      BY <1>1 DEF windowsVars, ResolverWindows
    <2>2. Asked(reported)' = Asked(reported)
      BY <1>1 DEF DnsDriver, Begin, ApplyDns, Teardown, StartUp, Asked
    <2> QED
      BY <1>1, <2>1, <2>2 DEF DnsDriver, Begin, ApplyDns, Teardown, StartUp, Smooth, Interference, windowsVars,
         WindowsExact
  <1>2. CASE Install
    BY <1>2, WindowsExactInstall
  <1>3. CASE DeleteOne
    BY <1>3, WindowsExactDelete
  <1>4. CASE WriteRule
    BY <1>4, WindowsExactWrite
  <1>5. CASE SaveIds
    BY <1>5, WindowsExactSave
  <1>6. CASE ClearRules \/ SaveNoIds \/ DropPolicyKey
    <2>1. ~exact' /\ pc' \notin {"install", "surplus"} /\ stray \subseteq stray'
      BY <1>6 DEF ClearRules, SaveNoIds, DropPolicyKey, Finish, Reverted, CleanedUp, GoOn, Smooth, Fails, WindowsExact
    <2>2. (policyKey' = FALSE /\ gpo' = FALSE) \/ UNCHANGED <<policyKey, gpo, withdrawn>>
      BY <1>6 DEF ClearRules, SaveNoIds, DropPolicyKey
    <2> QED
      BY <2>1, <2>2 DEF WindowsExact
  <1>7. CASE WindowsKilled
    BY <1>7 DEF WindowsKilled, Killed, Interference, WindowsExact
  <1>8. CASE GpoChanges
    <2>1. /\ pc' = pc /\ newIds' = newIds /\ want' = want /\ todo' = todo
          /\ policyKey' = TRUE /\ (~withdrawn' => gpo' = TRUE) /\ ~exact' /\ ~quiet'
      BY <1>8 DEF GpoChanges, Interference, WindowsTyped
    <2>2. NewIds' = NewIds /\ Chunks(want.suffixes)' = Chunks(want.suffixes)
      BY <2>1 DEF NewIds, Chunks
    <2> QED
      BY <2>1, <2>2 DEF WindowsExact
  <1> QED
    BY <1>1, <1>2, <1>3, <1>4, <1>5, <1>6, <1>7, <1>8 DEF WindowsNext

-----------------------------------------------------------------------------
(* Types and the report *)

\* The managers of the other platforms stay as they are.
Typed ==
    /\ DriverTyped /\ DarwinTypeOK /\ LinuxTypeOK /\ WindowsTyped
    /\ platform = "linux" => LinuxTyped

Exact ==
    /\ platform = "macos" => DarwinExact
    /\ platform = "linux" => LinuxExact
    /\ platform = "windows" => WindowsExact

LEMMA ExactInit == Init => Typed /\ Exact
  <1> SUFFICES ASSUME Init PROVE Typed /\ Exact
    OBVIOUS
  <1>1. DriverTyped
    <2>1. <<>> \in [1 .. 0 -> Name] /\ <<Blank>> \in [1 .. 1 -> Name] /\ \A s \in Suffixes : <<s>> \in [1 .. 1 -> Name]
      BY DEF Name
    <2>2. {} \in ServerList
      BY FS_EmptySet, DnsAssumption DEF ServerList
    <2> DEFINE Lists == UNION {[1 .. n -> Name] : n \in 0 .. 2}
    <2>3. \A n \in 0 .. 2 : [1 .. n -> Name] \subseteq Lists
      OBVIOUS
    <2>4. 0 \in 0 .. 2 /\ 1 \in 0 .. 2
      OBVIOUS
    <2> HIDE DEF Lists
    <2>5. <<>> \in Lists /\ <<Blank>> \in Lists /\ \A s \in Suffixes : <<s>> \in Lists
      BY <2>1, <2>3, <2>4
    <2>6. Request = [suffixes : Lists, servers : ServerList]
      BY DEF Request, Lists
    <2>7. NoRequest \in Request /\ Profile \subseteq Request
      BY <2>2, <2>5, <2>6 DEF NoRequest, Profile
    <2>8. profile \in Profile /\ want = NoRequest /\ reported = None /\ platform \in Platforms
      BY DEF Init, DnsInit, Profile
    <2>9. faults \in 0 .. MaxFaults /\ crashes \in 0 .. MaxCrashes
      BY DnsAssumption DEF Init, DnsInit
    <2>10. attempt \in BOOLEAN /\ quiet \in BOOLEAN /\ exact \in BOOLEAN
      BY DEF Init, DnsInit
    <2> QED
      BY <2>7, <2>8, <2>9, <2>10, Zenon DEF DriverTyped, DnsTypeOK
  <1>2. /\ pc = "idle" /\ exact = FALSE /\ quiet = FALSE
    BY DEF Init, DnsInit
  <1>3. DarwinTypeOK
    BY DEF Init, DarwinInit, DarwinTypeOK, File, NoFile
  <1>4. LinuxTypeOK /\ (platform = "linux" => LinuxTyped)
    <2>1. setting = [l \in Links |-> NoSetting] /\ backend = None /\ lastLink = None /\ backup = None /\ tun = None
      BY DEF Init, LinuxInit
    <2>2. conf \in Content /\ (platform = "linux" => conf.by \in Host)
      BY LinuxAssumption DEF Init, LinuxInit, Content
    <2> QED
      BY <2>1, <2>2 DEF LinuxTypeOK, LinuxTyped, NoSetting, Setting
  <1>5. WindowsTyped /\ policyKey = gpo
    <2>1. /\ local = {} /\ policy = {} /\ owned = <<>> /\ writes = <<>> /\ newIds = <<>>
          /\ gpo \in BOOLEAN /\ policyKey = gpo /\ withdrawn = FALSE
      BY DEF Init, WindowsInit
    <2>2. OursWindows = {} /\ Recorded = {} /\ NewIds = {}
      BY <2>1 DEF OursWindows, Ids, Recorded, NewIds
    <2> QED
      BY <2>1, <2>2, EmptyIds DEF WindowsTyped, Unique
  <1> QED
    BY <1>1, <1>2, <1>3, <1>4, <1>5 DEF Typed, Exact, DarwinExact, LinuxExact, WindowsExact

LEMMA WindowsExactSame == WindowsExact /\ UNCHANGED <<dnsVars, windowsVars>> => WindowsExact'
  <1> SUFFICES ASSUME WindowsExact, UNCHANGED <<dnsVars, windowsVars>> PROVE WindowsExact'
    OBVIOUS
  <1>1. UNCHANGED <<pc, todo, want, reported, quiet, exact, stray, withdrawn, policyKey, gpo, newIds, writes, local, policy>>
    BY DEF dnsVars, windowsVars
  <1>2. ResolverWindows' = ResolverWindows /\ Asked(reported)' = Asked(reported) /\ NewIds' = NewIds
    BY <1>1 DEF ResolverWindows, Asked, NewIds
  <1>3. Chunks(want.suffixes)' = Chunks(want.suffixes) /\ \A i : Rule(i)' = Rule(i)
    BY <1>1 DEF Chunks, Rule, ChunkView
  <1>4. Progress => Progress'
    BY <1>1, <1>3 DEF Progress, Pending
  <1> QED
    BY <1>1, <1>2, <1>3, <1>4 DEF WindowsExact

LEMMA ExactStep == Inv /\ Known /\ Typed /\ Exact /\ [Next]_vars => Typed' /\ Exact'
  <1> SUFFICES ASSUME Inv, Known, Typed, Exact, [Next]_vars PROVE Typed' /\ Exact'
    OBVIOUS
  <1>0. Driving /\ Held /\ DriverTyped
    BY DEF Inv, Typed
  <1>1. DriverTyped'
    BY <1>0, DriverTypedStep
  <1>2. UNCHANGED darwinVars => DarwinTypeOK'
    BY DEF Typed, darwinVars, DarwinTypeOK
  <1>3. UNCHANGED linuxVars => LinuxTypeOK'
    BY DEF Typed, linuxVars, LinuxTypeOK
  <1>4. UNCHANGED windowsVars => WindowsTyped'
    BY WindowsTypedSame DEF Typed
  <1>5. CASE platform = "macos" /\ DarwinNext /\ UNCHANGED <<linuxVars, windowsVars>>
    <2>1. platform' = "macos"
      BY <1>5, DarwinMoves DEF Moves
    <2>2. DarwinHeld /\ DarwinExact /\ DarwinTypeOK
      BY <1>0, <1>5 DEF Held, Exact, Typed
    <2>3. DarwinExact' /\ DarwinTypeOK'
      BY <1>0, <1>5, <2>2, DarwinExactStep, DarwinTypedStep
    <2> QED
      BY <1>1, <1>3, <1>4, <1>5, <2>1, <2>3 DEF Typed, Exact
  <1>6. CASE platform = "linux" /\ LinuxNext /\ UNCHANGED <<darwinVars, windowsVars>>
    <2>1. platform' = "linux"
      BY <1>6, LinuxMoves DEF Moves
    <2>2. LinuxHeld /\ LinuxExact /\ LinuxTyped
      BY <1>0, <1>6 DEF Held, Exact, Typed
    <2>3. LinuxExact' /\ LinuxTyped'
      BY <1>0, <1>6, <2>2, LinuxExactStep, LinuxTypedStep
    <2>4. LinuxTypeOK'
      BY <2>3 DEF LinuxTyped
    <2> QED
      BY <1>1, <1>2, <1>4, <1>6, <2>1, <2>3, <2>4 DEF Typed, Exact
  <1>7. CASE platform = "windows" /\ WindowsNext /\ UNCHANGED <<darwinVars, linuxVars>>
    <2>1. platform' = "windows"
      BY <1>7, WindowsMoves DEF Moves
    <2>2. WindowsHeld /\ WindowsExact /\ WindowsTyped
      BY <1>0, <1>7 DEF Held, Exact, Typed
    <2>3. WindowsExact' /\ WindowsTyped'
      BY <1>0, <1>7, <2>2, WindowsExactStep, WindowsTypedStep
    <2> QED
      BY <1>1, <1>2, <1>3, <1>7, <2>1, <2>3 DEF Typed, Exact
  <1>8. CASE UNCHANGED vars
    <2>1. UNCHANGED <<darwinVars, linuxVars, windowsVars, dnsVars>>
      BY <1>8 DEF vars
    <2>2. DarwinExact => DarwinExact'
      BY <2>1 DEF dnsVars, darwinVars, DarwinExact, ResolverDarwin, OursDarwin, View, Desired, Done
    <2>3. (LinuxExact => LinuxExact') /\ (LinuxTyped => LinuxTyped')
      BY <2>1 DEF dnsVars, linuxVars, LinuxExact, LinuxTyped, LinuxTypeOK, ResolverLinux, View, Asked
    <2>4. WindowsExact => WindowsExact'
      BY <2>1, WindowsExactSame
    <2>5. platform' = platform
      BY <2>1 DEF dnsVars
    <2> QED
      BY <1>1, <1>2, <1>3, <1>4, <2>1, <2>2, <2>3, <2>4, <2>5 DEF Typed, Exact
  <1> QED
    BY <1>5, <1>6, <1>7, <1>8 DEF Next

LEMMA ExactCorrect == Spec => [](Inv /\ Known /\ Typed /\ Exact)
  BY InvInit, InvNext, PlatformKnown, ExactInit, ExactStep, PTL DEF Spec

\* The driver and the three managers keep their state well-formed: what is
\* collected from a profile and a push is always a request, a rule is in a
\* table at most once although identifiers are used again, and the policy
\* table has its key before it has a rule.
THEOREM TypeCorrect == Spec => []TypeOK
  <1>1. Typed => TypeOK
    BY Zenon DEF Typed, TypeOK, DriverTyped, WindowsTyped, WindowsTypeOK, Unique
  <1> QED
    BY <1>1, ExactCorrect, PTL

\* The DNS set that the status reports is what the resolver does, on each
\* platform and for any sequence of applies with any sets: files pruned and
\* rewritten, settings of a link or a whole resolv.conf, suffixes cut into
\* rules that take over the identifiers of the rules before them.  A blank
\* suffix of the profile is at most one entry more, for every name, and on
\* macOS none.
THEOREM ReportCorrect == Spec => []ReportMatchesResolver
  <1>1. ASSUME Known, Exact PROVE ReportMatchesResolver
    <2> SUFFICES ASSUME pc = "idle", exact, stray = {}, ~withdrawn
                 PROVE  \/ Resolver = View(reported)
                        \/ platform # "macos" /\ Resolver = Asked(reported)
      BY DEF ReportMatchesResolver
    <2>1. CASE platform = "macos"
      BY <1>1, <2>1 DEF Exact, DarwinExact, Resolver
    <2>2. CASE platform = "linux"
      BY <1>1, <2>2 DEF Exact, LinuxExact, Resolver
    <2>3. CASE platform = "windows"
      BY <1>1, <2>3 DEF Exact, WindowsExact, Resolver
    <2> QED
      BY <1>1, <2>1, <2>2, <2>3 DEF Known
  <1> QED
    BY <1>1, ExactCorrect, PTL

=============================================================================
