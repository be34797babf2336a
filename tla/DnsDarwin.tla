------------------------------ MODULE DnsDarwin ------------------------------
(***************************************************************************)
(* The macOS manager: one file per suffix in /etc/resolver, a directory    *)
(* shared with other tools.  A file of ours is known by its first line.    *)
(* Other tools and the user create, replace and delete files at any time,  *)
(* also between the pre-flight check and the writes of one update().       *)
(***************************************************************************)
EXTENDS Dns

VARIABLES
    file,      \* /etc/resolver: whose the file of a suffix is, and the servers in ours
    written,   \* DnsGuard::written
    kept       \* history: foreign files that were there when the current call began

darwinVars == <<file, written, kept>>

File == [who : {"nobody", "other"}, servers : {{}}] \union [who : {"azvpn"}, servers : SUBSET Servers]
NoFile == [who |-> "nobody", servers |-> {}]
Foreign == {s \in Suffixes : file[s].who = "other"}
OursDarwin == {s \in Suffixes : file[s].who = "azvpn"}

DarwinInit ==
    /\ file \in [Suffixes -> [who : {"nobody", "other"}, servers : {{}}]]
    /\ written = {}
    /\ kept = {}

DarwinTypeOK ==
    /\ file \in [Suffixes -> File]
    /\ written \subseteq Suffixes
    /\ kept \subseteq Suffixes

-----------------------------------------------------------------------------
(* DnsGuard::update *)

Desired == Names(want.suffixes)

\* remove() begins: the record is taken, the files follow one by one.
Remove(where) ==
    /\ written' = {}
    /\ kept' = Foreign
    /\ UNCHANGED file
    /\ GoOn(where, written)
    /\ Smooth

\* Plausible slip: files this guard has written before are not checked again.
CheckWritableNew == (Desired \ written) \intersect Foreign = {}

\* check_writable on every desired file.
CheckWritable == Desired \intersect Foreign = {}

\* normalize_suffixes refuses a malformed name before anything is touched;
\* nothing to claim is a teardown; a foreign file is a conflict.
Update ==
    /\ pc = "install"
    /\ \/ /\ Malformed \in Desired
          /\ ReturnError /\ Smooth /\ UNCHANGED darwinVars
       \/ /\ Desired = {}
          /\ Remove("drop")
       \/ /\ Malformed \notin Desired /\ Desired # {}
          /\ \/ ReturnError /\ Fails({}) /\ UNCHANGED darwinVars   \* create_dir_all
             \/ /\ ~CheckWritable
                /\ ReturnError /\ Smooth /\ UNCHANGED darwinVars
             \/ /\ CheckWritable
                /\ GoOn("write", Desired) /\ Smooth
                /\ kept' = Foreign
                /\ UNCHANGED <<file, written>>

\* write_resolver_file: a rename puts the whole file in place.  An error ends
\* update() with the record of written files as it was.
WriteOne ==
    /\ pc = "write" /\ todo # {}
    /\ \/ \E s \in todo :
            /\ file' = [file EXCEPT ![s] = [who |-> "azvpn", servers |-> want.servers]]
            /\ GoOn("write", todo \ {s})
            /\ Smooth
       \/ /\ Fails((Desired \ todo) \ written)
          /\ ReturnError
          /\ UNCHANGED file
    /\ UNCHANGED <<written, kept>>

\* The files of the last set that are no longer wanted come next.
Written ==
    /\ pc = "write" /\ todo = {}
    /\ GoOn("prune", written \ Desired)
    /\ Smooth
    /\ UNCHANGED darwinVars

\* remove_if_ours: a file that is absent, foreign or unreadable is left alone.
RemoveIfOurs(s) ==
    \/ /\ file' = [file EXCEPT ![s] = IF s \in OursDarwin THEN NoFile ELSE @]
       /\ Smooth
    \/ /\ s \in OursDarwin
       /\ Fails({s})
       /\ UNCHANGED file

RemoveOne ==
    /\ pc \in {"prune", "drop", "remove", "sweep"}
    /\ \E s \in todo : RemoveIfOurs(s) /\ GoOn(pc, todo \ {s})
    /\ UNCHANGED <<written, kept>>

Updated ==
    /\ pc \in {"prune", "drop"} /\ todo = {}
    /\ written' = IF pc = "prune" THEN Desired ELSE written
    /\ ReturnOk
    /\ UNCHANGED <<file, kept>>

-----------------------------------------------------------------------------
(* DnsGuard::remove and the start-up pass *)

Clear ==
    /\ pc = "revert"
    /\ Remove("remove")

Cleared ==
    /\ pc = "remove" /\ todo = {}
    /\ Reverted /\ Smooth
    /\ UNCHANGED darwinVars

\* cleanup_orphan_dns: every file with our first line, whoever wrote it.
Scan ==
    /\ pc = "cleanup"
    /\ kept' = Foreign
    /\ \/ GoOn("sweep", OursDarwin) /\ stray' = {} /\ UNCHANGED <<quiet, exact, faults>>
       \/ GoOn("sweep", {}) /\ Fails(OursDarwin)
    /\ UNCHANGED <<file, written>>

Swept ==
    /\ pc = "sweep" /\ todo = {}
    /\ CleanedUp /\ Smooth
    /\ UNCHANGED darwinVars

DarwinKilled ==
    /\ Killed({})
    /\ written' = {}
    /\ UNCHANGED <<file, kept>>

\* Another tool or the user creates, replaces or deletes a file.
OtherTool ==
    /\ \E s \in Suffixes, f \in [who : {"nobody", "other"}, servers : {{}}] :
        /\ file[s] # f
        /\ file' = [file EXCEPT ![s] = f]
        /\ kept' = kept \ {s}
    /\ Interference
    /\ UNCHANGED <<platform, profile, pc, attempt, want, todo, reported, stray, faults, crashes, written>>

DarwinNext ==
    \/ DnsDriver /\ UNCHANGED darwinVars
    \/ Update \/ WriteOne \/ Written \/ RemoveOne \/ Updated
    \/ Clear \/ Cleared \/ Scan \/ Swept
    \/ DarwinKilled \/ OtherTool

\* What the resolver does with our files.
ResolverDarwin == {<<s, file[s].servers>> : s \in OursDarwin}

=============================================================================
