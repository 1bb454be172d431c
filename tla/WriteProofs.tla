---------------------------- MODULE WriteProofs ----------------------------
(***************************************************************************)
(* Theorems about what a call may write.  How a fix reaches the disk, for  *)
(* every repository, every arrangement of links in it and every write      *)
(* surface (Patcher); and, for every sequence of calls in one process,     *)
(* which repository they write in and on which settings (Session).         *)
(***************************************************************************)
EXTENDS Patcher, Session, FiniteSetTheorems, TLAPS

Hand == Target[name]

Late == {"compute", "temp", "write", "sync", "replace"}

----------------------------------------------------------------------------
\* Types, and files that are never cut short

\* A name that does not share its inode has an inode of its own.
OwnInode == \A n \in Real : /\ inode[n] \in Real => inode[n] = n
                            /\ n \notin exists => inode[n] = n

Settled == {"plain", "vault"}

\* Every file is whole and on the disk, and the temporary file comes to be so
\* in two steps: the text, then the disk.
Whole == /\ \A i \in Inodes : data[i].text \in Settled
         /\ buffer.text \in Settled
         /\ pc = "sync" => temp.text = "unsynced"
         /\ pc = "replace" => temp.text = "plain"

\* Past the gates the path has been followed to a real one in the surface.
Passed == /\ pc # "idle" => name \in Names
          /\ pc \in Late => Hand \in Surface \cap Real
          /\ pc \in {"temp", "write", "sync", "replace"} => buffer.text = "plain"

DiskInv == TypeOK /\ OwnInode /\ Whole /\ Passed

LEMMA SurfaceIsInside == \A n \in Names : Target[n] \in Surface
                                            => Target[n] \in Real
  BY PathAssumption DEF PathAssumption, Names

LEMMA InitDisk == Init => DiskInv
<1> SUFFICES ASSUME Init PROVE DiskInv
  OBVIOUS
<1>1. TypeOK
  BY DEF Init, TypeOK, Plain, Content, Authors
<1>2. OwnInode /\ Passed
  BY DEF Init, OwnInode, Passed, Late
<1>3. Whole
  <2>1. data \in [Inodes -> [text : Settled, by : {{}}]]
    BY DEF Init, Settled
  <2> QED
    BY <2>1 DEF Init, Whole, Plain, Settled
<1> QED
  BY <1>1, <1>2, <1>3 DEF DiskInv

LEMMA NextDisk == DiskInv /\ [Next]_vars => DiskInv'
<1> SUFFICES ASSUME DiskInv, [Next]_vars
             PROVE  DiskInv'
  OBVIOUS
<1> USE PathAssumption DEF DiskInv, TypeOK, OwnInode, Whole, Passed, Late,
                           Hand, Plain, Inodes, Settled, PathAssumption
<1>1. ASSUME NEW n \in Names, Start(n)
      PROVE  DiskInv'
  BY <1>1 DEF Start, disk
<1>2. CASE Check
  BY <1>2 DEF Check, Done, Go, disk, Content
<1>3. CASE Gates
  <2>1. CASE pc' = "idle"
    BY <1>3, <2>1 DEF Gates, Done, disk, Content
  <2>2. CASE pc' # "idle"
    <3>1. Hand \in Surface \cap Real
      BY <1>3, <2>2, SurfaceIsInside
      DEF Gates, Done, NotAllowed, IsPathAllowed, EscapesRepo
    <3>2. buffer' \in Content /\ buffer'.text \in Settled
      BY <1>3, <2>2, <3>1 DEF Gates, Done, File, Content
    <3> QED
      BY <1>3, <2>2, <3>1, <3>2 DEF Gates, Done, disk
  <2> QED
    BY <2>1, <2>2
<1>4. CASE Compute
  BY <1>4 DEF Compute, Done, Go, disk, Content
<1>5. CASE MakeTemp \/ Write \/ Sync
  <2>1. CASE MakeTemp
    BY <2>1 DEF MakeTemp, Done, disk, Content
  <2>2. CASE Write
    <3>1. [Patched EXCEPT !.text = "unsynced"] \in Content
      BY <2>2 DEF Patched, Content, Authors
    <3>2. [Patched EXCEPT !.text = "unsynced"].text = "unsynced"
      BY <2>2 DEF Patched, Content
    <3> QED
      BY <2>2, <3>1, <3>2 DEF Write, Done, disk, Content
  <2>3. CASE Sync
    BY <2>3 DEF Sync, Done, disk, Content
  <2> QED
    BY <1>5, <2>1, <2>2, <2>3
<1>6. CASE Replace
  <2>1. Hand \in Real /\ temp \in Content /\ temp.text = "plain"
    BY <1>6 DEF Replace
  <2>2. CASE Put(Hand, temp) /\ Go("commit")
    <3>1. exists' \subseteq Real
      BY <2>1, <2>2 DEF Put
    <3>2. inode' \in [Real -> Inodes] /\ OwnInode'
      BY <2>1, <2>2 DEF Put
    <3>3. data' \in [Inodes -> Content]
      BY <2>1, <2>2 DEF Put
    <3>4. \A i \in Inodes : data'[i].text \in Settled
      BY <2>1, <2>2 DEF Put
    <3> QED
      BY <1>6, <2>1, <2>2, <3>1, <3>2, <3>3, <3>4 DEF Replace, Go
  <2>3. CASE UNCHANGED disk /\ Done
    BY <1>6, <2>3 DEF Replace, Done, disk, Content
  <2> QED
    BY <1>6, <2>2, <2>3 DEF Replace
<1>7. CASE Commit
  <2>1. \A i \in Inodes : data'[i] \in Content /\ data'[i].text \in Settled
    BY <1>7 DEF Commit, Content
  <2>2. data' \in [Inodes -> Content]
    BY <1>7, <2>1 DEF Commit
  <2> QED
    BY <1>7, <2>1, <2>2 DEF Commit, Done, Content
<1>8. CASE Kill \/ PowerCut
  <2>1. UNCHANGED disk
    BY <1>8 DEF Kill, PowerCut, disk
  <2> QED
    BY <1>8, <2>1 DEF Kill, PowerCut, Done, disk, Content
<1>9. ASSUME NEW n \in Real, Operator(n)
      PROVE  DiskInv'
  <2>1. \A i \in Inodes : data'[i] \in Content /\ data'[i].text \in Settled
    BY <1>9 DEF Operator, Content, Authors
  <2>2. data' \in [Inodes -> Content]
    BY <1>9, <2>1 DEF Operator
  <2> QED
    BY <1>9, <2>1, <2>2 DEF Operator
<1>10. CASE UNCHANGED vars
  BY <1>10 DEF vars
<1> QED
  BY <1>1, <1>2, <1>3, <1>4, <1>5, <1>6, <1>7, <1>8, <1>9, <1>10
  DEF Next, Agent

\* The disk is well-typed through any fixes, failures, kills and edits.
THEOREM Typed == Spec => []TypeOK
<1>1. DiskInv => TypeOK
  BY DEF DiskInv
<1> QED
  BY InitDisk, NextDisk, <1>1, PTL DEF Spec

\* No file is ever cut short, wherever a write fails, the process dies or the
\* power is cut: the rename finds a temporary file that is whole and on the
\* disk (patcher._write_atomically).
THEOREM NeverCutShort == Spec => []OldOrNew
<1>1. DiskInv => OldOrNew
  BY DEF DiskInv, TypeOK, Whole, Settled, OldOrNew, File, Inodes
<1> QED
  BY InitDisk, NextDisk, <1>1, PTL DEF Spec

----------------------------------------------------------------------------
\* The file in hand, from the gates to the write

\* It shares its inode with no other file, and is what apply_fix read; a power
\* cut takes nothing from a file that is on the disk.
Alone == pc \in Late /\ Hand \in exists =>
           /\ \A m \in exists : inode[m] = inode[Hand] => m = Hand
           /\ buffer = File(Hand)

HandInv == DiskInv /\ Alone

LEMMA OneLink ==
  ASSUME TypeOK, NEW n \in exists, ~(Cardinality(Links(n)) > 1)
  PROVE  \A m \in exists : inode[m] = inode[n] => m = n
<1>1. IsFiniteSet(Links(n))
  BY FS_Subset, PathAssumption DEF Links, TypeOK, PathAssumption
<1>2. SUFFICES ASSUME NEW m \in exists, inode[m] = inode[n], m # n
               PROVE  FALSE
  OBVIOUS
<1>3. {m, n} \subseteq Links(n)
  BY <1>2 DEF Links
<1>4. Cardinality({m, n}) = 2
  <2>1. IsFiniteSet({n}) /\ Cardinality({n}) = 1
    BY FS_Singleton
  <2>2. {m, n} = {n} \cup {m} /\ m \notin {n}
    BY <1>2
  <2> QED
    BY <2>1, <2>2, FS_AddElement
<1>5. Cardinality({m, n}) <= Cardinality(Links(n))
  BY <1>1, <1>3, FS_Subset
<1> QED
  BY <1>1, <1>4, <1>5, FS_CardinalityType

LEMMA InitHand == Init => HandInv
  BY InitDisk DEF Init, HandInv, Alone, Late

LEMMA NextHand == HandInv /\ [Next]_vars => HandInv'
<1> SUFFICES ASSUME HandInv, [Next]_vars
             PROVE  Alone'
  BY NextDisk DEF HandInv
<1> USE DEF HandInv, Alone, Late, Hand, File
<1>1. CASE Gates
  BY <1>1, OneLink DEF Gates, Refused, Done, disk, DiskInv
<1>2. CASE Compute \/ MakeTemp \/ Write \/ Sync
  BY <1>2 DEF Compute, MakeTemp, Write, Sync, Go, Done, disk
<1>3. ASSUME NEW n \in Real, Operator(n)
      PROVE  Alone'
  <2>1. UNCHANGED <<exists, inode, pc, name, buffer>>
    BY <1>3 DEF Operator
  <2>2. ASSUME pc \in Late, Hand \in exists
        PROVE  data'[inode[Hand]] = data[inode[Hand]]
    <3>1. inode[Hand] # inode[n]
      BY <1>3, <2>2 DEF Operator, Links
    <3> QED
      BY <1>3, <3>1, <2>2 DEF Operator, DiskInv, TypeOK
  <2> QED
    BY <2>1, <2>2
<1>4. CASE \/ Check \/ Replace \/ Commit \/ Kill \/ PowerCut
           \/ \E n \in Names : Start(n)
  <2>1. pc' \notin Late
    BY <1>4 DEF Check, Replace, Commit, Kill, PowerCut, Start, Go, Done
  <2> QED
    BY <2>1
<1>5. CASE UNCHANGED vars
  BY <1>5 DEF vars
<1> QED
  BY <1>1, <1>2, <1>3, <1>4, <1>5 DEF Next, Agent

LEMMA HandInvariant == Spec => []HandInv
  BY InitHand, NextHand, PTL DEF Spec

\* The steps that leave the files alone.
LEMMA StepKeepsDisk ==
  ASSUME DiskInv,
         \/ Check \/ Gates \/ Compute \/ MakeTemp \/ Write \/ Sync \/ Kill
         \/ PowerCut \/ \E n \in Names : Start(n)
  PROVE  UNCHANGED disk
<1>1. CASE PowerCut
  BY <1>1 DEF DiskInv, TypeOK, Whole, Settled, PowerCut, disk
<1> QED
  BY <1>1 DEF Check, Gates, Compute, MakeTemp, Write, Sync, Kill, Start

\* Only os.replace gives a file a new inode or an edit of the agent's, and
\* it gives them to the file in hand.
LEMMA OnlyReplace ==
  ASSUME HandInv, [Next]_vars
  PROVE  \/ /\ UNCHANGED <<exists, inode>>
            /\ \A i \in Inodes : "agent" \in data'[i].by
                                   => "agent" \in data[i].by
         \/ pc = "replace" /\ Put(Hand, temp)
<1> USE DEF HandInv, DiskInv, TypeOK, Hand
<1>1. CASE Commit
  BY <1>1 DEF Commit, Content
<1>2. ASSUME NEW n \in Real, Operator(n)
      PROVE  /\ UNCHANGED <<exists, inode>>
             /\ \A i \in Inodes : "agent" \in data'[i].by
                                    => "agent" \in data[i].by
  BY <1>2 DEF Operator, Content
<1>3. CASE Replace
  BY <1>3 DEF Replace, disk
<1>4. CASE \/ Check \/ Gates \/ Compute \/ MakeTemp \/ Write \/ Sync \/ Kill
           \/ PowerCut \/ \E n \in Names : Start(n)
  BY <1>4, StepKeepsDisk DEF disk
<1>5. CASE UNCHANGED vars
  BY <1>5 DEF vars, disk
<1> QED
  BY <1>1, <1>2, <1>3, <1>4, <1>5 DEF Next, Agent, disk

\* A real path outside the write surface keeps its inode, its content as far
\* as the agent goes, and its other names (apply_fix, gates 1, 2b and 2c).
THEOREM OutsideSafe == Spec => OutsideUntouched
<1>1. ASSUME HandInv, [Next]_vars
      PROVE  [\A n \in Real \ Surface :
                /\ inode'[n] = inode[n]
                /\ "agent" \in data'[inode[n]].by
                     => "agent" \in data[inode[n]].by
                /\ n \in exists =>
                     {m \in exists' : inode'[m] = inode'[n]} = Links(n)]_vars
  <2> USE <1>1 DEF HandInv, DiskInv, TypeOK
  <2>1. SUFFICES ASSUME pc = "replace", Put(Hand, temp),
                        NEW n \in Real \ Surface
                 PROVE  /\ inode'[n] = inode[n]
                        /\ "agent" \in data'[inode[n]].by
                             => "agent" \in data[inode[n]].by
                        /\ n \in exists =>
                             {m \in exists' : inode'[m] = inode'[n]} = Links(n)
    BY OnlyReplace DEF Links
  <2>2. Hand \in Surface \cap Real
    BY <2>1 DEF Passed, Late
  <2>3. inode[n] # Hand /\ n # Hand
    BY <2>2, <2>1 DEF OwnInode
  <2>4. Hand \in exists => inode[Hand] # inode[n] \/ n \notin exists
    BY <2>1, <2>3 DEF Alone, Late
  <2>5. inode'[n] = inode[n] /\ data'[inode[n]] = data[inode[n]]
    BY <2>1, <2>3 DEF Put
  <2>6. ASSUME n \in exists
        PROVE  {m \in exists' : inode'[m] = inode'[n]} = Links(n)
    <3>1. \A m \in exists' : inode'[m] = inode[n] => m \in Links(n)
      BY <2>1, <2>2, <2>3 DEF Put, Links
    <3>2. \A m \in Links(n) : m \in exists' /\ inode'[m] = inode[n]
      BY <2>1, <2>2, <2>4, <2>6 DEF Put, Links
    <3> QED
      BY <2>5, <3>1, <3>2 DEF Links
  <2> QED
    BY <2>5, <2>6
<1> QED
  BY <1>1, HandInvariant, PTL DEF Spec, OutsideUntouched

\* The agent puts no plaintext over a vault file, whatever name of it the fix
\* uses (apply_fix, gate 2d).
THEOREM VaultSafe == Spec => VaultStaysVault
<1>1. ASSUME HandInv, [Next]_vars
      PROVE  [\A n \in exists :
                File(n).text = "vault" /\ data'[inode'[n]].text # "vault"
                  => "operator" \in data'[inode'[n]].by]_vars
  <2> USE <1>1 DEF HandInv, DiskInv, TypeOK, File
  <2>1. CASE Replace
    <3>1. SUFFICES ASSUME NEW n \in exists, data[inode[n]].text = "vault",
                          Put(Hand, temp)
                   PROVE  data'[inode'[n]].text = "vault"
      BY <2>1 DEF Replace, Hand, disk
    <3>2. Hand \in Real /\ buffer.text = "plain"
      BY <2>1 DEF Replace, Passed, Late
    <3>3. n # Hand
      BY <2>1, <3>1, <3>2 DEF Replace, Alone, Late
    <3>4. inode[n] # Hand
      BY <3>1, <3>3, <3>2 DEF OwnInode
    <3> QED
      BY <3>1, <3>3, <3>4 DEF Put
  <2>2. CASE Commit
    BY <2>2 DEF Commit, Content
  <2>3. ASSUME NEW n \in Real, Operator(n)
        PROVE  \A m \in exists :
                 data[inode[m]].text = "vault" /\ data'[inode'[m]].text # "vault"
                   => "operator" \in data'[inode'[m]].by
    BY <2>3 DEF Operator, Content
  <2>4. CASE \/ Check \/ Gates \/ Compute \/ MakeTemp \/ Write \/ Sync \/ Kill
             \/ PowerCut \/ \E n \in Names : Start(n)
    BY <2>4, StepKeepsDisk DEF disk
  <2> QED
    BY <2>1, <2>2, <2>3, <2>4 DEF Next, Agent
<1> QED
  BY <1>1, HandInvariant, PTL DEF Spec, VaultStaysVault

----------------------------------------------------------------------------
\* The operator's work in the file in hand

\* A path that is not below a symlinked directory is checked for what it
\* resolves to, and the answer still holds when the file is replaced.
CleanHand == pc \in Late \cup {"gates"} /\ Hand \in exists \ Ignored
               => File(Hand).by = {}

LEMMA NextClean ==
  ASSUME DirLinks = {}, HandInv, CleanHand, [Next]_vars
  PROVE  CleanHand'
<1> USE DEF HandInv, DiskInv, TypeOK, CleanHand, Late, Hand, File
<1>1. CASE Check
  <2>1. name \in Names
    BY <1>1 DEF Check, Passed
  <2>2. Hand \in exists => CheckedPath(name) = Hand
    BY <2>1, PathAssumption DEF PathAssumption, CheckedPath, Names
  <2> QED
    BY <1>1, <2>2 DEF Check, StatusShows, Go, Done, disk
<1>2. ASSUME NEW n \in Real, Operator(n)
      PROVE  CleanHand'
  <2>1. UNCHANGED <<exists, inode, pc, name>>
    BY <1>2 DEF Operator
  <2>2. ASSUME pc # "idle", Hand \in exists
        PROVE  data'[inode[Hand]] = data[inode[Hand]]
    <3>1. inode[Hand] # inode[n]
      BY <1>2, <2>2 DEF Operator, Links
    <3> QED
      BY <1>2, <3>1, <2>2 DEF Operator
  <2> QED
    BY <2>1, <2>2
<1>3. CASE Gates \/ Compute \/ MakeTemp \/ Write \/ Sync
  BY <1>3 DEF Gates, Compute, MakeTemp, Write, Sync, Go, Done, disk
<1>4. CASE Replace \/ Commit \/ Kill \/ PowerCut \/ \E n \in Names : Start(n)
  BY <1>4 DEF Replace, Commit, Kill, PowerCut, Start, Go, Done
<1>5. CASE UNCHANGED vars
  BY <1>5 DEF vars
<1> QED
  BY <1>1, <1>2, <1>3, <1>4, <1>5 DEF Next, Agent

\* The agent never replaces a file that holds uncommitted work, whichever of
\* its names the fix uses, unless that is below a symlinked directory
\* (committer.resolved_target follows the last component of a path only) or the
\* file is one git ignores (git_helper.is_dirty asks git status, which does not
\* show it) inside the write surface.
THEOREM WipSafe ==
  ASSUME DirLinks = {}, Ignored \cap Surface = {}
  PROVE  Spec => NeverReplacesWip
<1>1. Init => CleanHand
  BY DEF Init, CleanHand, Late
<1>2. ASSUME HandInv, CleanHand, [Next]_vars
      PROVE  [\A n \in Real :
                "agent" \in data'[inode'[n]].by \ data[inode[n]].by
                  => n \notin exists \/ File(n).by = {}]_vars
  <2> USE <1>2 DEF HandInv, DiskInv, TypeOK
  <2>1. CASE pc = "replace" /\ Put(Hand, temp)
    <3>1. Hand \in Real /\ Hand \notin Ignored
      BY <2>1 DEF Passed, Late
    <3>2. \A n \in Real \ {Hand} : inode[n] # Hand
      BY <3>1 DEF OwnInode
    <3>3. \A n \in Real \ {Hand} : data'[inode'[n]] = data[inode[n]]
      BY <2>1, <3>1, <3>2 DEF Put
    <3> QED
      BY <2>1, <3>1, <3>3 DEF CleanHand, Late
  <2>2. CASE /\ UNCHANGED <<exists, inode>>
             /\ \A i \in Inodes : "agent" \in data'[i].by
                                    => "agent" \in data[i].by
    BY <2>2
  <2> QED
    BY OnlyReplace, <2>1, <2>2
<1>3. CleanHand /\ HandInv /\ [Next]_vars => CleanHand'
  BY NextClean
<1> QED
  BY <1>1, <1>2, <1>3, HandInvariant, PTL DEF Spec, NeverReplacesWip

----------------------------------------------------------------------------
\* The calls of one process: types

\* A failure to handle is there wherever one is handled.
SessionTypeInv ==
  /\ SessionTypeOK
  /\ step \in {"diagnose", "ask", "patch"} => left > 0

LEMMA BeginTypes ==
  ASSUME SessionTypeInv, NEW new \in Calls, Begin(new), settings' \in Settings,
         trusted' \in BOOLEAN
  PROVE  SessionTypeInv'
  BY SessionAssumption
  DEF SessionTypeInv, SessionTypeOK, Begin, SessionAssumption, ChatTypeOK

LEMMA DidTypes ==
  ASSUME SessionTypeOK, NEW what \in Whats, NEW where \in Repos \cup {"outside"}
  PROVE  Deed(what, where) \in Deeds
  BY DEF SessionTypeOK, Deed, Deeds, Calls, Settings

LEMMA NoChatTypes ==
  ASSUME chat' = NoChat \/ chat' = [NoChat EXCEPT !.stage = "resolve"]
  PROVE  ChatTypeOK'
<1>1. <<>> \in Seq(Replies)
  OBVIOUS
<1>2. CASE chat' = NoChat
  BY <1>1, <1>2 DEF NoChat, ChatTypeOK
<1>3. CASE chat' = [NoChat EXCEPT !.stage = "resolve"]
  <2>1. chat' = [stage |-> "resolve", provider |-> "none", replies |-> <<>>,
                 result |-> "none"]
    BY <1>3 DEF NoChat
  <2> QED
    BY <1>1, <2>1 DEF ChatTypeOK
<1> QED
  BY <1>2, <1>3

LEMMA ChatTypes ==
  ASSUME ChatTypeOK, ChatNext
  PROVE  ChatTypeOK'
<1> USE DEF ChatTypeOK
<1>1. CASE Resolve
  <2>1. \A setup \in Setups : Resolved(setup) \subseteq Providers
    BY ChatAssumption DEF ChatAssumption, Resolved, Providers, Listed
  <2>2. <<>> \in Seq(Replies)
    OBVIOUS
  <2>3. CASE Over("error", <<>>)
    BY <2>2, <2>3 DEF Over
  <2>4. ASSUME NEW p \in Providers,
               chat' = [chat EXCEPT !.stage = "ask", !.provider = p]
        PROVE  ChatTypeOK'
    BY <2>4
  <2> QED
    BY <1>1, <2>1, <2>3, <2>4 DEF Resolve
<1>2. ASSUME NEW r \in Replies, Reply(r)
      PROVE  ChatTypeOK'
  <2>1. Append(chat.replies, r) \in Seq(Replies)
    OBVIOUS
  <2>2. Results(r) \subseteq {"answer", "error"}
    BY DEF Results
  <2> QED
    BY <1>2, <2>1, <2>2 DEF Reply, Over
<1>3. CASE Backoff
  BY <1>3 DEF Backoff
<1> QED
  BY <1>1, <1>2, <1>3 DEF ChatNext

LEMMA SessionInitTypes == SessionInit => SessionTypeInv
<1> SUFFICES ASSUME SessionInit
             PROVE  SessionTypeInv
  OBVIOUS
<1>1. ChatTypeOK
  <2>1. <<>> \in Seq(Replies)
    OBVIOUS
  <2> QED
    BY <2>1 DEF SessionInit, NoChat, ChatTypeOK
<1>2. configured \in Settings /\ settings \in Settings /\ saved \in Settings
  BY DEF SessionInit, Settings, Repos
<1>3. call \in Calls
  BY DEF SessionInit, Calls, Modes, Repos
<1>4. left \in 0..(MaxFailures + 1) /\ round \in 0..MaxRounds
  BY SessionAssumption DEF SessionInit, SessionAssumption
<1> QED
  BY <1>1, <1>2, <1>3, <1>4 DEF SessionInit, SessionTypeInv, SessionTypeOK

LEMMA SessionNextTypes ==
  ASSUME SessionTypeInv, [SessionNext]_sessionVars
  PROVE  SessionTypeInv'
<1> USE DEF SessionTypeInv, SessionTypeOK
<1>1. CASE Library
  <2>1. PICK mode \in Modes, llm \in BOOLEAN :
          /\ Begin([by |-> "library", mode |-> mode, repo |-> settings.root,
                    runner |-> settings.runner, llm |-> llm, runs |-> TRUE])
          /\ settings' = DryRunSettings(mode)
          /\ trusted' = (mode # "dry-run")
    BY <1>1 DEF Library
  <2>2. settings' \in Settings /\ settings.root \in Repos
    BY <2>1 DEF DryRunSettings, Settings
  <2> QED
    BY <2>1, <2>2, BeginTypes DEF Calls, Settings
<1>2. CASE CommandLine
  <2>1. PICK mode \in Modes, llm \in BOOLEAN, repo \in Repos,
            surface \in {settings.surface, "narrowed"} :
          /\ Begin([by |-> "cli", mode |-> mode, repo |-> repo,
                    runner |-> settings.runner, llm |-> llm, runs |-> TRUE])
          /\ settings' = [root |-> repo, surface |-> surface,
                          runner |-> settings.runner,
                          output |-> IF mode = "dry-run" THEN "scratch"
                                                         ELSE "repo"]
          /\ trusted' = (mode # "dry-run")
    BY <1>2 DEF CommandLine
  <2>2. settings' \in Settings
    BY <2>1 DEF Settings
  <2> QED
    BY <2>1, <2>2, BeginTypes DEF Calls, Settings
<1>3. CASE Request
  <2>1. PICK repo \in Repos, diagnose \in BOOLEAN, runner \in {"mock", "real"} :
          /\ Begin([by |-> "server", mode |-> "dry-run", repo |-> repo,
                    runner |-> runner, llm |-> FALSE, runs |-> diagnose])
          /\ settings' = [settings EXCEPT !.root = repo, !.output = "scratch",
                                          !.runner = runner]
          /\ trusted' = FALSE
    BY <1>3 DEF Request
  <2>2. settings' \in Settings
    BY <2>1 DEF Settings
  <2> QED
    BY <2>1, <2>2, BeginTypes DEF Calls, Modes
<1>4. CASE Case
  <2>1. PICK repo \in Others, llm \in BOOLEAN :
          /\ Begin([by |-> "eval", mode |-> "apply", repo |-> repo,
                    runner |-> settings.runner, llm |-> llm, runs |-> TRUE])
          /\ settings' = CaseSettings(repo)
          /\ trusted' = TRUE
    BY <1>4 DEF Case
  <2>2. settings' \in Settings
    BY <2>1 DEF CaseSettings, Settings, Repos
  <2> QED
    BY <2>1, <2>2, BeginTypes DEF Calls, Modes, Repos, Settings
<1>5. CASE RunPipeline
  <2>1. deeds' \subseteq Deeds
    BY <1>5, DidTypes DEF RunPipeline, Did, Settings, Whats
  <2> QED
    BY <1>5, <2>1, SessionAssumption
    DEF RunPipeline, SessionAssumption, ChatTypeOK
<1>6. CASE Diagnose
  <2>1. deeds' \subseteq Deeds
    BY <1>6, DidTypes DEF Diagnose, Did, Settings, Whats
  <2>2. ChatTypeOK'
    BY <1>6, NoChatTypes DEF Diagnose, ChatTypeOK
  <2> QED
    BY <1>6, <2>1, <2>2 DEF Diagnose
<1>7. CASE Ask
  BY <1>7, ChatTypes DEF Ask, callVars
<1>8. CASE Asked
  BY <1>8 DEF Asked, ChatTypeOK, NoChat
<1>9. CASE Patch
  <2>1. deeds' \subseteq Deeds
    BY <1>9, DidTypes DEF Patch, Did, Settings, Whats
  <2> QED
    BY <1>9, <2>1, SessionAssumption DEF Patch, SessionAssumption, ChatTypeOK
<1>10. CASE Raise
  BY <1>10 DEF Raise, ChatTypeOK
<1>11. CASE Return
  <2>1. settings' \in Settings
    BY <1>11 DEF Return, Restored, Settings
  <2> QED
    BY <1>11, <2>1 DEF Return, ChatTypeOK
<1>12. CASE UNCHANGED sessionVars
  BY <1>12 DEF sessionVars, callVars, ChatTypeOK
<1> QED
  BY <1>1, <1>2, <1>3, <1>4, <1>5, <1>6, <1>7, <1>8, <1>9, <1>10, <1>11, <1>12
  DEF SessionNext, Working, Exited

\* The state of a process is well-typed through any sequence of calls, of any
\* length, however they end (core.heal, cli, mcp_server, evaluation).
THEOREM SessionTyped == SessionSpec => []SessionTypeOK
<1>1. SessionTypeInv => SessionTypeOK
  BY DEF SessionTypeInv
<1> QED
  BY SessionInitTypes, SessionNextTypes, <1>1, PTL DEF SessionSpec

----------------------------------------------------------------------------
\* Where a call writes, and what it leaves behind

InCall == step \in {"run", "diagnose", "ask", "patch", "over"}

\* The settings of a call fit its mode and its kind, and what its entry set up
\* is what its exit will take back.
CallInv ==
  /\ step \in {"start", "idle"} => settings = configured
  /\ InCall /\ call.by # "cli" => Restored = configured
  /\ InCall => settings.runner = call.runner
  /\ InCall /\ call.mode = "dry-run" => settings.output # "repo" /\ ~trusted
  /\ InCall /\ call.by = "eval" =>
       /\ settings.root = call.repo
       /\ settings.output = "repo" /\ settings.surface = "default"

LEMMA NextCall ==
  ASSUME SessionTypeOK, CallInv, [SessionNext]_sessionVars
  PROVE  CallInv'
<1> USE DEF CallInv, SessionTypeOK
<1>1. CASE Library
  <2>1. PICK mode \in Modes, llm \in BOOLEAN :
          /\ Begin([by |-> "library", mode |-> mode, repo |-> settings.root,
                    runner |-> settings.runner, llm |-> llm, runs |-> TRUE])
          /\ settings' = DryRunSettings(mode)
          /\ trusted' = (mode # "dry-run")
    BY <1>1 DEF Library
  <2>2. settings = configured /\ saved' = configured /\ configured' = configured
    BY <2>1 DEF Begin
  <2>3. /\ call'.by = "library" /\ call'.mode = mode /\ step' = "run"
        /\ settings'.runner = call'.runner
    BY <2>1 DEF Begin, DryRunSettings, Settings
  <2>4. Restored' = configured
    BY <2>1, <2>2, <2>3 DEF Restored, DryRunSettings, Settings
  <2>5. mode = "dry-run" => settings'.output # "repo"
    BY <2>1 DEF DryRunSettings, Settings
  <2> QED
    BY <2>1, <2>2, <2>3, <2>4, <2>5 DEF InCall
<1>2. CASE CommandLine
  <2>1. PICK mode \in Modes, llm \in BOOLEAN, repo \in Repos,
            surface \in {settings.surface, "narrowed"} :
          /\ Begin([by |-> "cli", mode |-> mode, repo |-> repo,
                    runner |-> settings.runner, llm |-> llm, runs |-> TRUE])
          /\ settings' = [root |-> repo, surface |-> surface,
                          runner |-> settings.runner,
                          output |-> IF mode = "dry-run" THEN "scratch"
                                                         ELSE "repo"]
          /\ trusted' = (mode # "dry-run")
    BY <1>2 DEF CommandLine
  <2>2. /\ call'.by = "cli" /\ call'.mode = mode /\ step' = "run"
        /\ settings'.runner = call'.runner
    BY <2>1 DEF Begin
  <2>3. mode = "dry-run" => settings'.output # "repo"
    BY <2>1
  <2> QED
    BY <2>1, <2>2, <2>3 DEF InCall
<1>3. CASE Request
  <2>1. PICK repo \in Repos, diagnose \in BOOLEAN, runner \in {"mock", "real"} :
          /\ Begin([by |-> "server", mode |-> "dry-run", repo |-> repo,
                    runner |-> runner, llm |-> FALSE, runs |-> diagnose])
          /\ settings' = [settings EXCEPT !.root = repo, !.output = "scratch",
                                          !.runner = runner]
          /\ trusted' = FALSE
    BY <1>3 DEF Request
  <2>2. settings = configured /\ saved' = configured /\ configured' = configured
    BY <2>1 DEF Begin
  <2>3. /\ call'.by = "server" /\ step' \in {"run", "diagnose"}
        /\ settings'.runner = call'.runner
    BY <2>1 DEF Begin, Settings
  <2>4. Restored' = configured
    BY <2>1, <2>2, <2>3 DEF Restored, Settings
  <2> QED
    BY <2>1, <2>2, <2>3, <2>4 DEF InCall, Settings
<1>4. CASE Case
  <2>1. PICK repo \in Others, llm \in BOOLEAN :
          /\ Begin([by |-> "eval", mode |-> "apply", repo |-> repo,
                    runner |-> settings.runner, llm |-> llm, runs |-> TRUE])
          /\ settings' = CaseSettings(repo)
          /\ trusted' = TRUE
    BY <1>4 DEF Case
  <2>2. settings = configured /\ saved' = configured /\ configured' = configured
    BY <2>1 DEF Begin
  <2>3. /\ call'.by = "eval" /\ call'.mode = "apply" /\ call'.repo = repo
        /\ step' = "run" /\ settings'.runner = call'.runner
    BY <2>1 DEF Begin, CaseSettings, Settings
  <2>4. Restored' = configured
    BY <2>1, <2>2, <2>3 DEF Restored, CaseSettings, Settings
  <2> QED
    BY <2>1, <2>2, <2>3, <2>4 DEF InCall, CaseSettings, Settings
<1>5. CASE RunPipeline \/ Diagnose \/ Ask \/ Asked \/ Patch \/ Raise
  <2>1. /\ UNCHANGED <<configured, settings, saved, trusted, call>>
        /\ InCall /\ step' \notin {"start", "idle"}
    BY <1>5 DEF RunPipeline, Diagnose, Ask, Asked, Patch, Raise, callVars, InCall
  <2>2. Restored' = Restored
    BY <2>1 DEF Restored
  <2> QED
    BY <2>1, <2>2
<1>6. CASE Return
  BY <1>6 DEF Return, InCall
<1>7. CASE UNCHANGED sessionVars
  BY <1>7 DEF sessionVars, callVars, InCall, Restored
<1> QED
  BY <1>1, <1>2, <1>3, <1>4, <1>5, <1>6, <1>7 DEF SessionNext, Working, Exited

LEMMA CallInvariant == SessionSpec => [](SessionTypeOK /\ CallInv)
<1>1. SessionInit => CallInv
  BY DEF SessionInit, CallInv, InCall
<1> QED
  BY <1>1, NextCall, SessionTyped, PTL DEF SessionSpec

\* Between two calls every setting is as the user of the process left it, after
\* any number of calls and any failure in them (mcp_server._isolated,
\* core._dry_run_artefacts, evaluation.run_case).
THEOREM SettingsBack == SessionSpec => []SettingsRestored
<1>1. CallInv => SettingsRestored
  BY DEF CallInv, SettingsRestored
<1> QED
  BY <1>1, CallInvariant, PTL

\* What a step of a call does, it does on the settings of the call.
LEMMA NextDeeds ==
  ASSUME SessionTypeOK, CallInv, [SessionNext]_sessionVars
  PROVE  /\ ReadOnlyWritesNothing => ReadOnlyWritesNothing'
         /\ EvaluationIsSealed => EvaluationIsSealed'
<1>1. CASE Library \/ CommandLine \/ Request \/ Case
  <2>1. deeds' = {}
    BY <1>1 DEF Library, CommandLine, Request, Case, Begin
  <2> QED
    BY <2>1 DEF ReadOnlyWritesNothing, EvaluationIsSealed
<1>2. CASE RunPipeline
  <2>1. /\ InCall
        /\ \A d \in deeds' \ deeds :
             \/ d = Deed("log", IF settings.output = "repo"
                                THEN settings.root ELSE "outside")
             \/ settings.runner = "real" /\ d = Deed("playbook", settings.root)
    BY <1>2 DEF RunPipeline, Did, InCall
  <2>2. \A d \in deeds' \ deeds :
          /\ d.mode = "dry-run" =>
               /\ d.what \notin {"plugins", "edit"}
               /\ d.what = "log" => d.where = "outside"
               /\ d.what = "playbook" => d.runner = "real"
          /\ d.by = "eval" => d.where = d.repo /\ d.surface = "default"
    BY <2>1 DEF CallInv, Deed
  <2> QED
    BY <2>2 DEF ReadOnlyWritesNothing, EvaluationIsSealed
<1>3. CASE Diagnose
  <2>1. /\ InCall
        /\ deeds' = IF trusted THEN deeds \cup {Deed("plugins", settings.root)}
                               ELSE deeds
    BY <1>3 DEF Diagnose, Did, InCall
  <2> QED
    BY <2>1 DEF CallInv, Deed, ReadOnlyWritesNothing, EvaluationIsSealed
<1>4. CASE Patch
  <2>1. /\ InCall
        /\ \/ call.mode # "dry-run" /\ deeds' = deeds \cup {Deed("edit", settings.root)}
           \/ deeds' = deeds
    BY <1>4 DEF Patch, Did, InCall
  <2> QED
    BY <2>1 DEF CallInv, Deed, ReadOnlyWritesNothing, EvaluationIsSealed
<1>5. CASE UNCHANGED deeds
  BY <1>5 DEF ReadOnlyWritesNothing, EvaluationIsSealed
<1> QED
  BY <1>1, <1>2, <1>3, <1>4, <1>5
  DEF SessionNext, Working, Ask, Asked, Raise, Return, Exited, sessionVars, callVars

\* A dry run or a request of the server edits nothing, logs outside of the
\* repository, diagnoses without its plugins and runs its playbook only where
\* the caller asked for the real runner, whatever calls came before it in the
\* process (core._dry_run_artefacts, mcp_server._isolated).
THEOREM ReadOnly == SessionSpec => []ReadOnlyWritesNothing
<1>1. SessionInit => ReadOnlyWritesNothing
  BY DEF SessionInit, ReadOnlyWritesNothing
<1> QED
  BY <1>1, NextDeeds, CallInvariant, PTL DEF SessionSpec

\* A case of the evaluation stays in the repository made for it, on the default
\* surface, whatever the process was configured for (evaluation.run_case).
THEOREM EvaluationSealed == SessionSpec => []EvaluationIsSealed
<1>1. SessionInit => EvaluationIsSealed
  BY DEF SessionInit, EvaluationIsSealed
<1> QED
  BY <1>1, NextDeeds, CallInvariant, PTL DEF SessionSpec

----------------------------------------------------------------------------
\* What a call asks an LLM

\* While a question is open no reply has settled it and an attempt is left.
ChatInv ==
  /\ step # "ask" => chat = NoChat
  /\ chat.stage \in {"idle", "resolve"} => chat.replies = <<>>
  /\ chat.stage # "over" =>
       /\ chat.result = "none"
       /\ \A i \in DOMAIN chat.replies : ~Settles(chat.replies[i])
       /\ Len(chat.replies) < Limit
  /\ RetriesFitTheReplies

LEMMA LimitIsNat ==
  Limit \in Nat \ {0} /\ Attempts \in Nat /\ Attempts <= Limit
<1>1. Attempts \in Nat
  BY ChatAssumption DEF ChatAssumption
<1> QED
  BY <1>1 DEF Limit

\* What a backend makes of a reply is to try again just when it settles nothing.
LEMMA ReadingSettles ==
  ASSUME NEW r \in Replies
  PROVE  \/ Settles(r) /\ Reading(chat.provider, r) \in {"text", "prose", "fatal"}
         \/ ~Settles(r) /\ Reading(chat.provider, r) \in {"transient", "blank"}
<1>1. CASE r \in {"busy", "garbled", "raised", "refused"}
  BY <1>1 DEF Settles, Reading
<1>2. CASE r \in {"prose", "blank"}
  BY <1>2 DEF Settles, Reading
<1>3. CASE r \in {"answer", "quoting", "off_schema"}
  BY <1>3 DEF Settles, Reading
<1> QED
  BY <1>1, <1>2, <1>3 DEF Replies

LEMMA NoChatFits ==
  ASSUME chat' = [NoChat EXCEPT !.stage = "resolve"] \/ chat' = NoChat,
         step' # "ask" => chat' = NoChat
  PROVE  ChatInv'
  BY LimitIsNat DEF NoChat, ChatInv, RetriesFitTheReplies

LEMMA ChatStep ==
  ASSUME ChatTypeOK, ChatInv, step = "ask", step' = "ask", ChatNext
  PROVE  ChatInv'
<1> USE DEF ChatTypeOK
<1>1. CASE Resolve
  <2>1. chat.replies = <<>> /\ Len(chat.replies) = 0 /\ chat.result = "none"
    BY <1>1 DEF Resolve, ChatInv
  <2>2. /\ chat'.replies = <<>>
        /\ chat'.stage = "over" \/ (chat'.stage = "ask" /\ chat'.result = "none")
        /\ chat'.result # "answer"
    BY <1>1, <2>1 DEF Resolve, Over
  <2> QED
    BY <2>2, LimitIsNat DEF ChatInv, RetriesFitTheReplies
<1>2. ASSUME NEW r \in Replies, Reply(r)
      PROVE  ChatInv'
  <2> DEFINE k == Append(chat.replies, r)
  <2>1. /\ k \in Seq(Replies) /\ Len(k) = Len(chat.replies) + 1 /\ k[Len(k)] = r
        /\ Len(chat.replies) \in Nat
        /\ \A i \in 1..Len(chat.replies) : k[i] = chat.replies[i]
        /\ DOMAIN k = 1..Len(k) /\ DOMAIN chat.replies = 1..Len(chat.replies)
    OBVIOUS
  <2>2. /\ chat'.replies = k /\ chat'.provider = chat.provider
        /\ chat.stage = "ask" /\ chat'.stage \in {"over", "backoff"}
    BY <1>2 DEF Reply, Over
  <2>3. \A x : Settles(x)' <=> Settles(x)
    BY <2>2 DEF Settles
  <2>4. Len(k) <= Limit
    BY <2>1, <2>2, LimitIsNat DEF ChatInv
  <2>5. \A i \in 1..(Len(k) - 1) : ~Settles(k[i])
    BY <2>1, <2>2 DEF ChatInv
  <2>6. CASE chat'.stage = "over"
    <3>1. /\ chat'.result \in {"answer", "error"}
          /\ chat'.result = "answer" => r \in {"answer", "quoting"}
      <4>1. /\ Results(r) \subseteq {"answer", "error"}
            /\ "answer" \in Results(r) => r \in {"answer", "quoting"}
        BY DEF Results
      <4> QED
        BY <1>2, <2>6, <4>1 DEF Reply, Over
    <3>2. chat'.result = "error" /\ Len(k) < Attempts => Settles(r)
      <4> SUFFICES ASSUME ~Settles(r)
                   PROVE  ~(Len(k) < Attempts)
        OBVIOUS
      <4>1. Reading(chat.provider, r) \in {"transient", "blank"}
        BY ReadingSettles
      <4>2. Exhausted(k)
        BY <1>2, <2>6, <4>1 DEF Reply
      <4> QED
        BY <2>1, <4>2, LimitIsNat DEF Exhausted
    <3> QED
      BY <2>1, <2>2, <2>3, <2>4, <2>5, <2>6, <3>1, <3>2
      DEF ChatInv, RetriesFitTheReplies
  <2>7. CASE chat'.stage = "backoff"
    <3>1. ~Settles(r) /\ Len(k) < Limit /\ chat'.result = "none"
      <4>1. ~Settles(r) /\ ~Exhausted(k) /\ chat'.result = chat.result
        BY <1>2, <2>7, ReadingSettles DEF Reply, Over
      <4> QED
        BY <2>1, <2>2, <2>4, <4>1, LimitIsNat DEF Exhausted, ChatInv
    <3> QED
      BY <2>1, <2>2, <2>3, <2>4, <2>5, <2>7, <3>1
      DEF ChatInv, RetriesFitTheReplies
  <2> QED
    BY <2>2, <2>6, <2>7
<1>3. CASE Backoff
  BY <1>3 DEF Backoff, ChatInv, RetriesFitTheReplies, Settles
<1> QED
  BY <1>1, <1>2, <1>3 DEF ChatNext

\* No question is asked again once it is settled, nor more often than max_retries
\* allows, and none is given up for another reason, whatever the service does,
\* for every provider (llm.chat, _Fatal, RETRYABLE_HTTP).
THEOREM RetriesFit == SessionSpec => []RetriesFitTheReplies
<1>1. SessionInit => ChatInv
  BY LimitIsNat DEF SessionInit, NoChat, ChatInv, RetriesFitTheReplies
<1>2. SessionTypeOK /\ ChatInv /\ [SessionNext]_sessionVars => ChatInv'
  <2> SUFFICES ASSUME SessionTypeOK, ChatInv, [SessionNext]_sessionVars
               PROVE  ChatInv'
    OBVIOUS
  <2>1. CASE Ask
    BY <2>1, ChatStep DEF Ask, callVars, SessionTypeOK
  <2>2. CASE Diagnose
    BY <2>2, NoChatFits DEF Diagnose, ChatInv
  <2>3. CASE Asked
    BY <2>3, NoChatFits DEF Asked
  <2>4. CASE chat' = chat /\ step # "ask" /\ step' # "ask"
    BY <2>4 DEF ChatInv, RetriesFitTheReplies, Settles
  <2>5. CASE Library \/ CommandLine \/ Request \/ Case
    <3>1. step \in {"start", "idle"} /\ step' \in {"run", "diagnose"}
          /\ chat' = chat
      BY <2>5 DEF Library, CommandLine, Request, Case, Begin
    <3> QED
      BY <2>4, <3>1
  <2>6. CASE RunPipeline \/ Patch \/ Raise \/ Return
    <3>1. step # "ask" /\ step' # "ask" /\ chat' = chat
      BY <2>6 DEF RunPipeline, Patch, Raise, Return
    <3> QED
      BY <2>4, <3>1
  <2>7. CASE UNCHANGED sessionVars
    <3>1. chat' = chat /\ step' = step
      BY <2>7 DEF sessionVars, callVars
    <3> QED
      BY <3>1 DEF ChatInv, RetriesFitTheReplies, Settles
  <2> QED
    BY <2>1, <2>2, <2>3, <2>5, <2>6, <2>7 DEF SessionNext, Working, Exited
<1>3. ChatInv => RetriesFitTheReplies
  BY DEF ChatInv
<1> QED
  BY <1>1, <1>2, <1>3, SessionTyped, PTL DEF SessionSpec
============================================================================
