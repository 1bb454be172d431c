---------------------------- MODULE HostRename ----------------------------
(***************************************************************************)
(* The one destructive rule: a play's hosts: pattern matches nothing, and  *)
(* the agent renames the inventory host that looks most like the name the  *)
(* play asks for (agent/diagnoser.py, _diagnose_host).  A run of the       *)
(* pipeline reports the patterns that match nothing; each is diagnosed     *)
(* against the inventory as it is by then; the pipeline is run again until *)
(* a round brings nothing new.                                             *)
(***************************************************************************)
EXTENDS Naturals

CONSTANTS
  Machines,    \* the hosts of the inventory file the agent edits
  Names,       \* what hosts and groups may be called
  All,         \* the group of every host
  Groups,      \* the groups of that file
  Elsewhere,   \* the hosts of the other inventory sources, by name
  ElseGroups,  \* the groups of the other sources
  Members,     \* Members[g]: the hosts of group g
  Plugin,      \* TRUE: a source is read by a plugin of the repository's own
  Plays,
  Pattern,     \* Pattern[p]: the hosts: of play p
  Scanned,     \* the plays of ansible/playbooks/*.yml
  AddedIn,     \* AddedIn[n]: where add_host tasks create n, at the top of a
               \* play's tasks or deeper (a block, a role, pre_tasks)
  VarsIn,      \* VarsIn[n]: how host_vars has n, as a file or a directory
  Likeness,    \* Likeness[wanted][name]: 0 below the cutoff
  RealRunner   \* PIPELINE_RUNNER=real

\* A pattern: bare names, !names and &names; "apart" is one name or a YAML
\* list of terms, "comma" and "joined" (blanks, colons) are one string.
Patterns == [spelled : {"apart", "comma", "joined"}, bare : SUBSET Names,
             except : SUBSET Names, within : SUBSET Names]

AllGroups == Groups \cup ElseGroups \cup {All}

ASSUME HostAssumption ==
  /\ Machines \cap Names = {}
  /\ AllGroups \subseteq Names /\ All \notin Groups \cup ElseGroups
  /\ Elsewhere \subseteq Names \ AllGroups
  /\ Members \in [Groups \cup ElseGroups -> SUBSET (Machines \cup Elsewhere)]
  /\ \A g \in ElseGroups : Members[g] \subseteq Elsewhere
  /\ Plugin \in BOOLEAN /\ RealRunner \in BOOLEAN
  /\ Pattern \in [Plays -> Patterns]
  /\ Scanned \subseteq Plays
  /\ AddedIn \in [Names -> SUBSET {"tasks", "deeper"}]
  /\ VarsIn \in [Names -> SUBSET {"file", "directory"}]
  /\ Likeness \in [Names -> [Names -> Nat]]

VARIABLES
  name,        \* name[m]: the inventory key of machine m
  stage,       \* "run", "round" over the failures of a run, or "done"
  todo,        \* the failures of this run still to handle
  applied,     \* the renames made
  progressed   \* one of them is new in this round

vars == <<name, stage, todo, applied, progressed>>

\* What a failure says: the name asked for, and whether the pattern the agent
\* is shown is that name alone.
Failure == [expected : Names, alone : BOOLEAN]
Renames == [old : Names, new : Names]

Hosts == {name[m] : m \in Machines}

\* Every name stands for one host or one group.
Apart ==
  /\ \A m, k \in Machines : name[m] = name[k] => m = k
  /\ Hosts \cap (Elsewhere \cup AllGroups) = {}

Init ==
  /\ name \in [Machines -> Names] /\ Apart
  /\ stage = "run" /\ todo = {} /\ applied = {} /\ progressed = FALSE

----------------------------------------------------------------------------
\* What a pattern matches

\* A name is that of a host before it is that of a group.
Term(n) ==
  IF n = All THEN Machines \cup Elsewhere
  ELSE IF n \in Hosts \cup Elsewhere
       THEN {m \in Machines : name[m] = n} \cup ({n} \cap Elsewhere)
       ELSE IF n \in AllGroups THEN Members[n] ELSE {}

\* A pattern of exclusions and intersections only starts from every host.
Match(p) ==
  LET pattern == Pattern[p]
      start   == IF pattern.bare = {} THEN {All} ELSE pattern.bare
  IN  {h \in UNION {Term(n) : n \in start} :
         /\ \A n \in pattern.except : h \notin Term(n)
         /\ \A n \in pattern.within : h \in Term(n)}

NamesOf(p) == Pattern[p].bare \cup Pattern[p].except \cup Pattern[p].within

\* Either runner is given the first source alone, the file the agent edits.
MatchesNothing(p) == Match(p) \cap Machines = {}

\* The simulator reports each term with the pattern as written, or the list
\* element; the callback splits a string at its commas and reports the rest.
Reported(p) ==
  LET pattern == Pattern[p]
      single  == \/ pattern.spelled = "apart"
                 \/ pattern.spelled = "comma" /\ RealRunner
  IN  {[expected |-> n, alone |-> single] : n \in pattern.bare} \cup
      {[expected |-> n, alone |-> FALSE] :
         n \in pattern.except \cup pattern.within}

----------------------------------------------------------------------------
\* A run, and the rounds

Run ==
  /\ stage = "run"
  /\ todo' = UNION {Reported(p) : p \in {p \in Plays : MatchesNothing(p)}}
  /\ stage' = IF todo' = {} THEN "done" ELSE "round"
  /\ progressed' = FALSE
  /\ UNCHANGED <<name, applied>>

\* _not_a_single_hostname, on the pattern as written.
SingleHostname(f) == f.alone /\ f.expected # All

\* inventory_hosts_from_ansible, when it can answer.
Known == Hosts \cup Elsewhere

\* ansible_resolves; no answer when it may not run a source's plugin.
Resolves(e) == ~Plugin /\ Term(e) # {}

BugNoGroups == {}

\* inventory_groups, of the file the agent edits.
InventoryGroups == Groups \cup {All}

\* _add_host_created_names and _host_vars_file, which see the first of each.
Created == {n \in Names : "tasks" \in AddedIn[n]}

HasVarsFile(n) == "file" \in VarsIn[n]

\* difflib.get_close_matches(n=1).
Closest(e) ==
  {n \in Hosts : /\ Likeness[e][n] > 0
                 /\ \A k \in Hosts : Likeness[e][k] <= Likeness[e][n]}

BugClaimedByNobody == {}

\* _play_host_patterns: the strings, and the list elements, that are a name.
Claimed == UNION {Pattern[p].bare :
                    p \in {q \in Scanned : Pattern[q].spelled = "apart"}}

\* _diagnose_host proposes to rename old, and rename_host does it.
Rename(f, old) ==
  /\ stage = "round"
  /\ f \in todo
  /\ SingleHostname(f)
  /\ f.expected \notin Known
  /\ ~Resolves(f.expected)
  /\ f.expected \notin Created
  /\ f.expected \notin InventoryGroups
  /\ old \in Closest(f.expected)
  /\ old \notin InventoryGroups
  /\ ~HasVarsFile(old)
  /\ old \notin Claimed
  /\ LET step == [old |-> old, new |-> f.expected] IN
       /\ progressed' = (progressed \/ step \notin applied)
       /\ applied' = applied \cup {step}
  /\ name' = [m \in Machines |-> IF name[m] = old THEN f.expected ELSE name[m]]
  /\ todo' = todo \ {f}
  /\ UNCHANGED stage

\* No fix, by a guard or a probe that cannot answer; or a fix refused later.
Decline(f) ==
  /\ stage = "round"
  /\ f \in todo
  /\ todo' = todo \ {f}
  /\ UNCHANGED <<name, stage, applied, progressed>>

EndRound ==
  /\ stage = "round"
  /\ todo = {}
  /\ stage' = IF progressed THEN "run" ELSE "done"
  /\ UNCHANGED <<name, todo, applied, progressed>>

Ended == stage = "done" /\ UNCHANGED vars

Next ==
  \/ Run
  \/ \E f \in todo : Decline(f) \/ \E old \in Names : Rename(f, old)
  \/ EndRound \/ Ended

Spec == Init /\ [][Next]_vars

----------------------------------------------------------------------------
TypeOK ==
  /\ name \in [Machines -> Names]
  /\ stage \in {"run", "round", "done"}
  /\ todo \subseteq Failure
  /\ applied \subseteq Renames
  /\ progressed \in BOOLEAN
  /\ stage = "run" => todo = {}

\* No rename gives a host a name that another host or a group of any source
\* already has (README.md: renaming to a group "deletes a live host and
\* creates a group/host collision").
NamesStayApart == Apart

\* A rename changes nothing for a play that ran before it, unless the play
\* asks for the new name (_play_host_patterns: "only safe if no *other* play
\* depends on the name being renamed away").
PlaysKeepTheirMachines ==
  [][\A p \in Plays :
       /\ Match(p) # {}
       /\ \A m \in Machines : name'[m] # name[m] => name'[m] \notin NamesOf(p)
       => Match(p)' = Match(p)]_vars

\* Nothing a rename introduced is renamed away again, so two plays cannot
\* make the agent rename one host back and forth (_play_host_patterns).
RenamedOnce == \A x, y \in applied : x.new # y.old
============================================================================
