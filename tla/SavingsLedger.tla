--------------------------- MODULE SavingsLedger ---------------------------
(***************************************************************************)
(* The savings ledger (SavingsLedger in pricing.rs) as the gateway and the  *)
(* chat use it: one ledger in the memory of each process, a turn folded     *)
(* into it at a time, the whole ledger saved after every turn through a     *)
(* temporary file of a fixed name, and loaded when a process starts.        *)
(*                                                                         *)
(* A bucket is its number of turns.  The file system is modelled down to    *)
(* inodes, because two processes may open, write and rename the same        *)
(* temporary file.  A process may be killed between any two system calls;   *)
(* the machine itself does not fail.                                        *)
(***************************************************************************)
EXTENDS Integers, FiniteSets

CONSTANTS
    Processes,  \* the processes that share the ledger's path
    Days,       \* the days of a behaviour
    MaxDays,    \* max_days
    Inodes,     \* bound: enough for the two names and every open file
    MaxTurns    \* bound: turns of a behaviour

NoInode == "none"

ASSUME LedgerAssumption ==
    /\ IsFiniteSet(Processes)
    /\ Days \subseteq Nat
    /\ IsFiniteSet(Days)
    /\ MaxDays \in Nat \ {0}
    /\ IsFiniteSet(Inodes) /\ NoInode \notin Inodes
    /\ Cardinality(Inodes) >= Cardinality(Processes) + 2
    /\ MaxTurns \in Nat

VARIABLES
    today,    \* Date::today_utc
    phase,    \* where each process stands in record_savings
    memory,   \* the ledger of each process
    fd,       \* the temporary file it has open
    file,     \* the inode behind the path
    tmp,      \* the inode behind the path with .tmp appended
    data,     \* what each inode holds
    turns,    \* history: turns recorded so far
    settled   \* history: turns per day that some completed save contained

fsVars == <<file, tmp, data>>
vars == <<today, phase, memory, fd, file, tmp, data, turns, settled>>

Blank == [kind |-> "blank"]
Torn == [kind |-> "torn"]
Whole(ledger) == [kind |-> "whole", ledger |-> ledger]

Fresh == [d \in Days |-> 0]
Kept(ledger) == {d \in Days : ledger[d] > 0}

-----------------------------------------------------------------------------
(* prune: the oldest buckets go until max_days are left.                    *)
Pruned(ledger) ==
    [d \in Days |->
        IF Cardinality({e \in Kept(ledger) : e > d}) < MaxDays
        THEN ledger[d] ELSE 0]

(* record: a turn of today.                                                 *)
Recorded(ledger) == Pruned([ledger EXCEPT ![today] = @ + 1])

(* load, or a fresh ledger when there is no file or it does not parse.      *)
Loaded ==
    IF file # NoInode /\ data[file].kind = "whole"
    THEN data[file].ledger ELSE Fresh

Goto(p, from, to) ==
    /\ phase[p] = from
    /\ phase' = [phase EXCEPT ![p] = to]

-----------------------------------------------------------------------------
Init ==
    /\ today \in Days
    /\ phase = [p \in Processes |-> "down"]
    /\ memory = [p \in Processes |-> Fresh]
    /\ fd = [p \in Processes |-> NoInode]
    /\ file = NoInode
    /\ tmp = NoInode
    /\ data = [i \in Inodes |-> Blank]
    /\ turns = 0
    /\ settled = Fresh

(* The wall clock moves, usually forward.                                   *)
ClockMoves ==
    /\ today' \in Days
    /\ UNCHANGED <<phase, memory, fd, fsVars, turns, settled>>

Start(p) ==
    /\ Goto(p, "down", "up")
    /\ memory' = [memory EXCEPT ![p] = Loaded]
    /\ UNCHANGED <<today, fd, fsVars, turns, settled>>

(* record, under the ledger's lock, which is held until the save is over.   *)
Record(p) ==
    /\ turns < MaxTurns
    /\ turns' = turns + 1
    /\ Goto(p, "up", "recorded")
    /\ memory' = [memory EXCEPT ![p] = Recorded(@)]
    /\ UNCHANGED <<today, fd, fsVars, settled>>

(* fs::write opens the temporary file, creating or truncating it ...        *)
Unused == Inodes \ ({file, tmp} \cup {fd[p] : p \in Processes})

OpenTmp(p) ==
    LET i == IF tmp # NoInode THEN tmp ELSE CHOOSE j \in Unused : TRUE
    IN  /\ Goto(p, "recorded", "opened")
        /\ tmp' = i
        /\ data' = [data EXCEPT ![i] = Blank]
        /\ fd' = [fd EXCEPT ![p] = i]
        /\ UNCHANGED <<today, memory, file, turns, settled>>

(* ... and writes it from the start: over what another process has written  *)
(* since, the longer of the two texts keeps its tail.                       *)
WriteTmp(p) ==
    /\ Goto(p, "opened", "written")
    /\ \E text \in {Whole(memory[p])} \cup
                   (IF data[fd[p]] = Blank THEN {} ELSE {Torn}) :
          data' = [data EXCEPT ![fd[p]] = text]
    /\ fd' = [fd EXCEPT ![p] = NoInode]
    /\ UNCHANGED <<today, memory, file, tmp, turns, settled>>

(* rename replaces the ledger by whatever the temporary name stands for.    *)
RenameTmp(p) ==
    /\ tmp # NoInode
    /\ Goto(p, "written", "up")
    /\ file' = tmp
    /\ tmp' = NoInode
    /\ settled' = [d \in Days |-> IF memory[p][d] > settled[d]
                                  THEN memory[p][d] ELSE settled[d]]
    /\ UNCHANGED <<today, memory, fd, data, turns>>

(* Mutant of SaveFails: a failed write does not keep the rename back.       *)
SaveFailsOnward(p) ==
    /\ phase[p] = "opened"
    /\ phase' = [phase EXCEPT ![p] = "written"]
    /\ data' = [data EXCEPT ![fd[p]] = Torn]
    /\ fd' = [fd EXCEPT ![p] = NoInode]
    /\ UNCHANGED <<today, memory, file, tmp, turns, settled>>

(* An error of any of the three calls is swallowed: the turn stays in       *)
(* memory, a write that ran out of space leaves a part.                     *)
SaveFails(p) ==
    /\ phase[p] \in {"recorded", "opened", "written"}
    /\ phase' = [phase EXCEPT ![p] = "up"]
    /\ data' = IF phase[p] = "opened" THEN [data EXCEPT ![fd[p]] = Torn]
                                      ELSE data
    /\ fd' = [fd EXCEPT ![p] = NoInode]
    /\ UNCHANGED <<today, memory, file, tmp, turns, settled>>

(* The process is killed, or ends.                                          *)
Crash(p) ==
    /\ phase[p] # "down"
    /\ phase' = [phase EXCEPT ![p] = "down"]
    /\ memory' = [memory EXCEPT ![p] = Fresh]
    /\ fd' = [fd EXCEPT ![p] = NoInode]
    /\ UNCHANGED <<today, fsVars, turns, settled>>

Next ==
    \/ ClockMoves
    \/ \E p \in Processes :
          \/ Start(p) \/ Record(p) \/ OpenTmp(p) \/ WriteTmp(p)
          \/ RenameTmp(p) \/ SaveFails(p) \/ Crash(p)

Spec == Init /\ [][Next]_vars

-----------------------------------------------------------------------------
Ledgers == [Days -> Nat]

(* Types of the processes and of the file system.                           *)
TypeOK ==
    /\ today \in Days
    /\ phase \in [Processes -> {"down", "up", "recorded", "opened", "written"}]
    /\ memory \in [Processes -> Ledgers]
    /\ fd \in [Processes -> Inodes \cup {NoInode}]
    /\ file \in Inodes \cup {NoInode}
    /\ tmp \in Inodes \cup {NoInode}
    /\ \A i \in Inodes :
          \/ data[i] \in {Blank, Torn}
          \/ data[i].kind = "whole" /\ data[i].ledger \in Ledgers
    /\ turns \in Nat
    /\ settled \in Ledgers
    /\ \A p \in Processes : Cardinality(Kept(memory[p])) <= MaxDays

(* A turn that a completed save contained is in every ledger loaded later,  *)
(* over any number of kills and failed saves, unless its day is older than  *)
(* max_days newer ones (pricing.rs: "a crash never leaves a half-written    *)
(* report").  The processes of the path run one at a time.                  *)
Holds(ledger, d) ==
    \/ ledger[d] >= settled[d]
    \/ /\ ledger[d] = 0
       /\ Cardinality(Kept(ledger)) = MaxDays
       /\ \A e \in Kept(ledger) : d < e

SavedTurnsSurvive ==
    \A d \in Days :
        /\ Holds(Loaded, d)
        /\ \A p \in Processes : phase[p] # "down" => Holds(memory[p], d)
=============================================================================
