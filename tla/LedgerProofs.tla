---------------------------- MODULE LedgerProofs ----------------------------
(* Proofs about SavingsLedger, for any number of days, any room for them,   *)
(* any number of turns, and any kills and failed saves.                     *)
EXTENDS SavingsLedger, FiniteSetTheorems, WellFoundedInduction, TLAPS

-----------------------------------------------------------------------------
(* prune.                                                                   *)

LEMMA KeptIsFinite ==
    ASSUME NEW ledger
    PROVE  /\ IsFiniteSet(Kept(ledger)) /\ Kept(ledger) \subseteq Days
           /\ Cardinality(Kept(ledger)) \in Nat
BY LedgerAssumption, FS_Subset, FS_CardinalityType DEF Kept

(* There is an oldest day.                                                  *)
LEMMA OldestExists ==
    ASSUME NEW days, days \subseteq Days, days # {}
    PROVE  \E m \in days : \A e \in days \ {m} : e > m
<1>1. PICK m \in days : \A e \in days : ~(<<e, m>> \in OpToRel(<, Nat))
  BY LedgerAssumption, WFMin, NatLessThanWellFounded
<1>2. days \subseteq Nat
  BY LedgerAssumption
<1>3. \A e \in days : ~(e < m)
  BY <1>1, <1>2 DEF OpToRel
<1>4. QED
  BY <1>2, <1>3

(* The days newer than some kept day are fewer than the kept days, and all  *)
(* but one of them if it is the oldest.                                     *)
LEMMA NewerAreFewer ==
    ASSUME NEW days, IsFiniteSet(days), days \subseteq Days, NEW d \in days
    PROVE  LET newer == {e \in days : e > d}
           IN  /\ Cardinality(newer) \in Nat
               /\ Cardinality(newer) <= Cardinality(days) - 1
               /\ \A m \in days \ newer : m # d =>
                     Cardinality(newer) <= Cardinality(days) - 2
               /\ (\A e \in days \ {d} : e > d) =>
                     Cardinality(newer) = Cardinality(days) - 1
<1> DEFINE newer == {e \in days : e > d}
<1>1. days \subseteq Nat
  BY LedgerAssumption
<1>2. newer \in SUBSET (days \ {d}) /\ IsFiniteSet(days \ {d})
      /\ Cardinality(days \ {d}) = Cardinality(days) - 1
      /\ Cardinality(days) \in Nat
  BY <1>1, FS_RemoveElement, FS_CardinalityType
<1>3. IsFiniteSet(newer) /\ Cardinality(newer) \in Nat
      /\ Cardinality(newer) <= Cardinality(days) - 1
  BY <1>2, FS_Subset, FS_CardinalityType
<1>4. ASSUME NEW m \in days \ newer, m # d
      PROVE  Cardinality(newer) <= Cardinality(days) - 2
  <2>1. newer \in SUBSET ((days \ {d}) \ {m})
    BY <1>2, <1>4
  <2>2. IsFiniteSet((days \ {d}) \ {m})
        /\ Cardinality((days \ {d}) \ {m}) = Cardinality(days \ {d}) - 1
    <3>1. m \in days \ {d}
      BY <1>4
    <3>2. QED
      BY <1>2, <3>1, FS_RemoveElement
  <2>3. QED
    BY <1>2, <2>1, <2>2, FS_Subset
<1>5. (\A e \in days \ {d} : e > d) => newer = days \ {d}
  BY <1>2
<1>6. QED
  BY <1>2, <1>3, <1>4, <1>5

(* A ledger with room stays as it is; one that holds a day too many loses   *)
(* its oldest day.                                                          *)
LEMMA PruneDropsOldest ==
    ASSUME NEW ledger \in Ledgers, Cardinality(Kept(ledger)) <= MaxDays + 1
    PROVE  \/ Cardinality(Kept(ledger)) <= MaxDays /\ Pruned(ledger) = ledger
           \/ \E m \in Kept(ledger) :
                 /\ \A e \in Kept(ledger) \ {m} : e > m
                 /\ Pruned(ledger) = [ledger EXCEPT ![m] = 0]
                 /\ Kept(Pruned(ledger)) = Kept(ledger) \ {m}
                 /\ Cardinality(Kept(Pruned(ledger))) = MaxDays
<1> DEFINE kept == Kept(ledger)
           Newer(d) == Cardinality({e \in kept : e > d})
<1>1. /\ IsFiniteSet(kept) /\ kept \subseteq Days /\ Cardinality(kept) \in Nat
      /\ MaxDays \in Nat \ {0}
  BY KeptIsFinite, LedgerAssumption
<1>2. /\ ledger \in [Days -> Nat]
      /\ \A d \in Days : d \notin kept => ledger[d] = 0
      /\ \A d \in kept : ledger[d] > 0
  BY DEF Ledgers, Kept
<1>3. Pruned(ledger) = [d \in Days |-> IF Newer(d) < MaxDays THEN ledger[d] ELSE 0]
  BY DEF Pruned
<1>4. \A d \in kept : Newer(d) \in Nat /\ Newer(d) <= Cardinality(kept) - 1
  BY <1>1, NewerAreFewer
<1>5. CASE Cardinality(kept) <= MaxDays
  <2>1. \A d \in kept : Newer(d) < MaxDays
    BY <1>1, <1>4, <1>5
  <2> HIDE DEF kept, Newer
  <2>2. \A d \in Days : Pruned(ledger)[d] = ledger[d]
    BY <1>2, <1>3, <2>1
  <2>3. Pruned(ledger) = ledger
    BY <1>2, <1>3, <2>2
  <2>4. QED
    BY <1>5, <2>3 DEF kept
<1>6. CASE Cardinality(kept) = MaxDays + 1
  <2>1. kept # {}
    BY <1>1, <1>6, FS_EmptySet
  <2>2. PICK m \in kept : \A e \in kept \ {m} : e > m
    BY <1>1, <2>1, OldestExists
  <2>3. Newer(m) = MaxDays
    BY <1>1, <1>6, <2>2, NewerAreFewer
  <2>4. ASSUME NEW d \in kept, d # m PROVE Newer(d) < MaxDays
    <3>1. m \notin {e \in kept : e > d}
      <4> HIDE DEF kept
      <4>1. d > m /\ d \in Nat /\ m \in Nat
        <5>1. Days \subseteq Nat
          BY LedgerAssumption
        <5>2. d \in kept \ {m}
          BY <2>4
        <5>3. QED
          BY <1>1, <2>2, <5>1, <5>2
      <4>2. ~(m > d)
        BY <4>1
      <4>3. QED
        BY <4>2
    <3>2. Newer(d) <= Cardinality(kept) - 2
      BY <1>1, <2>2, <2>4, <3>1, NewerAreFewer
    <3>3. QED
      BY <1>1, <1>4, <1>6, <2>4, <3>2
  <2> HIDE DEF Newer
  <2>5. Pruned(ledger) = [ledger EXCEPT ![m] = 0]
    <3>1. \A d \in Days : Pruned(ledger)[d] = IF d = m THEN 0 ELSE ledger[d]
      BY <1>1, <1>2, <1>3, <2>3, <2>4
    <3>2. QED
      BY <1>2, <1>3, <3>1
  <2>6. Kept(Pruned(ledger)) = kept \ {m}
    BY <1>1, <1>2, <2>2, <2>5 DEF Kept
  <2>7. Cardinality(kept \ {m}) = MaxDays
    <3>1. Cardinality(kept \ {m}) = Cardinality(kept) - 1
      BY <1>1, <2>2, FS_RemoveElement
    <3>2. QED
      BY <1>1, <1>6, <3>1
  <2>8. QED
    BY <2>2, <2>5, <2>6, <2>7
<1>7. QED
  BY <1>1, <1>5, <1>6

-----------------------------------------------------------------------------
(* A recorded turn leaves every settled day held, or out of date.           *)

HoldsFor(ledger, want, d) ==
    \/ ledger[d] >= want[d]
    \/ /\ ledger[d] = 0
       /\ Cardinality(Kept(ledger)) = MaxDays
       /\ \A e \in Kept(ledger) : d < e

LEMMA RecordHolds ==
    ASSUME NEW ledger \in Ledgers, Cardinality(Kept(ledger)) <= MaxDays,
           NEW want \in Ledgers, NEW day \in Days, NEW new,
           new = Pruned([ledger EXCEPT ![day] = @ + 1])
    PROVE  /\ new \in Ledgers /\ Cardinality(Kept(new)) <= MaxDays
           /\ \A d \in Days : HoldsFor(ledger, want, d) => HoldsFor(new, want, d)
<1> DEFINE more == [ledger EXCEPT ![day] = @ + 1]
<1>1. /\ ledger \in [Days -> Nat] /\ want \in [Days -> Nat] /\ MaxDays \in Nat \ {0}
      /\ \A d \in Days : d \in Nat
  BY LedgerAssumption DEF Ledgers
<1>2. /\ more \in Ledgers /\ Kept(more) = Kept(ledger) \cup {day}
      /\ \A d \in Days : more[d] = IF d = day THEN ledger[d] + 1 ELSE ledger[d]
  BY <1>1 DEF Ledgers, Kept
<1>3. /\ IsFiniteSet(Kept(ledger)) /\ IsFiniteSet(Kept(more))
      /\ Kept(ledger) \subseteq Days
      /\ Cardinality(Kept(ledger)) \in Nat /\ Cardinality(Kept(more)) \in Nat
  BY KeptIsFinite
<1>4. Cardinality(Kept(more)) = IF day \in Kept(ledger) THEN Cardinality(Kept(ledger))
                                ELSE Cardinality(Kept(ledger)) + 1
  BY <1>2, <1>3, FS_AddElement
<1>5. Cardinality(Kept(more)) <= MaxDays + 1
  BY <1>1, <1>3, <1>4
<1>6. new = Pruned(more)
  OBVIOUS
<1> HIDE DEF more
<1>7. CASE Cardinality(Kept(more)) <= MaxDays /\ new = more
  <2>1. ASSUME NEW d \in Days, HoldsFor(ledger, want, d)
        PROVE  HoldsFor(new, want, d)
    <3>1. CASE ledger[d] >= want[d]
      BY <1>1, <1>2, <1>7, <3>1 DEF HoldsFor
    <3>2. CASE /\ ledger[d] = 0 /\ Cardinality(Kept(ledger)) = MaxDays
               /\ \A e \in Kept(ledger) : d < e
      <4>1. Kept(more) = Kept(ledger)
        BY <1>1, <1>2, <1>3, <1>4, <1>7, <3>2
      <4>2. d # day
        BY <1>1, <1>2, <3>2, <4>1
      <4>3. QED
        BY <1>2, <1>7, <3>2, <4>1, <4>2 DEF HoldsFor
    <3>3. QED
      BY <2>1, <3>1, <3>2 DEF HoldsFor
  <2>2. QED
    BY <1>2, <1>7, <2>1
<1>8. ASSUME NEW m \in Kept(more), \A e \in Kept(more) \ {m} : e > m,
             new = [more EXCEPT ![m] = 0], Kept(new) = Kept(more) \ {m},
             Cardinality(Kept(new)) = MaxDays
      PROVE  /\ new \in Ledgers /\ Cardinality(Kept(new)) <= MaxDays
             /\ \A d \in Days : HoldsFor(ledger, want, d) => HoldsFor(new, want, d)
  <2>1. m \in Days
    BY <1>2, <1>3, <1>8
  <2>2. new \in Ledgers /\ \A d \in Days : new[d] = IF d = m THEN 0 ELSE more[d]
    <3>1. more \in [Days -> Nat]
      BY <1>2 DEF Ledgers
    <3> DEFINE cleared == [more EXCEPT ![m] = 0]
    <3>2. cleared \in Ledgers /\ \A d \in Days : cleared[d] = IF d = m THEN 0 ELSE more[d]
      BY <2>1, <3>1 DEF Ledgers
    <3>3. new = cleared
      BY <1>8
    <3> HIDE DEF cleared
    <3>4. QED
      BY <3>2, <3>3
  <2>3. ASSUME NEW d \in Days, HoldsFor(ledger, want, d)
        PROVE  HoldsFor(new, want, d)
    <3>1. /\ ledger[d] \in Nat /\ want[d] \in Nat /\ d \in Nat /\ day \in Nat
          /\ new[d] = IF d = m THEN 0 ELSE more[d]
          /\ more[d] = IF d = day THEN ledger[d] + 1 ELSE ledger[d]
      BY <1>1, <1>2, <2>2
    <3>2. CASE d = m
      BY <1>8, <3>1, <3>2 DEF HoldsFor
    <3>3. CASE d # m /\ ledger[d] >= want[d]
      <4>1. new[d] >= want[d]
        BY <3>1, <3>3
      <4>2. QED
        BY <4>1 DEF HoldsFor
    <3>4. CASE /\ d # m /\ ledger[d] = 0
               /\ \A e \in Kept(ledger) : d < e
      <4>1. m \in Nat /\ (m \in Kept(ledger) \/ m = day)
        BY <1>1, <1>2, <1>8, <2>1
      <4>2. d # day
        <5>1. SUFFICES ASSUME d = day PROVE FALSE
          OBVIOUS
        <5>2. d > m
          BY <1>2, <1>8, <3>4, <5>1
        <5>3. d < m
          BY <3>4, <4>1, <5>1
        <5>4. QED
          BY <3>1, <4>1, <5>2, <5>3
      <4>3. \A e \in Kept(new) : d < e
        <5>1. CASE day > d
          <6>1. d < day
            BY <3>1, <5>1
          <6>2. QED
            BY <1>2, <1>8, <3>4, <6>1
        <5>2. CASE day < d
          <6>1. m = day
            <7>1. SUFFICES ASSUME m # day PROVE FALSE
              OBVIOUS
            <7>2. d < m /\ day > m
              BY <1>2, <1>8, <3>4, <4>1, <7>1
            <7>3. QED
              BY <3>1, <4>1, <5>2, <7>2
          <6>2. QED
            BY <1>2, <1>8, <3>4, <6>1
        <5>3. day > d \/ day < d
          <6>1. d \in Nat /\ day \in Nat
            BY <3>1
          <6>2. QED
            BY <4>2, <6>1
        <5>4. QED
          BY <5>1, <5>2, <5>3
      <4>4. new[d] = 0
        BY <3>1, <3>4, <4>2
      <4>5. QED
        BY <1>8, <4>3, <4>4 DEF HoldsFor
    <3>5. QED
      BY <2>3, <3>2, <3>3, <3>4 DEF HoldsFor
  <2>4. Cardinality(Kept(new)) <= MaxDays
    BY <1>1, <1>8
  <2>5. QED
    BY <2>2, <2>3, <2>4
<1>9. QED
  BY <1>2, <1>5, <1>6, <1>7, <1>8, PruneDropsOldest

-----------------------------------------------------------------------------
(* The invariant, of the processes of a path that run one at a time.        *)

Alone == \A p, q \in Processes : p = q

(* What is in memory and in whole files are ledgers with room.              *)
IsLedger(ledger) == ledger \in Ledgers /\ Cardinality(Kept(ledger)) <= MaxDays

LedgersTyped ==
    /\ today \in Days
    /\ phase \in [Processes -> {"down", "up", "recorded", "opened", "written"}]
    /\ memory \in [Processes -> Ledgers]
    /\ \A p \in Processes : IsLedger(memory[p])
    /\ fd \in [Processes -> Inodes \cup {NoInode}]
    /\ file \in Inodes \cup {NoInode}
    /\ tmp \in Inodes \cup {NoInode}
    /\ DOMAIN data = Inodes
    /\ \A i \in Inodes : \/ data[i] \in {Blank, Torn}
                         \/ \E ledger \in Ledgers :
                               IsLedger(ledger) /\ data[i] = Whole(ledger)
    /\ settled \in Ledgers

(* The temporary file is never the ledger's own, is empty from its opening  *)
(* until it is written, and holds the memory from then until the rename.    *)
TmpIsMine ==
    /\ tmp # NoInode => tmp # file
    /\ \A p \in Processes :
          /\ phase[p] # "opened" => fd[p] = NoInode
          /\ phase[p] = "opened" => tmp # NoInode /\ fd[p] = tmp /\ data[tmp] = Blank
          /\ phase[p] = "written" => tmp # NoInode /\ data[tmp] = Whole(memory[p])

LedgerInv == LedgersTyped /\ TmpIsMine /\ SavedTurnsSurvive

(* What is loaded is a ledger with room.                                    *)
LEMMA LoadedIsLedger ==
    ASSUME LedgersTyped PROVE IsLedger(Loaded)
<1>1. IsLedger(Fresh)
  <2>1. Fresh \in Ledgers /\ Kept(Fresh) = {}
    BY DEF Fresh, Ledgers, Kept
  <2>2. QED
    BY <2>1, FS_EmptySet, LedgerAssumption DEF IsLedger
<1>2. CASE file # NoInode /\ data[file].kind = "whole"
  <2>1. PICK ledger : IsLedger(ledger) /\ data[file] = Whole(ledger)
    BY <1>2 DEF LedgersTyped, Blank, Torn
  <2>2. QED
    BY <1>2, <2>1 DEF Loaded, Whole
<1>3. QED
  BY <1>1, <1>2 DEF Loaded

(* A step that leaves the ledger file and what is settled alone, and the    *)
(* memories that are up.                                                    *)
LEMMA SameLedger ==
    ASSUME LedgerInv, UNCHANGED <<file, settled>>,
           file # NoInode => data'[file] = data[file],
           \A p \in Processes : phase'[p] # "down" =>
              memory'[p] = Loaded \/ (phase[p] # "down" /\ memory'[p] = memory[p])
    PROVE  SavedTurnsSurvive'
<1>1. Loaded' = Loaded
  BY DEF Loaded
<1>2. \A ledger, d : Holds(ledger, d)' <=> Holds(ledger, d)
  BY DEF Holds
<1>3. QED
  BY <1>1, <1>2 DEF LedgerInv, SavedTurnsSurvive

LEMMA StartKeeps ==
    ASSUME LedgerInv, NEW p \in Processes, Start(p)
    PROVE  LedgerInv'
<1> USE DEF LedgerInv
<1>1. /\ phase[p] = "down" /\ phase' = [phase EXCEPT ![p] = "up"]
      /\ memory' = [memory EXCEPT ![p] = Loaded]
      /\ UNCHANGED <<today, fd, file, tmp, data, turns, settled>>
  BY DEF Start, Goto, fsVars
<1>2. IsLedger(Loaded)
  BY LoadedIsLedger
<1>3. LedgersTyped'
  BY <1>1, <1>2 DEF LedgersTyped, IsLedger
<1>4. TmpIsMine'
  BY <1>1 DEF TmpIsMine, LedgersTyped
<1>5. SavedTurnsSurvive'
  BY <1>1, SameLedger DEF LedgersTyped
<1>6. QED
  BY <1>3, <1>4, <1>5

LEMMA RecordKeeps ==
    ASSUME LedgerInv, NEW p \in Processes, Record(p)
    PROVE  LedgerInv'
<1> USE DEF LedgerInv
<1> DEFINE new == Recorded(memory[p])
<1>1. /\ phase[p] = "up" /\ phase' = [phase EXCEPT ![p] = "recorded"]
      /\ memory' = [memory EXCEPT ![p] = new]
      /\ UNCHANGED <<today, fd, file, tmp, data, settled>>
  BY DEF Record, Goto, fsVars
<1>2. /\ memory[p] \in Ledgers /\ Cardinality(Kept(memory[p])) <= MaxDays
      /\ settled \in Ledgers /\ today \in Days
  BY DEF LedgersTyped, IsLedger
<1>3. /\ new \in Ledgers /\ Cardinality(Kept(new)) <= MaxDays
      /\ \A d \in Days : HoldsFor(memory[p], settled, d) => HoldsFor(new, settled, d)
  BY <1>2, RecordHolds DEF Recorded
<1> HIDE DEF new
<1>4. LedgersTyped'
  BY <1>1, <1>3 DEF LedgersTyped, IsLedger
<1>5. TmpIsMine'
  BY <1>1 DEF TmpIsMine, LedgersTyped
<1>6. SavedTurnsSurvive'
  <2>1. Loaded' = Loaded /\ \A ledger, d : Holds(ledger, d)' <=> Holds(ledger, d)
    BY <1>1 DEF Loaded, Holds
  <2>2. \A d \in Days : Holds(memory[p], d)
    BY <1>1 DEF SavedTurnsSurvive
  <2>3. \A d \in Days : Holds(new, d)
    BY <1>3, <2>2 DEF Holds, HoldsFor
  <2>4. \A q \in Processes : phase'[q] # "down" =>
           memory'[q] = new \/ (phase[q] # "down" /\ memory'[q] = memory[q])
    BY <1>1 DEF LedgersTyped
  <2>5. QED
    BY <2>1, <2>3, <2>4 DEF SavedTurnsSurvive
<1>7. QED
  BY <1>4, <1>5, <1>6

LEMMA OpenKeeps ==
    ASSUME LedgerInv, Alone, NEW p \in Processes, OpenTmp(p)
    PROVE  LedgerInv'
<1> USE DEF LedgerInv
<1> DEFINE i == IF tmp # NoInode THEN tmp ELSE CHOOSE j \in Unused : TRUE
<1>1. /\ phase[p] = "recorded" /\ phase' = [phase EXCEPT ![p] = "opened"]
      /\ tmp' = i /\ data' = [data EXCEPT ![i] = Blank]
      /\ fd' = [fd EXCEPT ![p] = i]
      /\ UNCHANGED <<today, memory, file, settled>>
  BY DEF OpenTmp, Goto
<1>2. Processes = {p}
  BY DEF Alone
<1>3. i \in Inodes /\ i # file
  <2>1. CASE tmp # NoInode
    BY <2>1 DEF LedgersTyped, TmpIsMine
  <2>2. CASE tmp = NoInode
    <3>1. fd[p] = NoInode
      BY <1>1 DEF TmpIsMine
    <3>2. Cardinality(Inodes \ {file}) >= 1 /\ IsFiniteSet(Inodes \ {file})
      <4>1. Cardinality(Processes) = 1
        BY <1>2, FS_Singleton
      <4>2. Cardinality(Inodes) >= 3 /\ Cardinality(Inodes) \in Nat
        BY <4>1, LedgerAssumption, FS_CardinalityType
      <4>3. QED
        BY <4>2, LedgerAssumption, FS_RemoveElement
    <3>3. PICK j : j \in Inodes \ {file}
      BY <3>2, FS_EmptySet
    <3>4. j \in Unused
      BY <1>2, <2>2, <3>1, <3>3, LedgerAssumption DEF Unused
    <3>5. i \in Unused
      BY <2>2, <3>4
    <3>6. QED
      BY <3>5 DEF Unused
  <2>3. QED
    BY <2>1, <2>2
<1> HIDE DEF i
<1>4. LedgersTyped'
  BY <1>1, <1>3 DEF LedgersTyped
<1>5. TmpIsMine'
  BY <1>1, <1>2, <1>3, LedgerAssumption DEF TmpIsMine, LedgersTyped
<1>6. SavedTurnsSurvive'
  BY <1>1, <1>3, SameLedger DEF LedgersTyped
<1>7. QED
  BY <1>4, <1>5, <1>6

LEMMA WriteKeeps ==
    ASSUME LedgerInv, Alone, NEW p \in Processes, WriteTmp(p)
    PROVE  LedgerInv'
<1> USE DEF LedgerInv
<1>1. /\ phase[p] = "opened" /\ phase' = [phase EXCEPT ![p] = "written"]
      /\ fd' = [fd EXCEPT ![p] = NoInode]
      /\ UNCHANGED <<today, memory, file, tmp, settled>>
  BY DEF WriteTmp, Goto
<1>2. /\ tmp \in Inodes /\ fd[p] = tmp /\ data[tmp] = Blank /\ tmp # file
      /\ tmp # NoInode
  BY <1>1 DEF TmpIsMine, LedgersTyped
<1>3. data' = [data EXCEPT ![tmp] = Whole(memory[p])]
  BY <1>2 DEF WriteTmp
<1>4. Processes = {p} /\ IsLedger(memory[p]) /\ memory[p] \in Ledgers
  BY DEF Alone, LedgersTyped
<1>5. LedgersTyped'
  BY <1>1, <1>2, <1>3, <1>4 DEF LedgersTyped
<1>6. TmpIsMine'
  BY <1>1, <1>2, <1>3, <1>4 DEF TmpIsMine, LedgersTyped
<1>7. SavedTurnsSurvive'
  BY <1>1, <1>2, <1>3, SameLedger DEF LedgersTyped
<1>8. QED
  BY <1>5, <1>6, <1>7

LEMMA RenameKeeps ==
    ASSUME LedgerInv, Alone, NEW p \in Processes, RenameTmp(p)
    PROVE  LedgerInv'
<1> USE DEF LedgerInv
<1> DEFINE most == [d \in Days |-> IF memory[p][d] > settled[d]
                                  THEN memory[p][d] ELSE settled[d]]
<1>1. /\ phase[p] = "written" /\ phase' = [phase EXCEPT ![p] = "up"]
      /\ file' = tmp /\ tmp' = NoInode /\ settled' = most
      /\ UNCHANGED <<today, memory, fd, data>>
  BY DEF RenameTmp, Goto
<1>2. /\ tmp \in Inodes /\ tmp # NoInode /\ data[tmp] = Whole(memory[p])
  BY <1>1 DEF TmpIsMine, LedgersTyped
<1>3. Processes = {p} /\ memory[p] \in [Days -> Nat] /\ settled \in [Days -> Nat]
  BY DEF Alone, LedgersTyped, Ledgers
<1>4. /\ most \in Ledgers
      /\ \A d \in Days : most[d] \in {settled[d], memory[p][d]}
                           /\ (memory[p][d] >= settled[d] => most[d] = memory[p][d])
                           /\ (memory[p][d] = 0 => most[d] = settled[d])
  BY <1>3 DEF Ledgers
<1> HIDE DEF most
<1>5. LedgersTyped'
  BY <1>1, <1>2, <1>4 DEF LedgersTyped
<1>6. TmpIsMine'
  BY <1>1, <1>3 DEF TmpIsMine, LedgersTyped
<1>7. SavedTurnsSurvive'
  <2>1. Loaded' = memory[p]
    BY <1>1, <1>2 DEF Loaded, Whole
  <2>2. ASSUME NEW d \in Days PROVE Holds(memory[p], d)'
    <3>1. Holds(memory[p], d)
      BY <1>1 DEF SavedTurnsSurvive
    <3>2. CASE memory[p][d] >= settled[d]
      <4>1. settled'[d] = memory[p][d] /\ memory'[p][d] \in Nat
        BY <1>1, <1>3, <1>4, <3>2
      <4>2. QED
        BY <1>1, <4>1 DEF Holds
    <3>3. CASE ~(memory[p][d] >= settled[d])
      BY <1>1, <3>1, <3>3 DEF Holds
    <3>4. QED
      BY <3>2, <3>3
  <2>3. \A d \in Days : Holds(Loaded, d)' <=> Holds(memory[p], d)'
    BY <1>1, <2>1 DEF Holds
  <2>4. QED
    BY <1>1, <1>3, <2>2, <2>3 DEF SavedTurnsSurvive
<1>8. QED
  BY <1>5, <1>6, <1>7

LEMMA FailKeeps ==
    ASSUME LedgerInv, Alone, NEW p \in Processes, SaveFails(p)
    PROVE  LedgerInv'
<1> USE DEF LedgerInv
<1>1. /\ phase[p] \in {"recorded", "opened", "written"}
      /\ phase' = [phase EXCEPT ![p] = "up"]
      /\ fd' = [fd EXCEPT ![p] = NoInode]
      /\ UNCHANGED <<today, memory, file, tmp, settled>>
  BY DEF SaveFails
<1>2. Processes = {p}
  BY DEF Alone
<1>3. \/ data' = data
      \/ tmp \in Inodes /\ tmp # file /\ data' = [data EXCEPT ![tmp] = Torn]
  BY DEF SaveFails, TmpIsMine, LedgersTyped
<1>4. LedgersTyped'
  BY <1>1, <1>3 DEF LedgersTyped
<1>5. TmpIsMine'
  BY <1>1, <1>2 DEF TmpIsMine, LedgersTyped
<1>6. SavedTurnsSurvive'
  BY <1>1, <1>3, SameLedger DEF LedgersTyped
<1>7. QED
  BY <1>4, <1>5, <1>6

LEMMA CrashKeeps ==
    ASSUME LedgerInv, NEW p \in Processes, Crash(p)
    PROVE  LedgerInv'
<1> USE DEF LedgerInv
<1>1. /\ phase' = [phase EXCEPT ![p] = "down"] /\ fd' = [fd EXCEPT ![p] = NoInode]
      /\ memory' = [memory EXCEPT ![p] = Fresh]
      /\ UNCHANGED <<today, file, tmp, data, settled>>
  BY DEF Crash, fsVars
<1>2. IsLedger(Fresh) /\ Fresh \in Ledgers
  <2>1. Fresh \in Ledgers /\ Kept(Fresh) = {}
    BY DEF Fresh, Ledgers, Kept
  <2>2. QED
    BY <2>1, FS_EmptySet, LedgerAssumption DEF IsLedger
<1>3. LedgersTyped'
  BY <1>1, <1>2 DEF LedgersTyped
<1>4. TmpIsMine'
  BY <1>1 DEF TmpIsMine, LedgersTyped
<1>5. SavedTurnsSurvive'
  BY <1>1, SameLedger DEF LedgersTyped
<1>6. QED
  BY <1>3, <1>4, <1>5

LEMMA InitHolds == Init => LedgerInv
<1> SUFFICES ASSUME Init PROVE LedgerInv
  OBVIOUS
<1>1. Fresh \in Ledgers /\ Kept(Fresh) = {} /\ Cardinality(Kept(Fresh)) <= MaxDays
  <2>1. Fresh \in Ledgers /\ Kept(Fresh) = {}
    BY DEF Fresh, Ledgers, Kept
  <2>2. QED
    BY <2>1, FS_EmptySet, LedgerAssumption
<1>2. LedgersTyped /\ TmpIsMine
  BY <1>1 DEF Init, LedgersTyped, TmpIsMine, IsLedger
<1>3. Loaded = Fresh /\ settled = Fresh
  BY DEF Loaded, Init
<1>4. \A d \in Days : Holds(Fresh, d)
  <2>1. \A d \in Days : Fresh[d] >= Fresh[d]
    BY DEF Fresh
  <2>2. QED
    BY <1>3, <2>1 DEF Holds
<1>5. QED
  BY <1>2, <1>3, <1>4 DEF LedgerInv, SavedTurnsSurvive, Init

(* pricing.rs, record and save: with one process on the path, a turn that a *)
(* completed save contained is in every ledger that is loaded later, over   *)
(* any number of kills and failed saves, or its day was pruned.             *)
THEOREM TheSavedTurnsSurvive ==
    ASSUME Alone
    PROVE  Spec => []SavedTurnsSurvive
<1>1. LedgerInv /\ [Next]_vars => LedgerInv'
  <2> SUFFICES ASSUME LedgerInv, [Next]_vars PROVE LedgerInv'
    OBVIOUS
  <2>1. CASE ClockMoves \/ UNCHANGED vars
    <3>1. /\ today' \in Days
          /\ UNCHANGED <<phase, memory, fd, file, tmp, data, settled>>
      BY <2>1 DEF ClockMoves, fsVars, vars, LedgerInv, LedgersTyped
    <3>2. LedgersTyped' /\ TmpIsMine'
      BY <3>1 DEF LedgerInv, LedgersTyped, TmpIsMine
    <3>3. SavedTurnsSurvive'
      BY <3>1, SameLedger
    <3>4. QED
      BY <3>2, <3>3 DEF LedgerInv
  <2>2. ASSUME NEW p \in Processes,
               \/ Start(p) \/ Record(p) \/ OpenTmp(p) \/ WriteTmp(p)
               \/ RenameTmp(p) \/ SaveFails(p) \/ Crash(p)
        PROVE  LedgerInv'
    BY <2>2, StartKeeps, RecordKeeps, OpenKeeps, WriteKeeps, RenameKeeps,
       FailKeeps, CrashKeeps
  <2>3. QED
    BY <2>1, <2>2 DEF Next
<1>2. LedgerInv => SavedTurnsSurvive
  BY DEF LedgerInv
<1>3. QED
  BY <1>1, <1>2, InitHolds, PTL DEF Spec
=============================================================================
