--------------------------- MODULE FileTxnProofs ---------------------------
(* Proofs about the file-move transactions: the invariants of FileTxn for  *)
(* any number of invocations, files, transactions, crashes and operator's  *)
(* changes, and that a transaction is atomic.                              *)
EXTENDS FileTxn, TLAPS

(* A file is in one directory only, as the probe wrote it.                 *)
Only(d) == [e \in Dirs |-> IF e = d THEN "original" ELSE Nothing]

Intact == written \ touched
Listed(f) == Len(txns) > 0 /\ Txn.status = "intent" /\ f[1] \in Txn.recs

(* Only the last transaction may be open; it is while the chain moves      *)
(* files, and is not while the chain is at work.                           *)
TxnInv ==
  /\ \A t \in 1..Len(txns) : txns[t].status = "intent" => t = Len(txns)
  /\ chain.pc = "work" => \A t \in 1..Len(txns) : txns[t].status = "committed"
  /\ chain.pc = "move" => Len(txns) > 0 /\ Txn.status = "intent" /\ chain.todo \subseteq DOMAIN Txn.sha
  /\ Len(txns) > 0 /\ Txn.status = "intent" =>
       /\ Txn.recs \subseteq Active
       /\ \A f \in Intact \cap DOMAIN Txn.sha : f[1] \in Txn.recs

(* An invocation that has not left is at home.                             *)
RecInv ==
  \A i \in Invocations :
    recs[i].status \in {"unregistered", "running", "validated"} => recs[i].dir = Home

(* A file of a listed invocation is at home, if it is still to be moved,   *)
(* or at its destination; any other is where its record says.              *)
FileInv ==
  /\ \A f \in Files \ (written \cup touched) : \A d \in Dirs : disk[f][d] = Nothing
  /\ \A f \in Intact :
       /\ recs[f[1]].status # "unregistered"
       /\ Listed(f) =>
            /\ f \in DOMAIN Txn.sha /\ Txn.sha[f] = "original"
            /\ \/ disk[f] = Only(Home) /\ (chain.pc = "move" => f \in chain.todo)
               \/ disk[f] = Only(Cur)
       /\ ~Listed(f) =>
            /\ disk[f] = Only(recs[f[1]].dir)
            /\ \/ f[1] \in Active
               \/ recs[f[1]].dir \in 1..Len(txns) /\ f \in DOMAIN txns[recs[f[1]].dir].sha

IInv == TypeOK /\ TxnInv /\ RecInv /\ FileInv

USE DEF Home, Nothing

-----------------------------------------------------------------------------
(* A sum of contents is a function on some of the files.                   *)
LEMMA Sums ==
  ASSUME NEW x \in UNION {[F -> Contents] : F \in SUBSET Files}
  PROVE  DOMAIN x \subseteq Files /\ \A f \in DOMAIN x : x[f] \in Contents
OBVIOUS

LEMMA HomeInDirs == Home \in Dirs /\ \A t \in 1..MaxTxns : t \in Dirs /\ t # Home
BY BoundsAssumption DEF Dirs

(* The last transaction, while there is one.                               *)
LEMMA LastTxn ==
  ASSUME TypeOK, Len(txns) > 0
  PROVE  /\ Cur \in 1..Len(txns) /\ Cur \in Dirs /\ Cur # Home
         /\ Txn \in Transactions /\ DOMAIN Txn.sha \subseteq Files
         /\ \A f \in DOMAIN Txn.sha : Txn.sha[f] \in Contents
<1>1. Cur \in 1..Len(txns) /\ Cur \in 1..MaxTxns
  BY BoundsAssumption DEF TypeOK, Cur
<1>2. Txn \in Transactions
  BY <1>1 DEF TypeOK, Txn, Cur
<1>3. Txn.sha \in UNION {[F -> Contents] : F \in SUBSET Files}
  BY <1>2 DEF Transactions
<1> QED BY <1>1, <1>2, <1>3, Sums, HomeInDirs

(* What an intent appends.                                                 *)
LEMMA BeginEffect ==
  ASSUME TypeOK, NEW kind \in {"quarantine", "archive_stopped", "archive_load"},
         NEW S \in SUBSET Invocations, NEW F \in SUBSET Files,
         \A f \in F : disk[f][Home] # Nothing,
         Begin(kind, S, F)
  PROVE  /\ txns' \in Seq(Transactions) /\ Len(txns') = Len(txns) + 1 /\ Len(txns') <= MaxTxns
         /\ \A t \in 1..Len(txns) : txns'[t] = txns[t]
         /\ Cur' = Len(txns) + 1 /\ Cur' \in Dirs
         /\ Txn' = [kind |-> kind, recs |-> S, status |-> "intent", sha |-> [f \in F |-> disk[f][Home]]]
<1> DEFINE t == [kind |-> kind, recs |-> S, status |-> "intent", sha |-> [f \in F |-> disk[f][Home]]]
<1>1. [f \in F |-> disk[f][Home]] \in [F -> Contents]
  BY HomeInDirs DEF TypeOK
<1>2. t.sha \in UNION {[G -> Contents] : G \in SUBSET Files}
  BY <1>1
<1>3. t \in Transactions
  BY <1>2 DEF Transactions
<1>4. txns \in Seq(Transactions) /\ txns' = Append(txns, t) /\ Len(txns) < MaxTxns
  BY DEF TypeOK, Begin
<1> HIDE DEF t
<1>5. /\ txns' \in Seq(Transactions) /\ Len(txns') = Len(txns) + 1
      /\ \A u \in 1..Len(txns) : txns'[u] = txns[u]
      /\ txns'[Len(txns) + 1] = t
  BY <1>3, <1>4
<1>6. Len(txns') \in 1..MaxTxns
  BY <1>4, <1>5, BoundsAssumption
<1> QED BY <1>4, <1>5, <1>6, HomeInDirs, BoundsAssumption DEF t, Cur, Txn, Dirs

(* An intent on active invocations, for the files of theirs that are at    *)
(* home and whatever else is, keeps the invariant.                         *)
LEMMA BeginIInv ==
  ASSUME IInv, NEW kind \in {"quarantine", "archive_stopped", "archive_load"},
         NEW S \in SUBSET Invocations, NEW F \in SUBSET Files,
         S \subseteq Active,
         \A f \in F : disk[f][Home] # Nothing,
         \A f \in FilesOf(S) : disk[f][Home] # Nothing => f \in F,
         \A f \in F \cap Intact : f[1] \in S,
         Begin(kind, S, F)
  PROVE  IInv'
<1>1. /\ txns' \in Seq(Transactions) /\ Len(txns') = Len(txns) + 1 /\ Len(txns') <= MaxTxns
      /\ \A t \in 1..Len(txns) : txns'[t] = txns[t]
      /\ Cur' = Len(txns) + 1 /\ Cur' \in Dirs
      /\ Txn' = [kind |-> kind, recs |-> S, status |-> "intent", sha |-> [f \in F |-> disk[f][Home]]]
  BY BeginEffect DEF IInv
<1>2. /\ chain.pc = "work" /\ chain' = [pc |-> "move", todo |-> F]
      /\ UNCHANGED <<recs, gen, disk, written, touched, crashes, tampers>>
  BY DEF Begin, AtWork
<1>3. Len(txns) \in Nat
  BY DEF IInv, TypeOK
<1>4. TypeOK'
  BY <1>1, <1>2 DEF IInv, TypeOK
<1>5. TxnInv'
  <2>1. \A t \in 1..Len(txns') : txns'[t].status = "intent" => t = Len(txns')
    BY <1>1, <1>2, <1>3 DEF IInv, TxnInv
  <2> QED BY <2>1, <1>1, <1>2, <1>3 DEF TxnInv, Active, Intact
<1>6. RecInv'
  BY <1>2 DEF IInv, RecInv
<1>7. FileInv'
  <2>1. \A f \in Files \ (written \cup touched)' : \A d \in Dirs : disk'[f][d] = Nothing
    BY <1>2 DEF IInv, FileInv
  <2>2. ASSUME NEW f \in Intact'
        PROVE  /\ recs'[f[1]].status # "unregistered"
               /\ disk[f] = Only(recs[f[1]].dir)
               /\ f \in Files
    <3>1. f \in Intact /\ f \in Files
      BY <1>2 DEF Intact, IInv, TypeOK
    <3>2. ~Listed(f)
      BY <1>2, <1>3 DEF Listed, IInv, TxnInv, Txn, Cur
    <3> QED BY <3>1, <3>2, <1>2 DEF IInv, FileInv
  <2>3. ASSUME NEW f \in Intact', Listed(f)'
        PROVE  /\ f \in DOMAIN Txn'.sha /\ Txn'.sha[f] = "original"
               /\ disk'[f] = Only(Home) /\ f \in chain'.todo
    <3>1. f[1] \in S /\ f \in Files
      BY <2>2, <2>3, <1>1 DEF Listed
    <3>2. recs[f[1]].dir = Home
      BY <3>1 DEF IInv, RecInv, Active
    <3>3. disk[f] = Only(Home) /\ disk[f][Home] = "original"
      BY <2>2, <2>3, <3>2, HomeInDirs DEF Only
    <3>4. f \in F
      BY <3>1, <3>3 DEF FilesOf
    <3> QED BY <1>1, <1>2, <3>3, <3>4
  <2>4. ASSUME NEW f \in Intact', ~Listed(f)'
        PROVE  /\ disk'[f] = Only(recs'[f[1]].dir)
               /\ \/ f[1] \in Active'
                  \/ recs'[f[1]].dir \in 1..Len(txns') /\ f \in DOMAIN txns'[recs'[f[1]].dir].sha
    <3>1. f \in Intact /\ ~Listed(f)
      BY <1>2, <1>3, <2>4 DEF Intact, Listed, IInv, TxnInv, Txn, Cur
    <3>2. \/ f[1] \in Active
          \/ recs[f[1]].dir \in 1..Len(txns) /\ f \in DOMAIN txns[recs[f[1]].dir].sha
      BY <3>1 DEF IInv, FileInv
    <3> QED BY <2>2, <2>4, <3>2, <1>1, <1>2, <1>3 DEF Active
  <2> QED BY <2>1, <2>2, <2>3, <2>4 DEF FileInv, Only, Dirs
<1> QED BY <1>4, <1>5, <1>6, <1>7 DEF IInv

-----------------------------------------------------------------------------
LEMMA InitIInv == Init => IInv
<1> SUFFICES ASSUME Init PROVE IInv
  OBVIOUS
<1>1. TypeOK
  BY HomeInDirs, BoundsAssumption DEF Init, TypeOK, Statuses, Files
<1> QED BY <1>1, HomeInDirs DEF Init, IInv, TxnInv, RecInv, FileInv, Intact, Files

(* _move_one keeps the invariant: an intact file goes from home to its     *)
(* destination, or is there already.                                       *)
LEMMA MoveIInv ==
  ASSUME IInv, NEW f \in Files, MoveOne(f)
  PROVE  IInv'
<1>1. /\ chain.pc = "move" /\ f \in chain.todo
      /\ UNCHANGED <<recs, gen, txns, written, touched, crashes, tampers>>
      /\ AlreadyThere(f) \/ ToMove(f)
  BY DEF MoveOne
<1>2. /\ Cur \in 1..Len(txns) /\ Cur \in Dirs /\ Cur # Home /\ Home \in Dirs
      /\ f \in DOMAIN Txn.sha /\ Txn.sha[f] \in Contents /\ Txn.status = "intent" /\ Len(txns) > 0
  BY <1>1, LastTxn, HomeInDirs DEF IInv, TxnInv
<1>3. CASE Abort /\ UNCHANGED disk
  <2>1. TypeOK'
    BY <1>1, <1>3 DEF IInv, TypeOK, Abort
  <2> QED BY <2>1, <1>1, <1>3 DEF IInv, TxnInv, RecInv, FileInv, Abort, Active, Intact, Listed, Txn, Cur
<1>4. CASE /\ Moved(f)
           /\ disk' = [disk EXCEPT ![f] = [@ EXCEPT ![Home] = Nothing, ![Cur] = Txn.sha[f]]]
  <2>1. TypeOK'
    <3>1. disk' \in [Files -> [Dirs -> Contents \cup {Nothing}]]
      BY <1>2, <1>4 DEF IInv, TypeOK
    <3> QED BY <3>1, <1>1, <1>4 DEF IInv, TypeOK, Moved
  <2>2. TxnInv' /\ RecInv'
    BY <1>1, <1>4 DEF IInv, TypeOK, TxnInv, RecInv, Moved, Active, Intact, Txn, Cur
  <2>3. FileInv'
    <3>1. \A g \in Files : g # f => disk'[g] = disk[g] /\ (g \in chain.todo => g \in chain'.todo)
      BY <1>4 DEF IInv, TypeOK, Moved
    <3>2. ASSUME f \in Intact PROVE Listed(f) /\ disk'[f] = Only(Cur)
      <4>1. f[1] \in Txn.recs
        BY <1>2, <3>2 DEF IInv, TxnInv
      <4>2. Txn.sha[f] = "original"
        BY <4>1, <1>2, <3>2 DEF IInv, FileInv, Listed
      <4>3. disk[f] = Only(Home) \/ disk[f] = Only(Cur)
        BY <4>1, <1>2, <3>2 DEF IInv, FileInv, Listed
      <4> QED BY <4>1, <4>2, <4>3, <1>2, <1>4 DEF Only, Listed, IInv, TypeOK
    <3>3. f \notin written \cup touched => FALSE
      BY <1>2, <1>4, <1>1 DEF IInv, FileInv, AlreadyThere, ToMove, Abort, Moved, Contents
    <3>4. \A g \in Intact : g \in Files
      BY DEF IInv, TypeOK, Intact
    <3> QED BY <3>1, <3>2, <3>3, <3>4, <1>1, <1>4
            DEF IInv, FileInv, Intact, Listed, Active, Txn, Cur, Moved
  <2> QED BY <2>1, <2>2, <2>3 DEF IInv
<1>5. ASSUME AlreadyThere(f), ~Abort
      PROVE  Moved(f) /\ disk' = [disk EXCEPT ![f] = [@ EXCEPT ![Home] = Nothing, ![Cur] = Txn.sha[f]]]
  BY <1>2, <1>5 DEF AlreadyThere, IInv, TypeOK
<1>6. ASSUME ToMove(f), ~Abort
      PROVE  Moved(f) /\ disk' = [disk EXCEPT ![f] = [@ EXCEPT ![Home] = Nothing, ![Cur] = Txn.sha[f]]]
  BY <1>2, <1>6 DEF ToMove, IInv, TypeOK
<1>7. (Abort /\ UNCHANGED disk) \/ ~Abort
  BY <1>1 DEF AlreadyThere, ToMove, Abort, Moved, IInv, TypeOK
<1> QED BY <1>1, <1>3, <1>4, <1>5, <1>6, <1>7

(* The commit: every file has moved, so each record follows its files.     *)
LEMMA CommitEffect ==
  ASSUME IInv, Commit
  PROVE  /\ Len(txns) > 0 /\ Txn.status = "intent" /\ txns' \in Seq(Transactions)
         /\ Len(txns') = Len(txns)
         /\ \A t \in 1..Len(txns) : t # Cur => txns'[t] = txns[t]
         /\ txns'[Cur] = [Txn EXCEPT !.status = "committed"]
<1>1. Len(txns) > 0 /\ Txn.status = "intent"
  BY DEF Commit, IInv, TxnInv
<1>2. Cur \in 1..Len(txns) /\ Txn \in Transactions
  BY <1>1, LastTxn DEF IInv
<1>3. [Txn EXCEPT !.status = "committed"] \in Transactions
  BY <1>2 DEF Transactions
<1>4. txns' = [txns EXCEPT ![Cur] = [Txn EXCEPT !.status = "committed"]]
  BY DEF Commit, Txn
<1> QED BY <1>1, <1>2, <1>3, <1>4 DEF IInv, TypeOK

LEMMA CommitIInv ==
  ASSUME IInv, Commit
  PROVE  IInv'
<1>1. /\ Len(txns) > 0 /\ Txn.status = "intent" /\ txns' \in Seq(Transactions)
      /\ Len(txns') = Len(txns)
      /\ \A t \in 1..Len(txns) : t # Cur => txns'[t] = txns[t]
      /\ txns'[Cur] = [Txn EXCEPT !.status = "committed"]
  BY CommitEffect
<1>2. /\ Cur \in 1..Len(txns) /\ Cur \in Dirs /\ Cur # Home
      /\ Txn.recs \subseteq Active /\ Txn \in Transactions
  BY <1>1, LastTxn DEF IInv, TxnInv
<1>3. /\ chain.pc = "move" /\ chain.todo = {} /\ chain' = [pc |-> "work", todo |-> {}]
      /\ recs' = Repointed(Cur)
      /\ gen' \in {gen, gen + 1}
      /\ UNCHANGED <<disk, written, touched, crashes, tampers>>
  BY DEF Commit
<1>4. \A i \in Invocations :
        IF i \in Txn.recs
        THEN /\ recs'[i].status \in {"archived", "quarantined"}
             /\ recs'[i].dir = IF \E k \in Kinds : <<i, k>> \in DOMAIN Txn.sha THEN Cur ELSE recs[i].dir
        ELSE recs'[i] = recs[i]
  BY <1>3 DEF Repointed, LeftAs, Txn
<1>5. TypeOK'
  <2>1. recs' \in [Invocations -> [status : Statuses, dir : Dirs]]
    BY <1>2, <1>3 DEF Repointed, LeftAs, IInv, TypeOK, Statuses
  <2> QED BY <2>1, <1>1, <1>3 DEF IInv, TypeOK
<1>6. TxnInv'
  <2>1. \A t \in 1..Len(txns') : txns'[t].status = "committed"
    <3>1. txns'[Cur].status = "committed"
      BY <1>1, <1>2 DEF Transactions
    <3>2. ASSUME NEW t \in 1..Len(txns), t # Cur PROVE txns[t].status = "committed"
      <4>1. txns[t] \in Transactions
        BY DEF IInv, TypeOK
      <4> QED BY <4>1, <3>2 DEF IInv, TxnInv, Transactions, Cur
    <3> QED BY <3>1, <3>2, <1>1
  <2> QED BY <2>1, <1>1, <1>2, <1>3 DEF TxnInv, Txn, Cur
<1>7. RecInv'
  BY <1>4 DEF IInv, RecInv
<1>8. FileInv'
  <2>1. \A f \in Intact : f \in Files /\ f[1] \in Invocations /\ f = <<f[1], f[2]>> /\ f[2] \in Kinds
    BY DEF IInv, TypeOK, Intact, Files
  <2>2. ~(\E f \in Intact' : Listed(f)')
    BY <1>1, <1>2 DEF Listed, Txn, Cur, Transactions
  <2>3. ASSUME NEW f \in Intact, Listed(f)
        PROVE  /\ recs'[f[1]].status # "unregistered"
               /\ disk'[f] = Only(recs'[f[1]].dir)
               /\ recs'[f[1]].dir \in 1..Len(txns') /\ f \in DOMAIN txns'[recs'[f[1]].dir].sha
    <3>1. f[1] \in Txn.recs /\ f \in DOMAIN Txn.sha /\ disk[f] = Only(Cur)
      BY <2>3, <1>3 DEF Listed, IInv, FileInv
    <3>2. recs'[f[1]].dir = Cur /\ recs'[f[1]].status # "unregistered"
      BY <3>1, <2>1, <1>4
    <3>3. DOMAIN txns'[Cur].sha = DOMAIN Txn.sha
      BY <1>1, <1>2 DEF Transactions
    <3> QED BY <3>1, <3>2, <3>3, <1>1, <1>2, <1>3
  <2>4. ASSUME NEW f \in Intact, ~Listed(f)
        PROVE  /\ recs'[f[1]].status # "unregistered"
               /\ disk'[f] = Only(recs'[f[1]].dir)
               /\ \/ f[1] \in Active'
                  \/ recs'[f[1]].dir \in 1..Len(txns') /\ f \in DOMAIN txns'[recs'[f[1]].dir].sha
    <3>1. recs'[f[1]] = recs[f[1]]
      BY <2>1, <2>4, <1>1, <1>4 DEF Listed
    <3>2. /\ recs[f[1]].status # "unregistered" /\ disk[f] = Only(recs[f[1]].dir)
          /\ \/ f[1] \in Active
             \/ recs[f[1]].dir \in 1..Len(txns) /\ f \in DOMAIN txns[recs[f[1]].dir].sha
      BY <2>4 DEF IInv, FileInv
    <3>3. \A t \in 1..Len(txns) : DOMAIN txns'[t].sha = DOMAIN txns[t].sha
      BY <1>1, <1>2 DEF Transactions, Txn
    <3> QED BY <3>1, <3>2, <3>3, <2>1, <1>1, <1>3 DEF Active
  <2>5. \A d : Only(d)' = Only(d)
    BY DEF Only, Dirs
  <2> QED BY <2>2, <2>3, <2>4, <2>5, <1>3 DEF FileInv, Intact, IInv
<1> QED BY <1>5, <1>6, <1>7, <1>8 DEF IInv

(* The probe creates a file of a running invocation, which is at home.     *)
LEMMA ProbeWritesIInv ==
  ASSUME IInv, NEW f \in Files, ProbeWrites(f)
  PROVE  IInv'
<1>1. /\ chain.pc = "work" /\ recs[f[1]].status = "running" /\ f \notin written \cup touched
      /\ disk' = [disk EXCEPT ![f] = [@ EXCEPT ![Home] = "original"]]
      /\ written' = written \cup {f}
      /\ UNCHANGED <<recs, gen, txns, chain, touched, crashes, tampers>>
  BY DEF ProbeWrites, AtWork
<1>2. f[1] \in Invocations /\ recs[f[1]].dir = Home /\ Home \in Dirs
  BY <1>1, HomeInDirs DEF Files, IInv, RecInv
<1>3. TypeOK'
  <2>1. disk' \in [Files -> [Dirs -> Contents \cup {Nothing}]]
    BY <1>1, <1>2 DEF IInv, TypeOK, Contents
  <2> QED BY <2>1, <1>1 DEF IInv, TypeOK
<1>4. TxnInv' /\ RecInv'
  <2>1. chain.pc = "work" /\ ~(Len(txns) > 0 /\ Txn.status = "intent")
    BY <1>1 DEF IInv, TypeOK, TxnInv, Txn, Cur
  <2> QED BY <2>1, <1>1 DEF IInv, TxnInv, RecInv, Txn, Cur
<1>5. FileInv'
  <2>1. disk'[f] = Only(Home)
    <3>1. disk[f] \in [Dirs -> Contents \cup {Nothing}] /\ disk'[f] = [disk[f] EXCEPT ![Home] = "original"]
      BY <1>1 DEF IInv, TypeOK
    <3>2. \A d \in Dirs : disk[f][d] = Nothing
      BY <1>1 DEF IInv, FileInv
    <3> QED BY <3>1, <3>2 DEF Only
  <2>2. \A g \in Files : g # f => disk'[g] = disk[g]
    BY <1>1 DEF IInv, TypeOK
  <2>3. f[1] \in Active
    BY <1>1, <1>2 DEF Active
  <2>4. \A g \in Intact' : g \in Files /\ ~Listed(g)
    BY <1>1 DEF IInv, TypeOK, TxnInv, Listed, Intact, Txn, Cur
  <2> QED BY <2>1, <2>2, <2>3, <2>4, <1>1, <1>2
          DEF IInv, FileInv, Intact, Listed, Active, Txn, Cur, Only
<1> QED BY <1>3, <1>4, <1>5 DEF IInv

(* A file the operator has touched is out of the invariant.                *)
LEMMA TamperIInv ==
  ASSUME IInv, NEW f \in Files, NEW d \in Dirs, NEW c \in Contents \cup {Nothing}, Tamper(f, d, c)
  PROVE  IInv'
<1>1. /\ disk' = [disk EXCEPT ![f] = [@ EXCEPT ![d] = c]]
      /\ touched' = touched \cup {f} /\ tampers' = tampers + 1
      /\ UNCHANGED <<recs, gen, txns, chain, written, crashes>>
  BY DEF Tamper
<1>2. TypeOK'
  <2>1. disk' \in [Files -> [Dirs -> Contents \cup {Nothing}]]
    BY <1>1 DEF IInv, TypeOK
  <2> QED BY <2>1, <1>1 DEF IInv, TypeOK
<1>3. \A g \in Files : g # f => disk'[g] = disk[g]
  BY <1>1 DEF IInv, TypeOK
<1>4. Intact' \subseteq Intact /\ f \notin Intact' /\ Intact' \subseteq Files
  BY <1>1 DEF Intact, IInv, TypeOK
<1>5. TxnInv' /\ RecInv'
  BY <1>1, <1>4 DEF IInv, TxnInv, RecInv, Active, Txn, Cur
<1>6. FileInv'
  BY <1>1, <1>3, <1>4 DEF IInv, FileInv, Listed, Active, Txn, Cur, Only, Dirs
<1> QED BY <1>2, <1>5, <1>6 DEF IInv

(* Only the chain's position changes: it dies, or finds the transaction it *)
(* has to complete.                                                        *)
LEMMA PositionIInv ==
  ASSUME IInv, Crash \/ Resume \/ Restart
  PROVE  IInv'
<1>1. /\ UNCHANGED <<recs, gen, txns, disk, written, touched, tampers>> /\ crashes' \in {crashes, crashes + 1}
      /\ \/ chain' = [pc |-> "down", todo |-> {}]
         \/ Open # {} /\ chain' = [pc |-> "move", todo |-> DOMAIN Txn.sha]
         \/ Open = {} /\ chain' = [pc |-> "work", todo |-> {}]
  BY DEF Crash, Resume, Restart
<1>2. Open # {} => Len(txns) > 0 /\ Txn.status = "intent" /\ DOMAIN Txn.sha \subseteq Files
  <2> SUFFICES ASSUME NEW t \in Open PROVE Len(txns) > 0 /\ Txn.status = "intent" /\ DOMAIN Txn.sha \subseteq Files
    OBVIOUS
  <2>1. t \in 1..Len(txns) /\ txns[t].status = "intent" /\ t = Len(txns)
    BY DEF Open, IInv, TxnInv
  <2>2. Len(txns) > 0 /\ Txn.status = "intent"
    BY <2>1 DEF IInv, TypeOK, Txn, Cur
  <2> QED BY <2>2, LastTxn DEF IInv
<1>3. Open = {} => \A t \in 1..Len(txns) : txns[t].status = "committed"
  <2> SUFFICES ASSUME Open = {}, NEW t \in 1..Len(txns) PROVE txns[t].status = "committed"
    OBVIOUS
  <2>1. txns[t] \in Transactions
    BY DEF IInv, TypeOK
  <2> QED BY <2>1 DEF Open, Transactions
<1>4. TypeOK'
  BY <1>1, <1>2 DEF IInv, TypeOK
<1>5. TxnInv' /\ RecInv'
  BY <1>1, <1>2, <1>3 DEF IInv, TxnInv, RecInv, Active, Intact, Txn, Cur
<1>6. FileInv'
  BY <1>1, <1>2 DEF IInv, FileInv, Listed, Active, Intact, Txn, Cur, Only, Dirs
<1> QED BY <1>4, <1>5, <1>6 DEF IInv

(* Registering and validating happen with no transaction open.             *)
LEMMA RecordIInv ==
  ASSUME IInv, NEW i \in Invocations, Register(i) \/ Validate(i)
  PROVE  IInv'
<1>1. /\ chain.pc = "work"
      /\ recs[i].status \in {"unregistered", "running"}
      /\ \E s \in {"running", "validated"} : recs' = [recs EXCEPT ![i] = [@ EXCEPT !.status = s]]
      /\ UNCHANGED <<gen, txns, disk, chain, written, touched, crashes, tampers>>
  BY DEF Register, Validate, AtWork
<1>2. /\ \A j \in Invocations : recs'[j].dir = recs[j].dir /\ (j # i => recs'[j] = recs[j])
      /\ recs'[i].status \in {"running", "validated"}
      /\ recs' \in [Invocations -> [status : Statuses, dir : Dirs]]
  BY <1>1 DEF IInv, TypeOK, Statuses
<1>3. TypeOK'
  BY <1>1, <1>2 DEF IInv, TypeOK
<1>4. ~(Len(txns) > 0 /\ Txn.status = "intent")
  BY <1>1 DEF IInv, TypeOK, TxnInv, Txn, Cur
<1>5. TxnInv' /\ RecInv'
  BY <1>1, <1>2, <1>4 DEF IInv, TxnInv, RecInv, Txn, Cur
<1>6. FileInv'
  <2>1. \A f \in Intact : f \in Files /\ f[1] \in Invocations /\ ~Listed(f) /\ (f[1] \in Active => f[1] \in Active')
    BY <1>2, <1>4 DEF IInv, TypeOK, Intact, Files, Listed, Active
  <2> QED BY <2>1, <1>1, <1>2, <1>4 DEF IInv, FileInv, Intact, Listed, Txn, Cur, Only, Dirs
<1> QED BY <1>3, <1>5, <1>6 DEF IInv

(* The three kinds of transaction are intents BeginIInv is about.          *)
LEMMA KindsOfIntent ==
  ASSUME IInv, Quarantine \/ ArchiveLoad \/ \E i \in Invocations : ArchiveStopped(i)
  PROVE  \E kind \in {"quarantine", "archive_stopped", "archive_load"} :
         \E S \in SUBSET Invocations, F \in SUBSET Files :
           /\ S \subseteq Active
           /\ \A f \in F : disk[f][Home] # Nothing
           /\ \A f \in FilesOf(S) : disk[f][Home] # Nothing => f \in F
           /\ \A f \in F \cap Intact : f[1] \in S
           /\ kind = "archive_load" => S = Active
           /\ Begin(kind, S, F)
<1>1. CASE Quarantine
  <2>1. Running \subseteq Active /\ Running \in SUBSET Invocations
    BY DEF Running, Active
  <2> QED BY <1>1, <2>1 DEF Quarantine, Present, FilesOf
<1>2. CASE \E i \in Invocations : ArchiveStopped(i)
  <2>1. PICK i \in Invocations : i \in Running /\ Begin("archive_stopped", {i}, Present(FilesOf({i}), Home))
    BY <1>2 DEF ArchiveStopped
  <2>2. {i} \subseteq Active /\ {i} \in SUBSET Invocations
    BY <2>1 DEF Running, Active
  <2> QED BY <2>1, <2>2 DEF Present, FilesOf
<1>3. CASE ArchiveLoad
  <2>1. Begin("archive_load", Active, Present(Files, Home)) /\ chain.pc = "work"
    BY <1>3 DEF ArchiveLoad, Begin, AtWork
  <2>2. ASSUME NEW f \in Intact, f \in Files, disk[f][Home] # Nothing PROVE f[1] \in Active
    <3>1. ~Listed(f)
      BY <2>1 DEF IInv, TypeOK, TxnInv, Listed, Txn, Cur
    <3>2. disk[f] = Only(recs[f[1]].dir)
      BY <3>1, <2>2 DEF IInv, FileInv
    <3>3. recs[f[1]].dir = Home
      BY <2>2, <3>2, HomeInDirs DEF Only
    <3> QED BY <3>1, <3>3, <2>2 DEF IInv, FileInv
  <2> QED BY <2>1, <2>2 DEF Present, FilesOf, Active
<1> QED BY <1>1, <1>2, <1>3

LEMMA NextIInv == IInv /\ [Next]_vars => IInv'
<1> SUFFICES ASSUME IInv, [Next]_vars PROVE IInv'
  OBVIOUS
<1>1. CASE \E i \in Invocations : Register(i) \/ Validate(i)
  BY <1>1, RecordIInv
<1>2. CASE Quarantine \/ ArchiveLoad \/ \E i \in Invocations : ArchiveStopped(i)
  BY <1>2, KindsOfIntent, BeginIInv
<1>3. CASE \E f \in Files : MoveOne(f)
  BY <1>3, MoveIInv
<1>4. CASE Commit
  BY <1>4, CommitIInv
<1>5. CASE Crash \/ Resume \/ Restart
  BY <1>5, PositionIInv
<1>6. CASE \E f \in Files : ProbeWrites(f)
  BY <1>6, ProbeWritesIInv
<1>7. CASE \E f \in Files, d \in Dirs, c \in Contents \cup {Nothing} : Tamper(f, d, c)
  BY <1>7, TamperIInv
<1>8. CASE UNCHANGED vars
  BY <1>8 DEF vars, IInv, TypeOK, TxnInv, RecInv, FileInv, Intact, Listed, Active, Txn, Cur, Only, Dirs
<1> QED BY <1>1, <1>2, <1>3, <1>4, <1>5, <1>6, <1>7, <1>8 DEF Next, ChainStep

(* The inductive invariant holds in every state.                           *)
THEOREM InductiveInvariant == Spec => []IInv
BY InitIInv, NextIInv, PTL DEF Spec

(* Type correctness, and that transactions are numbered below their bound. *)
THEOREM TypeCorrect == Spec => []TypeOK
<1>1. IInv => TypeOK
  BY DEF IInv
<1> QED BY <1>1, InductiveInvariant, PTL

(* Where an intact file is.                                                *)
LEMMA IntactIsSomewhere ==
  ASSUME IInv, NEW f \in Intact
  PROVE  /\ f \in Files
         /\ \E d \in Dirs : /\ disk[f] = Only(d)
                            /\ d # Home => d \in 1..Len(txns) /\ f \in DOMAIN txns[d].sha
<1>1. f \in Files /\ f[1] \in Invocations /\ recs[f[1]].dir \in Dirs
  BY DEF IInv, TypeOK, Intact, Files
<1>2. CASE Listed(f)
  <2>1. Cur \in 1..Len(txns) /\ Cur \in Dirs /\ Home \in Dirs
    BY <1>2, LastTxn, HomeInDirs DEF Listed, IInv
  <2> QED BY <1>1, <1>2, <2>1 DEF IInv, FileInv, Txn
<1>3. CASE ~Listed(f)
  <2>1. /\ disk[f] = Only(recs[f[1]].dir)
        /\ \/ f[1] \in Active
           \/ recs[f[1]].dir \in 1..Len(txns) /\ f \in DOMAIN txns[recs[f[1]].dir].sha
    BY <1>3 DEF IInv, FileInv
  <2> QED BY <1>1, <2>1 DEF IInv, RecInv, Active
<1> QED BY <1>2, <1>3

(* A file the operator leaves alone is never lost and never in two places, *)
(* at any step of any transaction, whenever the chain dies.                *)
THEOREM NeverLost == Spec => []NothingLost
<1>1. IInv => NothingLost
  <2> SUFFICES ASSUME IInv, NEW f \in Intact
               PROVE  \E d \in Dirs : /\ disk[f][d] = "original"
                                      /\ \A e \in Dirs \ {d} : disk[f][e] = Nothing
    BY DEF NothingLost, Intact
  <2>1. PICK d \in Dirs : disk[f] = Only(d)
    BY IntactIsSomewhere
  <2>2. disk[f][d] = "original" /\ \A e \in Dirs \ {d} : disk[f][e] = Nothing
    BY <2>1 DEF Only
  <2> QED BY <2>2
<1> QED BY <1>1, InductiveInvariant, PTL

(* No file moves before the intent that names it is in chain.json.         *)
THEOREM MovesFollowIntents == Spec => []MovedByIntent
<1>1. IInv => MovedByIntent
  <2> SUFFICES ASSUME IInv, NEW f \in Intact, NEW d \in Dirs \ {Home}, disk[f][d] # Nothing
               PROVE  d \in 1..Len(txns) /\ f \in DOMAIN txns[d].sha
    BY DEF MovedByIntent, Intact
  <2>1. PICK e \in Dirs : /\ disk[f] = Only(e)
                          /\ e # Home => e \in 1..Len(txns) /\ f \in DOMAIN txns[e].sha
    BY IntactIsSomewhere
  <2>2. d = e
    BY <2>1 DEF Only
  <2> QED BY <2>1, <2>2
<1> QED BY <1>1, InductiveInvariant, PTL

(* With no transaction open the records lead to their files.               *)
THEOREM RecordsLeadToFiles == Spec => []RecordsFindFiles
<1>1. IInv => RecordsFindFiles
  <2> SUFFICES ASSUME IInv, Open = {}, NEW f \in Intact
               PROVE  disk[f][recs[f[1]].dir] = "original"
    BY DEF RecordsFindFiles, Intact
  <2>1. ~Listed(f)
    BY DEF Listed, Open, IInv, TypeOK, Txn, Cur
  <2>2. f[1] \in Invocations /\ recs[f[1]].dir \in Dirs
    BY DEF IInv, TypeOK, Intact, Files
  <2>3. disk[f] = Only(recs[f[1]].dir)
    BY <2>1 DEF IInv, FileInv
  <2> QED BY <2>2, <2>3 DEF Only
<1> QED BY <1>1, InductiveInvariant, PTL

(* Whatever the operator did to the files, a step of the chain leaves      *)
(* every content it finds somewhere.                                       *)
THEOREM ChainDestroysNothing == Spec => NothingDestroyed
<1>1. IInv /\ [Next]_vars => [ChainStep => \A f \in Files : Held(f) \subseteq Held(f)']_vars
  <2> SUFFICES ASSUME IInv, ChainStep, NEW g \in Files PROVE Held(g) \subseteq Held(g)'
    OBVIOUS
  <2>1. UNCHANGED disk => Held(g) \subseteq Held(g)'
    BY DEF Held, Dirs
  <2>2. ASSUME NEW f \in Files, MoveOne(f) PROVE Held(g) \subseteq Held(g)'
    <3>1. /\ Cur \in Dirs /\ Cur # Home /\ Home \in Dirs /\ Txn.sha[f] \in Contents
          /\ AlreadyThere(f) \/ ToMove(f)
      BY <2>2, LastTxn, HomeInDirs DEF MoveOne, IInv, TxnInv
    <3>2. disk[f] \in [Dirs -> Contents \cup {Nothing}]
      BY DEF IInv, TypeOK
    <3>3. \/ UNCHANGED disk
          \/ /\ disk' = [disk EXCEPT ![f] = [@ EXCEPT ![Home] = Nothing, ![Cur] = Txn.sha[f]]]
             /\ disk[f][Home] \in {Nothing, Txn.sha[f]} /\ disk[f][Cur] \in {Nothing, Txn.sha[f]}
      BY <3>1, <3>2 DEF AlreadyThere, ToMove, IInv, TypeOK
    <3>4. ASSUME disk' = [disk EXCEPT ![f] = [@ EXCEPT ![Home] = Nothing, ![Cur] = Txn.sha[f]]],
                 disk[f][Home] \in {Nothing, Txn.sha[f]}, disk[f][Cur] \in {Nothing, Txn.sha[f]}
          PROVE  Held(g) \subseteq Held(g)'
      <4>1. ASSUME g # f PROVE disk'[g] = disk[g]
        BY <3>4, <4>1 DEF IInv, TypeOK
      <4>2. ASSUME g = f, NEW d \in Dirs, disk[f][d] # Nothing
            PROVE  \E e \in Dirs : disk'[f][e] = disk[f][d]
        <5>1. disk'[f] = [disk[f] EXCEPT ![Home] = Nothing, ![Cur] = Txn.sha[f]]
          BY <3>4 DEF IInv, TypeOK
        <5>2. CASE d \in {Home, Cur}
          BY <5>1, <5>2, <3>1, <3>2, <3>4, <4>2
        <5>3. CASE d \notin {Home, Cur}
          BY <5>1, <5>3, <3>2
        <5> QED BY <5>2, <5>3
      <4> QED BY <4>1, <4>2 DEF Held, Dirs
    <3> QED BY <3>3, <3>4, <2>1
  <2>3. ASSUME ~\E f \in Files : MoveOne(f) PROVE UNCHANGED disk
    BY <2>3 DEF ChainStep, Register, Validate, ArchiveStopped, Quarantine, ArchiveLoad, Begin, Commit, Resume, Restart
  <2> QED BY <2>1, <2>2, <2>3
<1> QED BY <1>1, InductiveInvariant, PTL DEF Spec, NothingDestroyed

-----------------------------------------------------------------------------
(* A transaction is one step of the inventory, taken at its intent.        *)

(* The only transaction that may be open is the last one.                  *)
LEMMA OpenIsLast ==
  ASSUME IInv
  PROVE  \/ Open = {} /\ ~(Len(txns) > 0 /\ Txn.status = "intent")
         \/ Open = {Cur} /\ Len(txns) > 0 /\ Txn.status = "intent"
BY DEF IInv, TypeOK, TxnInv, Open, Txn, Cur

LEMMA InitImplements == Init => AtomicMoves!Init
BY DEF Init, AtomicMoves!Init, Place, Generation, Open

LEMMA StepImplements == IInv /\ IInv' /\ [Next]_vars => [AtomicMoves!Next]_(AtomicMoves!ivars)
<1> SUFFICES ASSUME IInv, IInv', [Next]_vars PROVE [AtomicMoves!Next]_(AtomicMoves!ivars)
  OBVIOUS
<1>1. CASE \E i \in Invocations : Register(i) \/ Validate(i)
  <2>1. PICK i \in Invocations : Register(i) \/ Validate(i)
    BY <1>1
  <2>2. /\ chain.pc = "work" /\ Open = {} /\ Open' = {} /\ gen' = gen
        /\ recs[i].status \in {"unregistered", "running"}
    BY <2>1 DEF Register, Validate, AtWork, Open, IInv, TxnInv
  <2>3. \A j \in Invocations : j # i => recs'[j] = recs[j]
    BY <2>1 DEF Register, Validate, IInv, TypeOK
  <2>4. Register(i) => recs[i].status = "unregistered" /\ recs'[i].status = "running"
    BY DEF Register, IInv, TypeOK
  <2>5. Validate(i) => recs[i].status = "running" /\ recs'[i].status = "validated"
    BY DEF Validate, IInv, TypeOK
  <2>6. Generation' = Generation /\ \A j \in Invocations : j # i => Place(j)' = Place(j)
    BY <2>2, <2>3 DEF Place, Generation
  <2>7. CASE Register(i)
    <3>1. Place(i) = "absent" /\ Place(i)' = "running"
      BY <2>2, <2>4, <2>7 DEF Place
    <3>2. AtomicMoves!Register(i)
      BY <2>6, <3>1 DEF AtomicMoves!Register
    <3> QED BY <3>2 DEF AtomicMoves!Next
  <2>8. CASE Validate(i)
    <3>1. Place(i) = "running" /\ Place(i)' = "counted"
      BY <2>2, <2>5, <2>8 DEF Place
    <3>2. AtomicMoves!Count(i)
      BY <2>6, <3>1 DEF AtomicMoves!Count
    <3> QED BY <3>2 DEF AtomicMoves!Next
  <2> QED BY <2>1, <2>7, <2>8
<1>2. CASE Quarantine \/ ArchiveLoad \/ \E i \in Invocations : ArchiveStopped(i)
  <2>1. PICK kind \in {"quarantine", "archive_stopped", "archive_load"},
             S \in SUBSET Invocations, F \in SUBSET Files :
          /\ S \subseteq Active
          /\ \A f \in F : disk[f][Home] # Nothing
          /\ kind = "archive_load" => S = Active
          /\ Begin(kind, S, F)
    BY <1>2, KindsOfIntent
  <2>2. /\ Cur' = Len(txns) + 1 /\ Txn'.kind = kind /\ Txn'.recs = S /\ Txn'.status = "intent"
        /\ Len(txns') > 0
    <3>1. TypeOK /\ Len(txns) \in Nat
      BY DEF IInv, TypeOK
    <3>2. /\ Len(txns') = Len(txns) + 1 /\ Cur' = Len(txns) + 1
          /\ Txn' = [kind |-> kind, recs |-> S, status |-> "intent", sha |-> [f \in F |-> disk[f][Home]]]
      BY <2>1, <3>1, BeginEffect
    <3> QED BY <3>1, <3>2
  <2>3. Open = {} /\ Open' = {Cur'} /\ recs' = recs /\ gen' = gen
    <3>1. Open = {} /\ recs' = recs /\ gen' = gen
      BY <2>1 DEF Begin, AtWork, Open, IInv, TxnInv
    <3>2. Open' = {Cur'}
      BY <2>2, OpenIsLast DEF IInv, TypeOK, TxnInv, Open, Txn, Cur
    <3> QED BY <3>1, <3>2
  <2>4. \A i \in Invocations : Place(i)' = IF i \in S THEN "out" ELSE Place(i)
    BY <2>2, <2>3 DEF Place, Txn
  <2>5. Generation' = IF kind = "archive_load" THEN Generation + 1 ELSE Generation
    BY <2>2, <2>3 DEF Generation, Txn
  <2>6. \A i \in Invocations : i \in Active <=> Place(i) \in {"running", "counted"}
    BY <2>3 DEF Place, Active
  <2>7. AtomicMoves!Active = Active
    BY <2>6 DEF AtomicMoves!Active, Active
  <2>8. AtomicMoves!Out(S)
    BY <2>4 DEF AtomicMoves!Out
  <2>9. CASE kind = "archive_load"
    <3>1. AtomicMoves!LeaveAll
      BY <2>1, <2>5, <2>7, <2>8, <2>9 DEF AtomicMoves!LeaveAll
    <3> QED BY <3>1 DEF AtomicMoves!Next
  <2>10. CASE kind # "archive_load"
    <3>1. AtomicMoves!Leave(S)
      BY <2>1, <2>5, <2>7, <2>8, <2>10 DEF AtomicMoves!Leave
    <3> QED BY <3>1 DEF AtomicMoves!Next
  <2> QED BY <2>9, <2>10
<1>3. CASE Commit
  <2>1. /\ Len(txns) > 0 /\ Txn.status = "intent" /\ Len(txns') = Len(txns)
        /\ \A t \in 1..Len(txns) : t # Cur => txns'[t] = txns[t]
        /\ txns'[Cur] = [Txn EXCEPT !.status = "committed"]
    BY <1>3, CommitEffect
  <2>2. Cur \in 1..Len(txns) /\ Txn \in Transactions /\ Txn.recs \subseteq Active
    BY <2>1, LastTxn DEF IInv, TxnInv
  <2>3. Open = {Cur} /\ Open' = {}
    <3>1. Open = {Cur}
      BY <2>1, OpenIsLast
    <3>2. Txn'.status = "committed"
      BY <2>1, <2>2 DEF Txn, Cur, Transactions
    <3> QED BY <3>1, <3>2, OpenIsLast, <2>1 DEF IInv, TypeOK, TxnInv, Open, Txn, Cur
  <2>4. \A i \in Invocations :
          IF i \in Txn.recs THEN recs'[i].status \in {"archived", "quarantined"} ELSE recs'[i] = recs[i]
    BY <1>3 DEF Commit, Repointed, LeftAs, Txn
  <2>5. \A i \in Invocations : Place(i)' = Place(i)
    BY <2>3, <2>4 DEF Place, Txn
  <2>6. Generation' = Generation
    BY <1>3, <2>3 DEF Generation, Commit, Txn
  <2> QED BY <2>5, <2>6 DEF AtomicMoves!ivars
<1>4. CASE \/ \E f \in Files : MoveOne(f) \/ ProbeWrites(f)
           \/ Crash \/ Resume \/ Restart
           \/ \E f \in Files, d \in Dirs, c \in Contents \cup {Nothing} : Tamper(f, d, c)
           \/ UNCHANGED vars
  <2>1. UNCHANGED <<recs, gen, txns>>
    BY <1>4 DEF MoveOne, ProbeWrites, Crash, Resume, Restart, Tamper, vars
  <2>2. Generation' = Generation /\ \A i \in Invocations : Place(i)' = Place(i)
    BY <2>1 DEF Generation, Place, Open
  <2> QED BY <2>2 DEF AtomicMoves!ivars
<1> QED BY <1>1, <1>2, <1>3, <1>4 DEF Next, ChainStep

(* A transaction happens at once: whenever the chain dies, each invocation *)
(* named by an intent is out of the inventory, and the load's generation   *)
(* advances once for each archived load.                                   *)
THEOREM Implements == Spec => ImplementsInventory
BY InitImplements, StepImplements, InductiveInvariant, PTL DEF Spec, ImplementsInventory, AtomicMoves!Spec
=============================================================================
