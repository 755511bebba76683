------------------------------ MODULE FileTxn ------------------------------
(* The file-move transactions of the chain (bench/chain_core.py run_txn,   *)
(* complete_txn, _move_one, recover_txns): how the files of invocations    *)
(* leave a load's session directory.  The intent (which files, with their  *)
(* sha256) is in chain.json before the first file moves, the record        *)
(* changes are written with the commit, and a resume completes whatever    *)
(* transaction it finds open.  The chain may die between any two steps,    *)
(* and the operator may touch any file at any time.                        *)
(*                                                                         *)
(* A rename is atomic (everything is under one out_root).  A content       *)
(* stands for its own sha256.                                              *)
EXTENDS Integers, Sequences, FiniteSets

CONSTANTS
  Invocations,  \* the invocations of the load
  Kinds,        \* the files an invocation may have (rows, manifest, log, barrier files)
  MaxTxns,      \* bound on the transactions of a behaviour
  MaxCrashes,   \* bound on the deaths of the chain
  MaxTampers    \* bound on what the operator does to the files

ASSUME BoundsAssumption == MaxTxns \in Nat /\ MaxCrashes \in Nat /\ MaxTampers \in Nat

VARIABLES
  recs,     \* progress.invocations: the status and the directory of each record
  gen,      \* the load's generation
  txns,     \* progress.txns: kind, records, files moved with their contents, status
  disk,     \* what is at each path: the content of each file in each directory
  chain,    \* the chain: pc, and the files of the open transaction it has yet to move
  written,  \* history: what the probe wrote into each file
  touched,  \* history: the files the operator touched
  crashes,  \* deaths of the chain so far
  tampers   \* operator's changes so far

vars == <<recs, gen, txns, disk, chain, written, touched, crashes, tampers>>

Files == Invocations \X Kinds
Home == 0                       \* the session directory
Dirs == Home..MaxTxns           \* transaction i moves files to a directory of its own, i
Nothing == "nothing"
Contents == {"original", "other"}
Statuses == {"unregistered", "running", "validated", "quarantined", "archived"}

Active == {i \in Invocations : recs[i].status \in {"running", "validated"}}
Running == {i \in Invocations : recs[i].status = "running"}

IsOpen(t) == t \in 1..Len(txns) /\ txns[t].status = "intent"
Open == {t \in 1..Len(txns) : txns[t].status = "intent"}
FilesOf(S) == {f \in Files : f[1] \in S}
Present(F, d) == {f \in F : disk[f][d] # Nothing}

Init ==
  /\ recs = [i \in Invocations |-> [status |-> "unregistered", dir |-> Home]]
  /\ gen = 0
  /\ txns = <<>>
  /\ disk = [f \in Files |-> [d \in Dirs |-> Nothing]]
  /\ chain = [pc |-> "work", todo |-> {}]
  /\ written = {}
  /\ touched = {}
  /\ crashes = 0 /\ tampers = 0

-----------------------------------------------------------------------------
(* The chain at work                                                       *)

AtWork == chain.pc = "work"

(* register_invocation                                                     *)
Register(i) ==
  /\ AtWork /\ recs[i].status = "unregistered"
  /\ recs' = [recs EXCEPT ![i].status = "running"]
  /\ UNCHANGED <<gen, txns, disk, chain, written, touched, crashes, tampers>>

(* The probe of a running invocation creates one of its files.             *)
ProbeWrites(f) ==
  /\ AtWork /\ recs[f[1]].status = "running" /\ f \notin written /\ f \notin touched
  /\ disk' = [disk EXCEPT ![f][Home] = "original"]
  /\ written' = written \cup {f}
  /\ UNCHANGED <<recs, gen, txns, chain, touched, crashes, tampers>>

(* accept_invocation                                                       *)
Validate(i) ==
  /\ AtWork /\ recs[i].status = "running"
  /\ recs' = [recs EXCEPT ![i].status = "validated"]
  /\ UNCHANGED <<gen, txns, disk, chain, written, touched, crashes, tampers>>

(* Mutant: the files are moved first, the intent would be written after.   *)
BeginLate(kind, S, F) ==
  /\ AtWork /\ Len(txns) < MaxTxns
  /\ disk' = [f \in Files |->
                IF f \in F THEN [disk[f] EXCEPT ![Len(txns) + 1] = disk[f][Home], ![Home] = Nothing]
                ELSE disk[f]]
  /\ UNCHANGED <<recs, gen, txns, chain, written, touched, crashes, tampers>>

(* run_txn: the intent, with the sha256 of every file as it is now.        *)
Begin(kind, S, F) ==
  /\ AtWork /\ Len(txns) < MaxTxns
  /\ txns' = Append(txns, [kind |-> kind, recs |-> S, status |-> "intent",
                           sha |-> [f \in F |-> disk[f][Home]]])
  /\ chain' = [pc |-> "move", todo |-> F]
  /\ UNCHANGED <<recs, gen, disk, written, touched, crashes, tampers>>

(* quarantine: the never-validated invocations a dead chain left running.  *)
Quarantine == Running # {} /\ Begin("quarantine", Running, Present(FilesOf(Running), Home))

(* archive_stopped (per-arm): the invocation a STOP ended.                 *)
ArchiveStopped(i) == i \in Running /\ Begin("archive_stopped", {i}, Present(FilesOf({i}), Home))

(* archive_load: whatever is in the session directory, and every record    *)
(* that is still active.                                                   *)
ArchiveLoad == Begin("archive_load", Active, Present(Files, Home))

-----------------------------------------------------------------------------
(* The transaction: complete_txn, replayed from its start by a resume      *)

Cur == Len(txns)
Txn == txns[Cur]
Abort == chain' = [pc |-> "aborted", todo |-> {}]
Moved(f) == chain' = [chain EXCEPT !.todo = @ \ {f}]

(* Mutant: what is left at the source is unlinked unseen.                  *)
AlreadyThereUnlinks(f) ==
  /\ disk[f][Cur] # Nothing
  /\ IF disk[f][Cur] # Txn.sha[f]
     THEN Abort /\ UNCHANGED disk
     ELSE disk' = [disk EXCEPT ![f][Home] = Nothing] /\ Moved(f)

(* _move_one. Already at the destination: only the copy left behind goes.  *)
AlreadyThere(f) ==
  /\ disk[f][Cur] # Nothing
  /\ IF disk[f][Cur] # Txn.sha[f] \/ disk[f][Home] \notin {Nothing, Txn.sha[f]}
     THEN Abort /\ UNCHANGED disk
     ELSE disk' = [disk EXCEPT ![f][Home] = Nothing] /\ Moved(f)

(* Mutant: the file is copied and the source is left.                      *)
ToMoveCopies(f) ==
  /\ disk[f][Cur] = Nothing
  /\ IF disk[f][Home] # Txn.sha[f]
     THEN Abort /\ UNCHANGED disk
     ELSE disk' = [disk EXCEPT ![f][Cur] = disk[f][Home]] /\ Moved(f)

(* At its source still; at neither end, or changed since the intent, it is *)
(* not guessed.                                                            *)
ToMove(f) ==
  /\ disk[f][Cur] = Nothing
  /\ IF disk[f][Home] # Txn.sha[f]
     THEN Abort /\ UNCHANGED disk
     ELSE disk' = [disk EXCEPT ![f] = [@ EXCEPT ![Cur] = disk[f][Home], ![Home] = Nothing]] /\ Moved(f)

MoveOne(f) ==
  /\ chain.pc = "move" /\ f \in chain.todo
  /\ AlreadyThere(f) \/ ToMove(f)
  /\ UNCHANGED <<recs, gen, txns, written, touched, crashes, tampers>>

(* apply_txn_op: `repoint`, by the kind of the transaction; a record whose *)
(* probe left no file keeps its paths.                                     *)
LeftAs(kind, status) ==
  IF kind = "archive_load" \/ status = "validated" THEN "archived" ELSE "quarantined"

(* Mutant: the records change their status, not their paths.               *)
RestatedOnly(t) ==
  [i \in Invocations |->
     IF i \notin txns[t].recs THEN recs[i]
     ELSE [recs[i] EXCEPT !.status = LeftAs(txns[t].kind, @)]]

Repointed(t) ==
  [i \in Invocations |->
     IF i \notin txns[t].recs THEN recs[i]
     ELSE [status |-> LeftAs(txns[t].kind, recs[i].status),
           dir |-> IF \E k \in Kinds : <<i, k>> \in DOMAIN txns[t].sha THEN t ELSE recs[i].dir]]

(* Mutant: a replayed archive does not advance the load.                   *)
CommitWithoutAdvance ==
  /\ chain.pc = "move" /\ chain.todo = {}
  /\ recs' = Repointed(Cur)
  /\ gen' = IF Txn.kind = "archive_load" /\ crashes = 0 THEN gen + 1 ELSE gen
  /\ txns' = [txns EXCEPT ![Cur].status = "committed"]
  /\ chain' = [pc |-> "work", todo |-> {}]
  /\ UNCHANGED <<disk, written, touched, crashes, tampers>>

(* The record changes, `advance_load` among them, and the commit are one   *)
(* write of chain.json.                                                    *)
Commit ==
  /\ chain.pc = "move" /\ chain.todo = {}
  /\ recs' = Repointed(Cur)
  /\ gen' = IF Txn.kind = "archive_load" THEN gen + 1 ELSE gen
  /\ txns' = [txns EXCEPT ![Cur].status = "committed"]
  /\ chain' = [pc |-> "work", todo |-> {}]
  /\ UNCHANGED <<disk, written, touched, crashes, tampers>>

-----------------------------------------------------------------------------
(* Crash, resume, and the operator                                         *)

Crash ==
  /\ chain.pc \in {"work", "move"} /\ crashes < MaxCrashes
  /\ chain' = [pc |-> "down", todo |-> {}]
  /\ crashes' = crashes + 1
  /\ UNCHANGED <<recs, gen, txns, disk, written, touched, tampers>>

(* Mutant: a resume goes to work at once.                                  *)
ResumeUnrecovered ==
  /\ chain.pc = "down"
  /\ chain' = [pc |-> "work", todo |-> {}]
  /\ UNCHANGED <<recs, gen, txns, disk, written, touched, crashes, tampers>>

(* recover_txns: the open transaction is completed before anything reads   *)
(* the inventory.                                                          *)
Resume ==
  /\ chain.pc = "down"
  /\ chain' = IF Open # {} THEN [pc |-> "move", todo |-> DOMAIN Txn.sha]
              ELSE [pc |-> "work", todo |-> {}]
  /\ UNCHANGED <<recs, gen, txns, disk, written, touched, crashes, tampers>>

(* After an abort the operator starts the chain again.                     *)
Restart ==
  /\ chain.pc = "aborted" /\ crashes < MaxCrashes
  /\ chain' = [pc |-> "down", todo |-> {}]
  /\ crashes' = crashes + 1
  /\ UNCHANGED <<recs, gen, txns, disk, written, touched, tampers>>

(* Edited, deleted, or copied to another directory.                        *)
Tamper(f, d, c) ==
  /\ d \in 0..Len(txns) /\ disk[f][d] # c
  /\ tampers < MaxTampers /\ tampers' = tampers + 1
  /\ disk' = [disk EXCEPT ![f][d] = c]
  /\ touched' = touched \cup {f}
  /\ UNCHANGED <<recs, gen, txns, chain, written, crashes>>

-----------------------------------------------------------------------------
ChainStep ==
  \/ \E i \in Invocations : Register(i) \/ Validate(i) \/ ArchiveStopped(i)
  \/ Quarantine \/ ArchiveLoad
  \/ \E f \in Files : MoveOne(f)
  \/ Commit \/ Resume \/ Restart

Next ==
  \/ ChainStep
  \/ \E f \in Files : ProbeWrites(f)
  \/ Crash
  \/ \E f \in Files, d \in Dirs, c \in Contents \cup {Nothing} : Tamper(f, d, c)

Completion == (\E f \in Files : MoveOne(f)) \/ Commit \/ Resume

Spec == Init /\ [][Next]_vars /\ WF_vars(Completion)

-----------------------------------------------------------------------------
Transactions ==
  [kind : {"quarantine", "archive_stopped", "archive_load"},
   recs : SUBSET Invocations,
   sha : UNION {[F -> Contents] : F \in SUBSET Files},
   status : {"intent", "committed"}]

TypeOK ==
  /\ recs \in [Invocations -> [status : Statuses, dir : Dirs]]
  /\ gen \in Nat
  /\ txns \in Seq(Transactions) /\ Len(txns) <= MaxTxns
  /\ disk \in [Files -> [Dirs -> Contents \cup {Nothing}]]
  /\ chain.pc \in {"work", "move", "down", "aborted"} /\ chain.todo \subseteq Files
  /\ written \subseteq Files /\ touched \subseteq Files /\ crashes \in Nat /\ tampers \in Nat

(* F4: a file the operator left alone is in exactly one directory, as the  *)
(* probe wrote it, at every instant of every transaction and crash.        *)
NothingLost ==
  \A f \in written \ touched : \E d \in Dirs :
    /\ disk[f][d] = "original"
    /\ \A e \in Dirs \ {d} : disk[f][e] = Nothing

(* "durable BEFORE the first file moves": a file away from home is named   *)
(* by a transaction in chain.json whose directory it is in.                *)
MovedByIntent ==
  \A f \in written \ touched : \A d \in Dirs \ {Home} :
    disk[f][d] # Nothing => d \in 1..Len(txns) /\ f \in DOMAIN txns[d].sha

(* With no transaction open, the files of a record are where it says; this *)
(* is what a reader of the inventory relies on.                            *)
RecordsFindFiles ==
  Open = {} =>
    \A f \in written \ touched : disk[f][recs[f[1]].dir] = "original"

(* A chain step destroys nothing: what a file held somewhere before the    *)
(* step, it holds somewhere after it, whatever the operator did.           *)
Held(f) == {disk[f][d] : d \in Dirs} \ {Nothing}
NothingDestroyed == [][ChainStep => \A f \in Files : Held(f) \subseteq Held(f)']_vars

(* "a resume completes a transaction a crash left open": without the       *)
(* operator's hand in its files every intent is committed.                 *)
IntentsComplete == \A t \in 1..MaxTxns : IsOpen(t) ~> (~IsOpen(t) \/ touched # {})

(* The transaction takes effect at its intent: from then on every resume   *)
(* rolls it forward.                                                       *)
Place(i) ==
  IF \E t \in Open : i \in txns[t].recs THEN "out"
  ELSE CASE recs[i].status = "unregistered" -> "absent"
         [] recs[i].status = "running"      -> "running"
         [] recs[i].status = "validated"    -> "counted"
         [] OTHER                           -> "out"

Generation == IF \E t \in Open : txns[t].kind = "archive_load" THEN gen + 1 ELSE gen

AtomicMoves == INSTANCE Inventory WITH place <- [i \in Invocations |-> Place(i)], gen <- Generation

ImplementsInventory == AtomicMoves!Spec
=============================================================================
