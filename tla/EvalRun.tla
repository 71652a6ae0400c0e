-------------------------------- MODULE EvalRun --------------------------------
(***************************************************************************)
(* eval/run_interleaved.py and what compare.py accepts of its files: the   *)
(* architectures take turns on each claim, the rows so far are saved after *)
(* every claim and on an error, and the reports replace them at the end.   *)
(* The runs of one prefix overwrite each other's files, one file after the *)
(* other, and each by emptying it first (write_text), so a write that is   *)
(* cut short leaves a torn file.  A run may be killed anywhere (an         *)
(* interrupt is no Exception: nothing is saved).  Between the runs the     *)
(* operator may start run_arch1.py, run_arch2.py or run_arch3.py, which    *)
(* evaluate one architecture and write its file, over the same one, at     *)
(* their end.                                                              *)
(***************************************************************************)
EXTENDS Naturals, SequencesExt

CONSTANTS
    GoldenSize,  \* records in the golden set
    Limits,      \* values of --limit, GoldenSize for none
    MaxRuns,     \* bound: runs of the program
    NoFile       \* the result file does not exist

ASSUME EvalAssumption ==
    /\ GoldenSize \in Nat \ {0}
    /\ Limits \subseteq 1..GoldenSize
    /\ MaxRuns \in Nat

VARIABLES
    run,     \* the number of this run
    args,    \* records to go through, second pass, judge
    pc,      \* what the run does next, or how it ended
    a1, a1_run2, a2, a3,  \* state: the claims with a row, per list
    todo,    \* the files still to write, in order
    files    \* the result file of each architecture; of run 0 if one of the
             \* standalone runners wrote it

rowVars == <<a1, a1_run2, a2, a3>>

vars == <<run, args, pc, rowVars, todo, files>>

Archs == {"arch1", "arch2", "arch3"}

ArchOrder == <<"arch1", "arch2", "arch3">>

(* What is left of the order at each file.                                 *)
Todos == {ArchOrder, <<"arch2", "arch3">>, <<"arch3">>, <<>>}

Working == {"first_pass", "second_pass", "judge", "arch2", "arch3"}

Writing == {"saving", "aborting", "reporting"}

Over == {"done", "failed", "died"}

Claims == 1..GoldenSize

(* A file that is not whole is empty or ends in the middle of its text.    *)
Results ==
    [run : Nat, whole : BOOLEAN, partial : BOOLEAN, rows : Seq(Claims), again : Seq(Claims)]

ASSUME NoFileAssumption == NoFile \notin Results

TypeOK ==
    /\ run \in 0..MaxRuns
    /\ args \in [size : Limits, passes : {1, 2}, judge : BOOLEAN]
    /\ pc \in Working \cup Writing \cup Over
    /\ \A rows \in {a1, a1_run2, a2, a3} : rows \in Seq(Claims) /\ Len(rows) <= args.size
    /\ todo \in Todos
    /\ files \in [Archs -> Results \cup {NoFile}]
    /\ \A arch \in Archs : files[arch] # NoFile => Len(files[arch].rows) <= GoldenSize

Init ==
    /\ run = 0
    /\ args \in [size : Limits, passes : {1, 2}, judge : BOOLEAN]
    /\ pc = "done"
    /\ a1 = <<>> /\ a1_run2 = <<>> /\ a2 = <<>> /\ a3 = <<>>
    /\ todo = <<>>
    /\ files = [arch \in Archs |-> NoFile]

Start ==
    /\ pc \in Over
    /\ run < MaxRuns
    /\ run' = run + 1
    /\ args' \in [size : Limits, passes : {1, 2}, judge : BOOLEAN]
    /\ pc' = "first_pass"
    /\ a1' = <<>> /\ a1_run2' = <<>> /\ a2' = <<>> /\ a3' = <<>>
    /\ UNCHANGED <<todo, files>>

-----------------------------------------------------------------------------
(* One claim.  Its row of Arch 1 is kept only after the second pass and    *)
(* the judge.                                                              *)

rec == Len(a3) + 1

Go(stage) ==
    /\ pc' = stage
    /\ UNCHANGED <<run, args, todo, files>>

FirstPass ==
    /\ pc = "first_pass"
    /\ Go("second_pass")
    /\ UNCHANGED rowVars

SecondPass ==
    /\ pc = "second_pass"
    /\ a1_run2' = IF args.passes > 1 THEN Append(a1_run2, rec) ELSE a1_run2
    /\ Go("judge")
    /\ UNCHANGED <<a1, a2, a3>>

Judge ==
    /\ pc = "judge"
    /\ a1' = Append(a1, rec)
    /\ Go("arch2")
    /\ UNCHANGED <<a1_run2, a2, a3>>

Arch2 ==
    /\ pc = "arch2"
    /\ a2' = Append(a2, rec)
    /\ Go("arch3")
    /\ UNCHANGED <<a1, a1_run2, a3>>

(* Start on the three files.                                               *)
Write(stage) ==
    /\ pc' = stage
    /\ todo' = ArchOrder
    /\ UNCHANGED <<run, args, files>>

(* Mutant: rows are saved only when something goes wrong.                  *)
Arch3Unsaved ==
    /\ pc = "arch3"
    /\ a3' = Append(a3, rec)
    /\ IF rec < args.size THEN Go("first_pass") ELSE Write("reporting")
    /\ UNCHANGED <<a1, a1_run2, a2>>

Arch3 ==
    /\ pc = "arch3"
    /\ a3' = Append(a3, rec)
    /\ Write("saving")
    /\ UNCHANGED <<a1, a1_run2, a2>>

(* Mutant: the except clause prints the error and exits.                   *)
RaiseUnsaved ==
    /\ pc \in Working
    /\ pc = "second_pass" => args.passes > 1
    /\ pc = "judge" => args.judge
    /\ Go("failed")
    /\ UNCHANGED rowVars

(* A call gives up, a claim of the golden set is not in the database.      *)
Raise ==
    /\ pc \in Working
    /\ pc = "second_pass" => args.passes > 1
    /\ pc = "judge" => args.judge
    /\ Write("aborting")
    /\ UNCHANGED rowVars

-----------------------------------------------------------------------------
(* The files.                                                              *)

RowsOf(arch) == CASE arch = "arch1" -> a1 [] arch = "arch2" -> a2 [] arch = "arch3" -> a3

Content(arch) ==
    [run |-> run, whole |-> TRUE, partial |-> pc # "reporting", rows |-> RowsOf(arch),
     again |-> IF arch = "arch1" THEN a1_run2 ELSE <<>>]

(* Mutant: --limit lets one record more through.                           *)
WrittenBeyond ==
    CASE pc = "aborting" -> "failed"
      [] pc = "reporting" -> "done"
      [] pc = "saving" -> IF Len(a3) <= args.size THEN "first_pass" ELSE "reporting"

Written ==
    CASE pc = "aborting" -> "failed"
      [] pc = "reporting" -> "done"
      [] pc = "saving" -> IF Len(a3) < args.size THEN "first_pass" ELSE "reporting"

(* _save_partial and the last loop of main write one file at a time.       *)
WriteFile ==
    /\ pc \in Writing
    /\ files' = [files EXCEPT ![Head(todo)] = Content(Head(todo))]
    /\ todo' = IF Len(todo) = 1 /\ Written = "reporting" THEN ArchOrder ELSE Tail(todo)
    /\ pc' = IF Len(todo) = 1 THEN Written ELSE pc
    /\ UNCHANGED <<run, args, rowVars>>

(* What is left when the text of a file did not get to its end: nothing    *)
(* that json.loads accepts.                                                *)
Torn(writer) ==
    [run |-> writer, whole |-> FALSE, partial |-> FALSE, rows |-> <<>>, again |-> <<>>]

TornWrite == [files EXCEPT ![Head(todo)] = Torn(run)]

(* The file does not open, or the disk is full: an OSError.  Inside the    *)
(* loop the except clause saves once more, anywhere else the program dies. *)
WriteRaises ==
    /\ pc \in Writing
    /\ files' \in {files, TornWrite}
    /\ IF pc = "saving"
         THEN pc' = "aborting" /\ todo' = ArchOrder
         ELSE pc' = "died" /\ todo' = <<>>
    /\ UNCHANGED <<run, args, rowVars>>

(* Killed or interrupted, perhaps in the middle of a file.                 *)
Kill ==
    /\ pc \in Working \cup Writing
    /\ files' = files \/ (pc \in Writing /\ files' = TornWrite)
    /\ pc' = "died"
    /\ todo' = <<>>
    /\ UNCHANGED <<run, args, rowVars>>

FirstClaims(n) == [i \in 1..n |-> i]

(* One of the standalone runners, to its end; before that it writes        *)
(* nothing.  Its file has no flag, and Arch 1's may have a second pass.    *)
Standalone(arch) ==
    /\ pc \in Over
    /\ \/ files' = [files EXCEPT ![arch] = Torn(0)]
       \/ \E size \in Limits, again \in BOOLEAN :
             /\ again => arch = "arch1"
             /\ files' = [files EXCEPT ![arch] =
                   [run |-> 0, whole |-> TRUE, partial |-> FALSE, rows |-> FirstClaims(size),
                    again |-> IF again THEN FirstClaims(size) ELSE <<>>]]
    /\ UNCHANGED <<run, args, pc, rowVars, todo>>

Next ==
    \/ Start
    \/ \E arch \in Archs : Standalone(arch)
    \/ FirstPass \/ SecondPass \/ Judge \/ Arch2 \/ Arch3
    \/ Raise \/ WriteFile \/ WriteRaises \/ Kill

Spec == Init /\ [][Next]_vars

-----------------------------------------------------------------------------
(* compare.py reads three files, raises on a torn one, warns of a partial  *)
(* one and never looks whether they belong together (compare.py:133-147).  *)
(* A file it has nothing to say against covers the first claims of the     *)
(* golden set without a gap, in both passes; and two such files that       *)
(* run_interleaved.py wrote are of one run and cover the same claims,      *)
(* wherever this or a later run ended, in the middle of a file included,   *)
(* and whatever the standalone runners have replaced.                      *)
Unflagged ==
    {arch \in Archs : files[arch] # NoFile /\ files[arch].whole /\ ~files[arch].partial}

Interleaved == {arch \in Archs : files[arch] # NoFile /\ files[arch].run > 0}

UnwarnedFilesBelongTogether ==
    /\ \A arch \in Unflagged :
          /\ files[arch].rows = FirstClaims(Len(files[arch].rows))
          /\ files[arch].again \in {<<>>, files[arch].rows}
    /\ \A arch, other \in Unflagged \cap Interleaved :
          /\ files[arch].run = files[other].run
          /\ files[arch].rows = files[other].rows

(* A pass over a claim costs minutes of a rate-limited account.  A run     *)
(* that aborts has "partial rows saved" (run_interleaved.py:218), all of   *)
(* them, in three whole files, even when it was a save that failed.  One   *)
(* that dies keeps all but the rows of the last claim in every file that   *)
(* is not torn, and it tears a file only by dying while it writes: one, or *)
(* two if a save failed before, but never all three                        *)
(* (run_interleaved.py:150-159, 187-231).  A standalone runner may write   *)
(* over any of them.  The files of an aborted run are like for like up to  *)
(* the claim it stopped in: the later architecture in the order never has  *)
(* more, and no file is two claims ahead of another.                       *)
TornFiles ==
    {arch \in Archs : files[arch] # NoFile /\ files[arch].run = run /\ ~files[arch].whole}

OnDisk(arch) == IF files[arch] # NoFile /\ files[arch].run = run
                  THEN files[arch].rows ELSE <<>>

Replaced(arch) == pc \in Over /\ files[arch] # NoFile /\ files[arch].run = 0

RowsAreSaved ==
    run > 0 =>
        /\ TornFiles # {} => pc \in {"aborting", "died"}
        /\ TornFiles # Archs
        /\ \A arch \in Archs \ TornFiles :
              Replaced(arch) \/ (/\ pc = "failed" => files[arch] = Content(arch)
                                /\ IsPrefix(OnDisk(arch), RowsOf(arch))
                                /\ Len(RowsOf(arch)) <= Len(OnDisk(arch)) + 1)
        /\ pc = "failed" => /\ IsPrefix(a3, a2) /\ IsPrefix(a2, a1)
                            /\ Len(a1) <= Len(a3) + 1

=============================================================================
