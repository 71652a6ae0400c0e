---------------------------- MODULE EvaluationProofs ----------------------------
(***************************************************************************)
(* The evaluation and the model calls it is made of.                       *)
(*                                                                         *)
(* For any size of the golden set, any limits and any number of runs:      *)
(* EvalRun is typed, its files belong together when compare.py has nothing *)
(* to say against them, and a run that ends early keeps all but the last   *)
(* claim's rows in every file it has not torn, and never tears them all.   *)
(*                                                                         *)
(* For any number of clients, any backoff that three times over outlasts   *)
(* the window, and any number of attempts that leaves room for it:         *)
(* ModelClient is typed, gives up only on bad completions, and implements  *)
(* ModelCall.                                                              *)
(***************************************************************************)
EXTENDS EvalRun, ModelClient, TLAPS

(* Every list covers the first claims; how far each has come at a stage.   *)
Shape ==
    /\ a1 = FirstClaims(Len(a1)) /\ a2 = FirstClaims(Len(a2)) /\ a3 = FirstClaims(Len(a3))
    /\ Len(a3) <= Len(a2) /\ Len(a2) <= Len(a1) /\ Len(a1) <= Len(a3) + 1
    /\ pc \in {"first_pass", "second_pass", "judge", "saving", "reporting"} => Len(a1) = Len(a3)
    /\ pc = "arch2" => Len(a2) = Len(a3)
    /\ pc \in {"arch2", "arch3"} => Len(a1) = Len(a3) + 1
    /\ pc = "arch3" => Len(a2) = Len(a3) + 1
    /\ pc \in Working => Len(a3) < args.size
    /\ pc = "reporting" => Len(a3) = args.size

(* The second pass keeps step, or there is none.                           *)
AgainShape ==
    \/ args.passes = 1 /\ a1_run2 = <<>>
    \/ /\ args.passes = 2
       /\ a1_run2 = FirstClaims(Len(a1_run2))
       /\ pc \in {"first_pass", "second_pass", "saving", "reporting"} => Len(a1_run2) = Len(a3)
       /\ pc \in {"judge", "arch2", "arch3"} => Len(a1_run2) = Len(a3) + 1

(* The files still to write.                                               *)
Among(order) == {arch \in Archs : \E i \in 1..Len(order) : order[i] = arch}

TodoShape == pc \in Writing <=> todo # <<>>

(* How far behind its list a file may be.                                  *)
Bounded(arch) ==
    \E m \in Nat : /\ OnDisk(arch) = FirstClaims(m)
                   /\ m <= Len(RowsOf(arch)) /\ Len(RowsOf(arch)) <= m + 1

(* A save leaves one torn file at most, and the except clause another.     *)
TornShape ==
    run > 0 => /\ TornFiles # {} => pc \in {"aborting", "died"}
               /\ pc = "aborting" => \E one \in Archs : TornFiles \subseteq {one}
               /\ TornFiles # Archs

(* What each file of this run holds, before and after it is written.       *)
DiskShape ==
    /\ \A arch \in Archs : files[arch] # NoFile => files[arch].run <= run
    /\ pc \notin Over => run > 0
    /\ pc \in Working => \A arch \in Archs : OnDisk(arch) = a3
    /\ pc = "saving" => Len(a3) > 0
    /\ pc = "saving" => \A arch \in Among(todo) : OnDisk(arch) = FirstClaims(Len(a3) - 1)
    /\ pc = "aborting" => \A arch \in Among(todo) : arch \in TornFiles \/ Bounded(arch)
    /\ pc = "reporting" => \A arch \in Among(todo) : OnDisk(arch) = a3
    /\ pc = "reporting" => \A arch \in Among(todo) : arch \notin Unflagged
    /\ pc \in Writing => \A arch \in Archs \ Among(todo) : files[arch] = Content(arch)

(* After a run.                                                            *)
OverShape ==
    (run > 0 /\ pc \in Over) =>
        \A arch \in Archs \ TornFiles :
            Replaced(arch) \/ ((pc = "failed" => files[arch] = Content(arch)) /\ Bounded(arch))

IInv ==
    /\ TypeOK /\ Shape /\ AgainShape /\ TodoShape /\ TornShape /\ DiskShape /\ OverShape
    /\ UnwarnedFilesBelongTogether

-----------------------------------------------------------------------------
(* The first claims, as a sequence.                                        *)
LEMMA FirstFacts ==
  ASSUME NEW n \in Nat
  PROVE  /\ Len(FirstClaims(n)) = n
         /\ FirstClaims(n) \in Seq(Nat)
         /\ Append(FirstClaims(n), n + 1) = FirstClaims(n + 1)
         /\ n <= GoldenSize => FirstClaims(n) \in Seq(Claims)
  <1>1. FirstClaims(n) \in Seq(Nat) /\ Len(FirstClaims(n)) = n
    BY DEF FirstClaims
  <1>2. Append(FirstClaims(n), n + 1) = FirstClaims(n + 1)
    BY DEF FirstClaims
  <1>3. n <= GoldenSize => FirstClaims(n) \in Seq(Claims)
    BY EvalAssumption DEF FirstClaims, Claims
  <1> QED BY <1>1, <1>2, <1>3

LEMMA FirstNone == FirstClaims(0) = <<>>
  BY DEF FirstClaims

LEMMA FirstPrefix ==
  ASSUME NEW m \in Nat, NEW n \in Nat, m <= n
  PROVE  IsPrefix(FirstClaims(m), FirstClaims(n))
  <1>1. Len(FirstClaims(m)) = m /\ Len(FirstClaims(n)) = n
    BY FirstFacts
  <1>2. SubSeq(FirstClaims(m), 1, m) = SubSeq(FirstClaims(n), 1, m)
    BY DEF FirstClaims
  <1> QED BY <1>1, <1>2 DEF IsPrefix

(* The head of what is to be written, and the rest.                        *)
LEMMA TodoFacts ==
  ASSUME NEW order \in Todos, order # <<>>
  PROVE  /\ Head(order) \in Archs
         /\ Tail(order) \in Todos
         /\ Head(order) \in Among(order)
         /\ Among(Tail(order)) = Among(order) \ {Head(order)}
         /\ Len(order) = 1 <=> Tail(order) = <<>>
  <1>1. CASE order = <<"arch1", "arch2", "arch3">>
    BY <1>1 DEF Todos, ArchOrder, Archs, Among
  <1>2. CASE order = <<"arch2", "arch3">>
    BY <1>2 DEF Todos, ArchOrder, Archs, Among
  <1>3. CASE order = <<"arch3">>
    BY <1>3 DEF Todos, ArchOrder, Archs, Among
  <1> QED BY <1>1, <1>2, <1>3 DEF Todos, ArchOrder

LEMMA AmongAll == Among(ArchOrder) = Archs /\ Among(<<>>) = {}
                  /\ ArchOrder \in Todos /\ <<>> \in Todos /\ ArchOrder # <<>>
  BY DEF Among, ArchOrder, Archs, Todos

(* How far a run may go, and that it begins with nothing.                  *)
LEMMA LimitFacts ==
  /\ GoldenSize \in Nat /\ MaxRuns \in Nat /\ 0 \in 0..MaxRuns
  /\ \A n \in Limits : n \in Nat /\ n > 0 /\ n <= GoldenSize
  /\ <<>> \in Seq(Claims) /\ Len(<<>>) = 0
  BY EvalAssumption

(* Lengths are numbers.                                                    *)
LEMMA Lengths ==
  ASSUME TypeOK
  PROVE  /\ Len(a1) \in Nat /\ Len(a2) \in Nat /\ Len(a3) \in Nat /\ Len(a1_run2) \in Nat
         /\ args.size \in Nat /\ args.size > 0 /\ args.size <= GoldenSize /\ GoldenSize \in Nat
         /\ run \in Nat /\ args \in [size : Limits, passes : {1, 2}, judge : BOOLEAN]
  <1>1. args \in [size : Limits, passes : {1, 2}, judge : BOOLEAN] /\ run \in 0..MaxRuns
    BY DEF TypeOK
  <1>2. args.size \in Limits
    BY <1>1
  <1>3. /\ Len(a1) \in Nat /\ Len(a2) \in Nat /\ Len(a3) \in Nat /\ Len(a1_run2) \in Nat
    BY DEF TypeOK
  <1> QED BY <1>1, <1>2, <1>3, LimitFacts

(* The rows of each architecture.                                          *)
LEMMA RowsFacts ==
  /\ RowsOf("arch1") = a1 /\ RowsOf("arch2") = a2 /\ RowsOf("arch3") = a3
  /\ \A arch \in Archs : arch = "arch1" \/ arch = "arch2" \/ arch = "arch3"
  BY DEF RowsOf, Archs

(* A file that is written now has the type of one.                         *)
LEMMA ContentTyped ==
  ASSUME TypeOK, NEW arch \in Archs
  PROVE  /\ Content(arch) \in Results
         /\ Len(Content(arch).rows) <= GoldenSize
         /\ Content(arch) # NoFile
         /\ Content(arch).run = run
         /\ Content(arch).rows = RowsOf(arch)
         /\ Content(arch).partial = (pc # "reporting")
         /\ Content(arch).whole
  <1>1. RowsOf(arch) \in Seq(Claims) /\ Len(RowsOf(arch)) <= args.size
    BY RowsFacts DEF TypeOK
  <1>2. (IF arch = "arch1" THEN a1_run2 ELSE <<>>) \in Seq(Claims)
    BY DEF TypeOK
  <1>3. Content(arch) \in Results
    BY <1>1, <1>2, Lengths DEF Content, Results
  <1>4. Content(arch) # NoFile
    BY <1>3, NoFileAssumption
  <1>5. /\ Content(arch).run = run
        /\ Content(arch).rows = RowsOf(arch)
        /\ Content(arch).partial = (pc # "reporting")
        /\ Content(arch).whole
    BY DEF Content
  <1>6. Len(RowsOf(arch)) <= GoldenSize
    BY <1>1, Lengths
  <1> QED BY <1>3, <1>4, <1>5, <1>6

-----------------------------------------------------------------------------
LEMMA InitInv == Init => IInv
  <1> SUFFICES ASSUME Init PROVE IInv
    OBVIOUS
  <1>1. TypeOK
    <2>1. args \in [size : Limits, passes : {1, 2}, judge : BOOLEAN]
      BY DEF Init
    <2>2. args.size \in Limits
      BY <2>1
    <2>3. \A rows \in {a1, a1_run2, a2, a3} : rows = <<>>
      BY DEF Init
    <2>4. ASSUME NEW rows \in {a1, a1_run2, a2, a3}
          PROVE  rows \in Seq(Claims) /\ Len(rows) <= args.size
      <3>1. args.size \in Nat /\ 0 <= args.size
        BY <2>2, LimitFacts
      <3>2. rows = <<>>
        BY <2>3
      <3> QED BY <3>1, <3>2, LimitFacts
    <2> QED BY <2>1, <2>4, AmongAll, LimitFacts DEF Init, TypeOK, Over
  <1>2. Shape /\ AgainShape
    BY FirstNone DEF Init, Shape, AgainShape, Working
  <1>3. TodoShape /\ TornShape /\ DiskShape /\ OverShape
    BY DEF Init, TodoShape, TornShape, DiskShape, OverShape, Over, Working, Writing
  <1>4. UnwarnedFilesBelongTogether
    BY DEF Init, UnwarnedFilesBelongTogether, Unflagged, Interleaved
  <1> QED BY <1>1, <1>2, <1>3, <1>4 DEF IInv

(* What depends on the files and the number of the run alone.              *)
LEMMA FilesKept ==
  ASSUME UNCHANGED files
  PROVE  /\ UnwarnedFilesBelongTogether => UnwarnedFilesBelongTogether'
         /\ Unflagged' = Unflagged
         /\ run' = run => /\ \A arch \in Archs : OnDisk(arch)' = OnDisk(arch)
                          /\ TornFiles' = TornFiles
  BY DEF UnwarnedFilesBelongTogether, Unflagged, Interleaved, OnDisk, TornFiles

(* A new run: no file on disk is of it.                                    *)
LEMMA StartInv == ASSUME IInv, Start PROVE IInv'
  <1>1. TypeOK'
    <2>1. args' \in [size : Limits, passes : {1, 2}, judge : BOOLEAN]
      BY DEF Start
    <2>2. args'.size \in Limits
      BY <2>1
    <2>3. \A rows \in {a1', a1_run2', a2', a3'} : rows = <<>>
      BY DEF Start
    <2>4. ASSUME NEW rows \in {a1', a1_run2', a2', a3'}
          PROVE  rows \in Seq(Claims) /\ Len(rows) <= args'.size
      <3>1. args'.size \in Nat /\ 0 <= args'.size
        BY <2>2, LimitFacts
      <3>2. rows = <<>>
        BY <2>3
      <3> QED BY <3>1, <3>2, LimitFacts
    <2>5. run' \in 0..MaxRuns
      BY Lengths, EvalAssumption DEF IInv, Start
    <2> QED BY <2>1, <2>4, <2>5 DEF IInv, TypeOK, Start, Working
  <1>2. Shape' /\ AgainShape'
    <2>1. a1' = <<>> /\ a2' = <<>> /\ a3' = <<>> /\ a1_run2' = <<>> /\ pc' = "first_pass"
      BY DEF Start
    <2>2. args'.passes \in {1, 2} /\ args'.size \in Limits
      BY DEF Start
    <2>3. args'.size > 0
      BY <2>2, LimitFacts
    <2> QED BY <2>1, <2>2, <2>3, FirstNone DEF Shape, AgainShape, Working
  <1>3. TodoShape'
    BY DEF IInv, TodoShape, Start, Over, Writing
  <1>4. DiskShape'
    <2>1. \A arch \in Archs : files[arch] # NoFile => files[arch].run <= run /\ files[arch].run \in Nat
      BY DEF IInv, DiskShape, TypeOK, Results
    <2>2. \A arch \in Archs : OnDisk(arch)' = <<>>
      BY <2>1, Lengths DEF OnDisk, Start, IInv
    <2> QED BY <2>1, <2>2, Lengths DEF DiskShape, Start, Working, Writing, Over, IInv
  <1>5. OverShape'
    BY DEF OverShape, Start, Over
  <1>6. TornShape'
    <2>1. \A arch \in Archs : files[arch] # NoFile => files[arch].run <= run /\ files[arch].run \in Nat
      BY DEF IInv, DiskShape, TypeOK, Results
    <2>2. TornFiles' = {}
      BY <2>1, Lengths DEF TornFiles, Start, IInv
    <2> QED BY <2>2 DEF TornShape, Archs
  <1> QED BY <1>1, <1>2, <1>3, <1>4, <1>5, <1>6, FilesKept DEF IInv, Start

-----------------------------------------------------------------------------
(* One claim, on to the next stage.                                        *)
LEMMA WorkInv ==
  ASSUME IInv, pc \in Working, pc' \in Working, UNCHANGED <<run, args, todo, files, a3>>,
         TypeOK', Shape', AgainShape'
  PROVE  IInv'
  <1>1. TodoShape'
    BY DEF IInv, TodoShape, Working, Writing
  <1>2. DiskShape'
    <2>1. \A arch \in Archs : OnDisk(arch)' = a3'
      BY FilesKept DEF IInv, DiskShape
    <2>2. pc' \notin Writing /\ pc' \notin Over /\ run' > 0
      BY DEF IInv, DiskShape, Working, Writing, Over
    <2>3. \A arch \in Archs : files'[arch] # NoFile => files'[arch].run <= run'
      BY DEF IInv, DiskShape
    <2> QED BY <2>1, <2>2, <2>3 DEF DiskShape, Writing
  <1>3. OverShape'
    BY DEF OverShape, Working, Over
  <1>4. TornShape'
    BY FilesKept DEF IInv, TornShape, DiskShape, Working, Over
  <1> QED BY <1>1, <1>2, <1>3, <1>4, FilesKept DEF IInv

(* One row more: the claim is the next of the golden set.                  *)
LEMMA RowAdded ==
  ASSUME IInv, pc \in Working, NEW rows \in Seq(Claims), rows = FirstClaims(Len(a3))
  PROVE  /\ Append(rows, rec) = FirstClaims(Len(a3) + 1)
         /\ Len(Append(rows, rec)) = Len(a3) + 1
         /\ Append(rows, rec) \in Seq(Claims)
         /\ Len(Append(rows, rec)) <= args.size
  <1>1. Len(a3) \in Nat /\ Len(a3) + 1 <= args.size /\ args.size <= GoldenSize
    BY Lengths DEF IInv, Shape
  <1>2. Append(rows, rec) = FirstClaims(Len(a3) + 1)
    BY <1>1, FirstFacts DEF rec
  <1>3. Len(a3) + 1 \in Nat /\ Len(a3) + 1 <= GoldenSize
    BY <1>1, LimitFacts, Lengths DEF IInv
  <1>4. /\ FirstClaims(Len(a3) + 1) \in Seq(Claims)
        /\ Len(FirstClaims(Len(a3) + 1)) = Len(a3) + 1
    BY <1>3, FirstFacts
  <1> QED BY <1>1, <1>2, <1>4

LEMMA FirstPassInv == ASSUME IInv, FirstPass PROVE IInv'
  <1>1. TypeOK'
    BY DEF IInv, TypeOK, FirstPass, Go, rowVars, Working
  <1>2. Shape' /\ AgainShape'
    BY DEF IInv, Shape, AgainShape, FirstPass, Go, rowVars, Working
  <1> QED BY <1>1, <1>2, WorkInv DEF FirstPass, Go, rowVars, Working

LEMMA SecondPassInv == ASSUME IInv, SecondPass PROVE IInv'
  <1>1. pc \in Working /\ Len(a3) \in Nat
    BY Lengths DEF SecondPass, Working, IInv
  <1>2. CASE args.passes = 2
    <2>1. a1_run2 = FirstClaims(Len(a3)) /\ a1_run2 \in Seq(Claims)
      BY <1>2 DEF IInv, AgainShape, SecondPass, TypeOK
    <2>2. a1_run2' = FirstClaims(Len(a3) + 1) /\ Len(a1_run2') = Len(a3) + 1
          /\ a1_run2' \in Seq(Claims) /\ Len(a1_run2') <= args.size
      BY <1>1, <1>2, <2>1, RowAdded DEF SecondPass
    <2>3. TypeOK'
      BY <2>2 DEF IInv, TypeOK, SecondPass, Go, Working
    <2>4. Shape' /\ AgainShape'
      BY <1>2, <2>2 DEF IInv, Shape, AgainShape, SecondPass, Go, Working
    <2> QED BY <2>3, <2>4, WorkInv DEF SecondPass, Go, Working
  <1>3. CASE args.passes = 1
    <2>1. a1_run2' = a1_run2
      BY <1>3 DEF SecondPass
    <2>2. TypeOK'
      BY <2>1 DEF IInv, TypeOK, SecondPass, Go, Working
    <2>3. Shape' /\ AgainShape'
      BY <1>3, <2>1 DEF IInv, Shape, AgainShape, SecondPass, Go, Working
    <2> QED BY <2>2, <2>3, WorkInv DEF SecondPass, Go, Working
  <1> QED BY <1>2, <1>3 DEF IInv, AgainShape

LEMMA JudgeInv == ASSUME IInv, Judge PROVE IInv'
  <1>1. pc \in Working /\ Len(a3) \in Nat /\ a1 = FirstClaims(Len(a3)) /\ a1 \in Seq(Claims)
    BY Lengths DEF Judge, Working, IInv, Shape, TypeOK
  <1>2. a1' = FirstClaims(Len(a3) + 1) /\ Len(a1') = Len(a3) + 1
        /\ a1' \in Seq(Claims) /\ Len(a1') <= args.size
    BY <1>1, RowAdded DEF Judge
  <1>3. TypeOK'
    BY <1>2 DEF IInv, TypeOK, Judge, Go, Working
  <1>4. Len(a2) = Len(a3)
    BY Lengths DEF IInv, Shape, Judge
  <1>5. Shape' /\ AgainShape'
    BY <1>1, <1>2, <1>4 DEF IInv, Shape, AgainShape, Judge, Go, Working
  <1> QED BY <1>3, <1>5, WorkInv DEF Judge, Go, Working

LEMMA Arch2Inv == ASSUME IInv, Arch2 PROVE IInv'
  <1>1. pc \in Working /\ Len(a3) \in Nat /\ a2 = FirstClaims(Len(a3)) /\ a2 \in Seq(Claims)
    BY Lengths DEF Arch2, Working, IInv, Shape, TypeOK
  <1>2. a2' = FirstClaims(Len(a3) + 1) /\ Len(a2') = Len(a3) + 1
        /\ a2' \in Seq(Claims) /\ Len(a2') <= args.size
    BY <1>1, RowAdded DEF Arch2
  <1>3. TypeOK'
    BY <1>2 DEF IInv, TypeOK, Arch2, Go, Working
  <1>4. Shape' /\ AgainShape'
    BY <1>1, <1>2 DEF IInv, Shape, AgainShape, Arch2, Go, Working
  <1> QED BY <1>3, <1>4, WorkInv DEF Arch2, Go, Working

(* The claim is through; its files are saved next.                         *)
LEMMA Arch3Inv == ASSUME IInv, Arch3 PROVE IInv'
  <1>1. pc \in Working /\ Len(a3) \in Nat /\ a3 = FirstClaims(Len(a3)) /\ a3 \in Seq(Claims)
    BY Lengths DEF Arch3, Working, IInv, Shape, TypeOK
  <1>2. a3' = FirstClaims(Len(a3) + 1) /\ Len(a3') = Len(a3) + 1
        /\ a3' \in Seq(Claims) /\ Len(a3') <= args.size
    BY <1>1, RowAdded DEF Arch3
  <1>3. pc' = "saving" /\ todo' = ArchOrder /\ UNCHANGED <<run, args, files, a1, a1_run2, a2>>
    BY DEF Arch3, Write
  <1>4. TypeOK'
    BY <1>2, <1>3, AmongAll DEF IInv, TypeOK, Writing
  <1>5. Shape' /\ AgainShape'
    BY <1>1, <1>2, <1>3 DEF IInv, Shape, AgainShape, Arch3, Working
  <1>6. TodoShape'
    BY <1>3, AmongAll DEF TodoShape, Writing
  <1>7. DiskShape'
    <2>1. \A arch \in Archs : OnDisk(arch)' = FirstClaims(Len(a3') - 1)
      BY <1>1, <1>2, <1>3, FilesKept DEF IInv, DiskShape
    <2>2. run > 0 /\ Len(a3') > 0
      BY <1>1, <1>2 DEF IInv, DiskShape, Working, Over
    <2> QED BY <1>3, <2>1, <2>2, AmongAll DEF IInv, DiskShape, Working, Over
  <1>8. OverShape'
    BY <1>3 DEF OverShape, Over
  <1>9. TornShape'
    BY <1>1, <1>3, FilesKept DEF IInv, TornShape, DiskShape, Working, Over
  <1> QED BY <1>3, <1>4, <1>5, <1>6, <1>7, <1>8, <1>9, FilesKept DEF IInv

(* Until it is over, a run has at most one row in memory that is not on    *)
(* disk, in a file that is not torn.                                       *)
LEMMA UnderwayBounded ==
  ASSUME IInv, pc \in Working \cup Writing, NEW arch \in Archs, arch \notin TornFiles
  PROVE  Bounded(arch)
  <1>1. /\ Len(a1) \in Nat /\ Len(a2) \in Nat /\ Len(a3) \in Nat
        /\ a1 = FirstClaims(Len(a1)) /\ a2 = FirstClaims(Len(a2)) /\ a3 = FirstClaims(Len(a3))
        /\ Len(a3) <= Len(a2) /\ Len(a2) <= Len(a1) /\ Len(a1) <= Len(a3) + 1
    BY Lengths DEF IInv, Shape
  <1>2. /\ RowsOf(arch) = FirstClaims(Len(RowsOf(arch))) /\ Len(RowsOf(arch)) \in Nat
        /\ Len(a3) <= Len(RowsOf(arch)) /\ Len(RowsOf(arch)) <= Len(a3) + 1
    BY <1>1, RowsFacts
  <1>3. CASE OnDisk(arch) = a3
    BY <1>1, <1>2, <1>3 DEF Bounded
  <1>4. CASE files[arch] = Content(arch)
    <2>1. OnDisk(arch) = RowsOf(arch)
      BY <1>4, ContentTyped DEF OnDisk, IInv
    <2> QED BY <1>2, <2>1 DEF Bounded
  <1>5. CASE pc = "saving" /\ arch \in Among(todo)
    <2>1. OnDisk(arch) = FirstClaims(Len(a3) - 1) /\ Len(a3) > 0
      BY <1>5 DEF IInv, DiskShape
    <2>2. Len(RowsOf(arch)) = Len(a3)
      BY <1>5, RowsFacts, Lengths DEF IInv, Shape
    <2> QED BY <1>1, <2>1, <2>2 DEF Bounded
  <1>6. CASE pc = "aborting" /\ arch \in Among(todo)
    BY <1>6 DEF IInv, DiskShape
  <1> QED BY <1>3, <1>4, <1>5, <1>6 DEF IInv, DiskShape, Working, Writing

(* Nothing on disk has changed, nor in memory.                             *)
LEMMA BoundedKept ==
  ASSUME NEW arch \in Archs, Bounded(arch), files'[arch] = files[arch],
         UNCHANGED <<run, a1, a2, a3>>
  PROVE  Bounded(arch)'
  <1>1. RowsOf(arch)' = RowsOf(arch) /\ OnDisk(arch)' = OnDisk(arch)
    BY DEF RowsOf, OnDisk
  <1> QED BY <1>1 DEF Bounded

(* A call raises, and what there is is saved once more.                    *)
LEMMA RaiseInv == ASSUME IInv, Raise PROVE IInv'
  <1>1. /\ pc \in Working /\ pc' = "aborting" /\ todo' = ArchOrder
        /\ UNCHANGED <<run, args, files, a1, a1_run2, a2, a3>>
    BY DEF Raise, Write, rowVars
  <1>2. TypeOK'
    BY <1>1, AmongAll DEF IInv, TypeOK, Writing
  <1>3. Shape' /\ AgainShape'
    BY <1>1 DEF IInv, Shape, AgainShape, Working
  <1>4. TodoShape'
    BY <1>1, AmongAll DEF TodoShape, Writing
  <1>5. TornFiles = {} /\ TornFiles' = {} /\ run > 0
    BY <1>1, FilesKept DEF IInv, TornShape, DiskShape, Working, Over
  <1>6. DiskShape'
    <2>1. \A arch \in Archs : Bounded(arch)'
      BY <1>1, <1>5, UnderwayBounded, BoundedKept
    <2>2. /\ \A arch \in Archs : files'[arch] # NoFile => files'[arch].run <= run'
          /\ run' > 0
      BY <1>1, <1>5 DEF IInv, DiskShape
    <2> QED BY <1>1, <2>1, <2>2, AmongAll DEF DiskShape, Working
  <1>7. OverShape'
    BY <1>1 DEF OverShape, Over
  <1>8. TornShape'
    BY <1>1, <1>5 DEF TornShape, Archs
  <1> QED BY <1>1, <1>2, <1>3, <1>4, <1>6, <1>7, <1>8, FilesKept DEF IInv

(* A write that is cut short: at most one file more is torn, and the       *)
(* others are as they were.                                                *)
LEMMA TearFacts ==
  ASSUME IInv, pc \in Writing, run' = run, files' \in {files, TornWrite}
  PROVE  /\ Head(todo) \in Archs
         /\ files' \in [Archs -> Results \cup {NoFile}]
         /\ \A arch \in Archs : files'[arch] # NoFile =>
               Len(files'[arch].rows) <= GoldenSize /\ files'[arch].run <= run
         /\ TornFiles' \subseteq TornFiles \cup {Head(todo)}
         /\ \A arch \in Archs \ TornFiles' : files'[arch] = files[arch] /\ arch \notin TornFiles
         /\ UnwarnedFilesBelongTogether'
  <1> DEFINE new == Head(todo)
  <1>1. new \in Archs
    BY TodoFacts DEF IInv, TypeOK, TodoShape
  <1>2. files \in [Archs -> Results \cup {NoFile}] /\ run \in Nat
    BY Lengths DEF IInv, TypeOK
  <1>3. /\ Torn(run) \in Results /\ Torn(run) # NoFile /\ ~Torn(run).whole
        /\ Torn(run).run = run /\ Len(Torn(run).rows) <= GoldenSize
    <2>1. Torn(run) \in Results
      BY <1>2, LimitFacts DEF Torn, Results
    <2>2. ~Torn(run).whole /\ Torn(run).run = run /\ Torn(run).rows = <<>>
      BY DEF Torn
    <2> QED BY <2>1, <2>2, NoFileAssumption, LimitFacts
  <1>4. \A arch \in Archs : arch # new => files'[arch] = files[arch]
    BY <1>2 DEF TornWrite
  <1>5. files'[new] = files[new] \/ files'[new] = Torn(run)
    BY <1>1, <1>2 DEF TornWrite
  <1>6. files' \in [Archs -> Results \cup {NoFile}]
    BY <1>1, <1>2, <1>3 DEF TornWrite
  <1>7. \A arch \in Archs : files'[arch] # NoFile =>
            Len(files'[arch].rows) <= GoldenSize /\ files'[arch].run <= run
    BY <1>1, <1>2, <1>3, <1>4, <1>5 DEF IInv, TypeOK, DiskShape
  <1>8. TornFiles' \subseteq TornFiles \cup {new}
    BY <1>4 DEF TornFiles
  <1>9. \A arch \in Archs \ TornFiles' : files'[arch] = files[arch] /\ arch \notin TornFiles
    BY <1>1, <1>3, <1>4, <1>5 DEF TornFiles
  <1>10. UnwarnedFilesBelongTogether'
    <2>1. \A arch \in Unflagged' : files'[arch] = files[arch] /\ arch \in Unflagged
      BY <1>1, <1>3, <1>4, <1>5 DEF Unflagged
    <2>2. \A arch \in Unflagged' \cap Interleaved' : arch \in Interleaved
      BY <2>1 DEF Interleaved, Unflagged
    <2> QED BY <2>1, <2>2 DEF IInv, UnwarnedFilesBelongTogether
  <1> QED BY <1>1, <1>6, <1>7, <1>8, <1>9, <1>10

(* One file more leaves one of the three whole.                            *)
LEMMA NotAllTorn ==
  ASSUME NEW some, NEW new \in Archs, NEW one \in Archs,
         some \subseteq {one, new}
  PROVE  some # Archs
  BY DEF Archs

(* The run dies: what it had saved in the files it has not torn stays.     *)
LEMMA DieInv ==
  ASSUME IInv, pc \in Working \cup Writing, pc' = "died", todo' = <<>>,
         UNCHANGED <<run, args, a1, a1_run2, a2, a3>>,
         files' = files \/ (pc \in Writing /\ files' = TornWrite)
  PROVE  IInv'
  <1>1. run > 0
    BY DEF IInv, DiskShape, Working, Writing, Over
  <1>2. Shape' /\ AgainShape'
    BY DEF IInv, Shape, AgainShape, Working
  <1>3. TodoShape'
    BY DEF TodoShape, Writing
  <1>4. ASSUME files' \in [Archs -> Results \cup {NoFile}],
               \A arch \in Archs : files'[arch] # NoFile =>
                   Len(files'[arch].rows) <= GoldenSize /\ files'[arch].run <= run,
               \A arch \in Archs \ TornFiles' :
                   files'[arch] = files[arch] /\ arch \notin TornFiles,
               TornFiles' # Archs
        PROVE  TypeOK' /\ TornShape' /\ DiskShape' /\ OverShape'
    <2>1. TypeOK'
      BY <1>4, AmongAll DEF IInv, TypeOK, Over
    <2>2. TornShape'
      BY <1>4 DEF TornShape
    <2>3. DiskShape'
      BY <1>4 DEF DiskShape, Working, Writing, Over
    <2>4. OverShape'
      <3> SUFFICES ASSUME NEW arch \in Archs \ TornFiles' PROVE Bounded(arch)'
        BY DEF OverShape
      <3> QED BY <1>4, UnderwayBounded, BoundedKept
    <2> QED BY <2>1, <2>2, <2>3, <2>4
  <1>5. CASE files' = files
    <2>1. TornFiles' = TornFiles
      BY <1>5, FilesKept
    <2>2. TornFiles # Archs
      BY <1>1 DEF IInv, TornShape
    <2> QED BY <1>2, <1>3, <1>4, <1>5, <2>1, <2>2, FilesKept DEF IInv, TypeOK, DiskShape
  <1>6. CASE pc \in Writing /\ files' = TornWrite
    <2>1. PICK one \in Archs : TornFiles \subseteq {one}
      BY <1>1, <1>6 DEF IInv, TornShape, Writing, Archs
    <2>2. TornFiles' \subseteq {one, Head(todo)} /\ Head(todo) \in Archs
      BY <1>6, <2>1, TearFacts
    <2>3. TornFiles' # Archs
      BY <2>2, NotAllTorn
    <2> QED BY <1>2, <1>3, <1>4, <1>6, <2>3, TearFacts DEF IInv
  <1> QED BY <1>5, <1>6

LEMMA KillInv == ASSUME IInv, Kill PROVE IInv'
  BY DieInv DEF Kill, rowVars

(* A write fails: in a save, what there is is saved once more.             *)
LEMMA WriteRaisesInv == ASSUME IInv, WriteRaises PROVE IInv'
  <1>1. /\ pc \in Writing /\ files' \in {files, TornWrite}
        /\ UNCHANGED <<run, args, a1, a1_run2, a2, a3>>
    BY DEF WriteRaises, rowVars
  <1>2. CASE pc # "saving"
    BY <1>1, <1>2, DieInv DEF WriteRaises
  <1>3. CASE pc = "saving"
    <2>1. pc' = "aborting" /\ todo' = ArchOrder
      BY <1>3 DEF WriteRaises
    <2>2. run > 0 /\ TornFiles = {}
      BY <1>3 DEF IInv, DiskShape, TornShape, Over
    <2>3. /\ Head(todo) \in Archs /\ TornFiles' \subseteq {Head(todo)}
          /\ UnwarnedFilesBelongTogether'
      BY <1>1, <2>2, TearFacts
    <2>4. TypeOK'
      BY <1>1, <2>1, TearFacts, AmongAll DEF IInv, TypeOK, Writing
    <2>5. Shape' /\ AgainShape'
      BY <1>1, <1>3, <2>1 DEF IInv, Shape, AgainShape, Working
    <2>6. TodoShape'
      BY <2>1, AmongAll DEF TodoShape, Writing
    <2>7. TornShape'
      BY <2>1, <2>3, NotAllTorn DEF TornShape
    <2>8. DiskShape'
      <3>1. \A arch \in Archs : arch \in TornFiles' \/ Bounded(arch)'
        BY <1>1, TearFacts, UnderwayBounded, BoundedKept
      <3>2. \A arch \in Archs : files'[arch] # NoFile => files'[arch].run <= run'
        BY <1>1, TearFacts
      <3> QED BY <1>1, <2>1, <2>2, <3>1, <3>2, AmongAll DEF DiskShape, Working
    <2>9. OverShape'
      BY <2>1 DEF OverShape, Over
    <2> QED BY <2>3, <2>4, <2>5, <2>6, <2>7, <2>8, <2>9 DEF IInv
  <1> QED BY <1>2, <1>3

-----------------------------------------------------------------------------
(* A file is replaced by what the run has now.                             *)
LEMMA WriteFacts ==
  ASSUME IInv, WriteFile
  PROVE  /\ todo # <<>> /\ Head(todo) \in Among(todo)
         /\ files' = [files EXCEPT ![Head(todo)] = Content(Head(todo))]
         /\ Head(todo) \in Archs /\ Tail(todo) \in Todos
         /\ Among(Tail(todo)) = Among(todo) \ {Head(todo)}
         /\ Len(todo) = 1 <=> Tail(todo) = <<>>
         /\ Among(Tail(todo)) \subseteq Archs
  BY TodoFacts DEF IInv, TypeOK, TodoShape, WriteFile, Among

(* The files that belong together still do.                                *)
LEMMA WriteTogether == ASSUME IInv, WriteFile PROVE UnwarnedFilesBelongTogether'
  <1> DEFINE new == Head(todo)
  <1>1. new \in Archs /\ new \in Among(todo)
        /\ files' = [files EXCEPT ![new] = Content(new)]
    BY WriteFacts
  <1>2. files \in [Archs -> Results \cup {NoFile}]
    BY DEF IInv, TypeOK
  <1>3. \A arch \in Archs : arch # new => files'[arch] = files[arch]
    BY <1>1, <1>2
  <1>4. files'[new] = Content(new)
    BY <1>1, <1>2
  <1>5. Unflagged' \subseteq Unflagged \cup {new} /\ Interleaved' \subseteq Interleaved \cup {new}
    BY <1>3 DEF Unflagged, Interleaved
  <1>6. CASE pc # "reporting"
    <2>1. new \notin Unflagged'
      BY <1>1, <1>4, <1>6, ContentTyped DEF Unflagged, IInv
    <2> QED BY <1>3, <1>5, <2>1
            DEF IInv, UnwarnedFilesBelongTogether, Unflagged, Interleaved
  <1>7. CASE pc = "reporting"
    <2>1. a1 = a3 /\ a2 = a3 /\ a3 = FirstClaims(Len(a3))
      BY <1>7, Lengths DEF IInv, Shape
    <2>2. \A arch \in Archs : RowsOf(arch) = a3
      BY <2>1, RowsFacts
    <2>3. a1_run2 \in {<<>>, a3}
      BY <1>7, <2>1 DEF IInv, AgainShape
    <2>4. \A arch \in Archs : Content(arch).rows = a3 /\ Content(arch).run = run
                              /\ Content(arch).again \in {<<>>, a3}
      BY <2>2, <2>3 DEF Content
    <2>5. \A arch \in Unflagged : arch = new \/ files[arch] = Content(arch)
      BY <1>7 DEF IInv, DiskShape, Writing, Unflagged
    <2>6. \A arch \in Unflagged' : files'[arch] = Content(arch)
      BY <1>3, <1>4, <1>7, <2>5, <1>5 DEF IInv, DiskShape, Writing, Unflagged
    <2>7. \A arch \in Unflagged' : arch \in Archs
      BY DEF Unflagged
    <2> QED BY <2>1, <2>4, <2>6, <2>7 DEF UnwarnedFilesBelongTogether
  <1> QED BY <1>6, <1>7

(* After the write, what is still to write and what is written.            *)
LEMMA WriteDisk ==
  ASSUME IInv, WriteFile
  PROVE  /\ \A arch \in Archs : files'[arch] # NoFile => files'[arch].run <= run
         /\ \A arch \in Among(Tail(todo)) :
               /\ files'[arch] = files[arch]
               /\ OnDisk(arch)' = OnDisk(arch)
         /\ \A arch \in Archs \ Among(Tail(todo)) : files'[arch] = Content(arch)
         /\ TornFiles' = TornFiles \ {Head(todo)}
  <1>1. files \in [Archs -> Results \cup {NoFile}] /\ run' = run /\ pc \in Writing
    BY DEF IInv, TypeOK, WriteFile
  <1>2. \A arch \in Archs : files'[arch] = IF arch = Head(todo) THEN Content(arch) ELSE files[arch]
    BY <1>1, WriteFacts
  <1>3. \A arch \in Archs : files'[arch] # NoFile => files'[arch].run <= run
    BY <1>2, ContentTyped, Lengths DEF IInv, DiskShape
  <1>4. \A arch \in Among(Tail(todo)) : arch \in Archs /\ arch # Head(todo) /\ arch \in Among(todo)
    BY WriteFacts
  <1>5. \A arch \in Among(Tail(todo)) : files'[arch] = files[arch] /\ OnDisk(arch)' = OnDisk(arch)
    BY <1>1, <1>2, <1>4 DEF OnDisk
  <1>6. \A arch \in Archs \ Among(Tail(todo)) : files'[arch] = Content(arch)
    BY <1>1, <1>2, WriteFacts DEF IInv, DiskShape
  <1>7. TornFiles' = TornFiles \ {Head(todo)}
    BY <1>1, <1>2, WriteFacts, ContentTyped DEF IInv, TornFiles
  <1> QED BY <1>3, <1>5, <1>6, <1>7

(* Of a file that holds what the run has.                                  *)
LEMMA ContentOnDisk ==
  ASSUME IInv, NEW arch \in Archs, files'[arch] = Content(arch), run' = run
  PROVE  OnDisk(arch)' = RowsOf(arch)
  BY ContentTyped DEF OnDisk, IInv

LEMMA WriteTyped == ASSUME IInv, WriteFile PROVE TypeOK'
  <1>1. files \in [Archs -> Results \cup {NoFile}]
    BY DEF IInv, TypeOK
  <1>2. \A arch \in Archs : files'[arch] = IF arch = Head(todo) THEN Content(arch) ELSE files[arch]
    BY <1>1, WriteFacts
  <1>3. files' \in [Archs -> Results \cup {NoFile}]
    BY <1>1, WriteFacts, ContentTyped DEF IInv
  <1>4. \A arch \in Archs : files'[arch] # NoFile => Len(files'[arch].rows) <= GoldenSize
    BY <1>2, ContentTyped DEF IInv, TypeOK
  <1>5. todo' \in Todos
    BY WriteFacts, AmongAll DEF WriteFile
  <1>6. pc' \in Working \cup Writing \cup Over
    BY DEF WriteFile, Written, Writing, Working, Over
  <1> QED BY <1>3, <1>4, <1>5, <1>6 DEF IInv, TypeOK, WriteFile, rowVars

LEMMA WriteFileInv == ASSUME IInv, WriteFile PROVE IInv'
  <1>1. UNCHANGED <<run, args, a1, a1_run2, a2, a3>> /\ pc \in Writing
    BY DEF WriteFile, rowVars
  <1>2. /\ Len(a1) \in Nat /\ Len(a2) \in Nat /\ Len(a3) \in Nat /\ args.size \in Nat
        /\ Len(a3) <= args.size
    BY Lengths DEF IInv, TypeOK
  <1>3. \A arch \in Archs : RowsOf(arch)' = RowsOf(arch)
    BY <1>1 DEF RowsOf
  <1>4. run > 0
    BY <1>1 DEF IInv, DiskShape, Writing, Over
  <1>5. CASE Len(todo) # 1
    <2>1. pc' = pc /\ todo' = Tail(todo) /\ todo' # <<>>
      BY <1>5, WriteFacts DEF WriteFile
    <2>2. Shape' /\ AgainShape' /\ TodoShape'
      BY <1>1, <2>1 DEF IInv, Shape, AgainShape, TodoShape
    <2>3. \A arch \in Archs : Content(arch)' = Content(arch)
      BY <1>1, <1>3, <2>1 DEF Content
    <2>4. \A arch \in Among(todo') : /\ arch \in Among(todo) /\ arch \in Archs
                                     /\ arch \in Unflagged' => arch \in Unflagged
                                     /\ arch \in TornFiles => arch \in TornFiles'
                                     /\ Bounded(arch) => Bounded(arch)'
      BY <1>1, <2>1, WriteFacts, WriteDisk, BoundedKept DEF Unflagged
    <2>5. DiskShape'
      BY <1>1, <1>4, <2>1, <2>3, <2>4, WriteDisk DEF IInv, DiskShape, Writing, Working, Over
    <2>6. OverShape'
      BY <1>1, <2>1 DEF OverShape, Writing, Over
    <2>7. TornShape'
      BY <1>1, <2>1, WriteFacts, WriteDisk DEF IInv, TornShape, Writing
    <2> QED BY <2>2, <2>5, <2>6, <2>7, WriteTyped, WriteTogether DEF IInv
  <1>6. CASE Len(todo) = 1
    <2>1. Tail(todo) = <<>> /\ pc' = Written
      BY <1>6, WriteFacts DEF WriteFile
    <2>2. todo' = IF Written = "reporting" THEN ArchOrder ELSE <<>>
      BY <1>6, <2>1 DEF WriteFile
    <2>3. \A arch \in Archs : files'[arch] = Content(arch)
      BY <2>1, WriteDisk, AmongAll
    <2>4. \A arch \in Archs : OnDisk(arch)' = RowsOf(arch)
      BY <1>1, <2>3, ContentOnDisk
    <2>5. \A arch \in Archs : files'[arch] # NoFile => files'[arch].run <= run'
      BY <1>1, WriteDisk
    <2>8. TornFiles' = {} /\ TornShape'
      <3>1. TornFiles' = {}
        BY <2>3, ContentTyped DEF IInv, TornFiles
      <3> QED BY <3>1 DEF TornShape, Archs
    <2>6. CASE pc = "aborting" \/ pc = "reporting"
      <3>1. /\ pc' = IF pc = "aborting" THEN "failed" ELSE "done"
            /\ todo' = <<>>
        BY <2>1, <2>2, <2>6 DEF Written
      <3>2. Shape' /\ AgainShape' /\ TodoShape'
        BY <1>1, <3>1 DEF IInv, Shape, AgainShape, TodoShape, Working, Writing
      <3>3. DiskShape'
        BY <2>5, <3>1 DEF DiskShape, Working, Writing, Over
      <3>4. OverShape'
        <4>1. \A arch \in Archs : Bounded(arch)'
          <5>1. \A arch \in Archs : /\ RowsOf(arch) = FirstClaims(Len(RowsOf(arch)))
                                    /\ Len(RowsOf(arch)) \in Nat
            BY <1>2, RowsFacts DEF IInv, Shape
          <5> QED BY <1>3, <2>4, <5>1 DEF Bounded
        <4>2. pc' = "failed" => \A arch \in Archs : files'[arch] = Content(arch)'
          BY <1>1, <1>3, <2>3, <2>6, <3>1 DEF Content
        <4> QED BY <4>1, <4>2 DEF OverShape
      <3> QED BY <2>8, <3>2, <3>3, <3>4, WriteTyped, WriteTogether DEF IInv
    <2>7. CASE pc = "saving"
      <3>1. \A arch \in Archs : RowsOf(arch) = a3
        BY <1>2, <2>7, RowsFacts DEF IInv, Shape
      <3>2. \A arch \in Archs : OnDisk(arch)' = a3'
        BY <1>1, <2>4, <3>1
      <3>3. CASE Len(a3) < args.size
        <4>1. pc' = "first_pass" /\ todo' = <<>>
          BY <2>1, <2>2, <2>7, <3>3 DEF Written
        <4>2. Shape' /\ AgainShape' /\ TodoShape'
          BY <1>1, <2>7, <3>3, <4>1 DEF IInv, Shape, AgainShape, TodoShape, Working, Writing
        <4>3. DiskShape' /\ OverShape'
          BY <1>1, <1>4, <2>5, <3>2, <4>1 DEF DiskShape, OverShape, Working, Writing, Over
        <4> QED BY <2>8, <4>2, <4>3, WriteTyped, WriteTogether DEF IInv
      <3>4. CASE ~(Len(a3) < args.size)
        <4>1. pc' = "reporting" /\ todo' = ArchOrder /\ Len(a3) = args.size
          BY <1>2, <2>1, <2>2, <2>7, <3>4 DEF Written
        <4>2. Shape' /\ AgainShape' /\ TodoShape'
          BY <1>1, <2>7, <4>1, AmongAll
          DEF IInv, Shape, AgainShape, TodoShape, Working, Writing
        <4>3. \A arch \in Archs : arch \notin Unflagged'
          BY <2>3, <2>7, ContentTyped DEF Unflagged, IInv
        <4>4. DiskShape' /\ OverShape'
          BY <1>1, <1>4, <2>5, <3>2, <4>1, <4>3, AmongAll
          DEF DiskShape, OverShape, Working, Writing, Over
        <4> QED BY <2>8, <4>2, <4>4, WriteTyped, WriteTogether DEF IInv
      <3> QED BY <3>3, <3>4
    <2> QED BY <1>1, <2>6, <2>7 DEF Writing
  <1> QED BY <1>5, <1>6

-----------------------------------------------------------------------------
(* A standalone runner replaces one file between the runs.                 *)
LEMMA StandaloneInv == ASSUME IInv, NEW arch \in Archs, Standalone(arch) PROVE IInv'
  <1>1. PICK file : /\ files' = [files EXCEPT ![arch] = file]
                    /\ file \in Results /\ file.run = 0 /\ Len(file.rows) <= GoldenSize
                    /\ file.whole => /\ file.rows = FirstClaims(Len(file.rows))
                                     /\ file.again \in {<<>>, file.rows}
    <2>1. CASE files' = [files EXCEPT ![arch] = Torn(0)]
      <3>1. Torn(0) \in Results
        BY LimitFacts DEF Torn, Results
      <3>2. Torn(0).run = 0 /\ ~Torn(0).whole /\ Torn(0).rows = <<>>
        BY DEF Torn
      <3>3. Len(Torn(0).rows) <= GoldenSize
        BY <3>2, LimitFacts
      <3> QED BY <2>1, <3>1, <3>2, <3>3
    <2>2. CASE files' # [files EXCEPT ![arch] = Torn(0)]
      <3>1. PICK size \in Limits, again \in BOOLEAN :
              files' = [files EXCEPT ![arch] =
                    [run |-> 0, whole |-> TRUE, partial |-> FALSE, rows |-> FirstClaims(size),
                     again |-> IF again THEN FirstClaims(size) ELSE <<>>]]
        BY <2>2 DEF Standalone
      <3> DEFINE new == [run |-> 0, whole |-> TRUE, partial |-> FALSE,
                         rows |-> FirstClaims(size),
                         again |-> IF again THEN FirstClaims(size) ELSE <<>>]
      <3>2. size \in Nat /\ size <= GoldenSize /\ FirstClaims(size) \in Seq(Claims)
            /\ Len(FirstClaims(size)) = size
        BY LimitFacts, FirstFacts
      <3>3. (IF again THEN FirstClaims(size) ELSE <<>>) \in Seq(Claims)
        BY <3>2
      <3>4. new \in Results
        BY <3>2, <3>3 DEF Results
      <3>5. /\ new.run = 0 /\ new.rows = FirstClaims(size)
            /\ new.again \in {<<>>, FirstClaims(size)}
        OBVIOUS
      <3>6. files' = [files EXCEPT ![arch] = new]
        BY <3>1
      <3> HIDE DEF new
      <3> QED BY <3>2, <3>4, <3>5, <3>6
    <2> QED BY <2>1, <2>2
  <1>2. /\ pc \in Over /\ UNCHANGED <<run, args, pc, a1, a1_run2, a2, a3, todo>>
        /\ files \in [Archs -> Results \cup {NoFile}]
    BY DEF Standalone, rowVars, IInv, TypeOK
  <1>4. file # NoFile
    BY <1>1, NoFileAssumption
  <1>7. files'[arch] = file /\ \A other \in Archs : other # arch => files'[other] = files[other]
    BY <1>1, <1>2
  <1>8. TypeOK'
    <2>1. files' \in [Archs -> Results \cup {NoFile}]
      BY <1>1, <1>2
    <2>2. \A other \in Archs : files'[other] # NoFile => Len(files'[other].rows) <= GoldenSize
      BY <1>1, <1>7 DEF IInv, TypeOK
    <2> QED BY <1>2, <2>1, <2>2 DEF IInv, TypeOK
  <1>9. Shape' /\ AgainShape' /\ TodoShape'
    BY <1>2 DEF IInv, Shape, AgainShape, TodoShape
  <1>10. DiskShape'
    <2>1. \A other \in Archs : files'[other] # NoFile => files'[other].run <= run'
      BY <1>1, <1>2, <1>7, Lengths DEF IInv, DiskShape
    <2> QED BY <1>2, <2>1 DEF DiskShape, Over, Working, Writing
  <1>11. OverShape'
    <2> SUFFICES ASSUME run > 0, NEW other \in Archs \ TornFiles'
                 PROVE  Replaced(other)' \/ ((pc' = "failed" => files'[other] = Content(other)')
                                            /\ Bounded(other)')
      BY <1>2 DEF OverShape
    <2>1. CASE other = arch
      BY <1>1, <1>2, <1>4, <1>7, <2>1 DEF Replaced
    <2>2. CASE other # arch
      <3>1. /\ Replaced(other)' = Replaced(other)
            /\ Content(other)' = Content(other)
            /\ OnDisk(other)' = OnDisk(other)
            /\ RowsOf(other)' = RowsOf(other)
        BY <1>2, <1>7, <2>2 DEF Replaced, Content, OnDisk, RowsOf
      <3>2. other \notin TornFiles
        BY <1>2, <1>7, <2>2 DEF TornFiles
      <3> QED BY <1>2, <1>7, <2>2, <3>1, <3>2 DEF IInv, OverShape, Bounded
    <2> QED BY <2>1, <2>2
  <1>12. UnwarnedFilesBelongTogether'
    <2>1. arch \notin Interleaved'
      BY <1>1, <1>7 DEF Interleaved
    <2>2. \A other \in Archs : other # arch =>
            /\ other \in Unflagged' <=> other \in Unflagged
            /\ other \in Interleaved' <=> other \in Interleaved
      BY <1>7 DEF Unflagged, Interleaved
    <2>3. arch \in Unflagged' => /\ files'[arch].rows = FirstClaims(Len(files'[arch].rows))
                                 /\ files'[arch].again \in {<<>>, files'[arch].rows}
      BY <1>1, <1>7 DEF Unflagged
    <2>4. Unflagged' \subseteq Archs
      BY DEF Unflagged
    <2> QED BY <1>7, <2>1, <2>2, <2>3, <2>4 DEF IInv, UnwarnedFilesBelongTogether
  <1>13. TornShape'
    <2> SUFFICES ASSUME run > 0 PROVE TornShape'
      BY <1>2 DEF TornShape
    <2>1. TornFiles' \subseteq TornFiles
      BY <1>1, <1>2, <1>7 DEF TornFiles
    <2>2. arch \notin TornFiles'
      BY <1>1, <1>2, <1>7 DEF TornFiles
    <2> QED BY <1>2, <2>1, <2>2 DEF IInv, TornShape, Over
  <1> QED BY <1>8, <1>9, <1>10, <1>11, <1>12, <1>13 DEF IInv

-----------------------------------------------------------------------------
(* Every step keeps the invariant.                                         *)
LEMMA NextInv == IInv /\ [Next]_vars => IInv'
  <1> SUFFICES ASSUME IInv, [Next]_vars PROVE IInv'
    OBVIOUS
  <1>1. ASSUME NEW arch \in Archs, Standalone(arch) PROVE IInv'
    BY <1>1, StandaloneInv
  <1>2. CASE UNCHANGED vars
    <2>1. UNCHANGED <<run, args, pc, a1, a1_run2, a2, a3, todo>> /\ UNCHANGED files
      BY <1>2 DEF vars, rowVars
    <2>2. TypeOK' /\ Shape' /\ AgainShape' /\ TodoShape'
      BY <2>1 DEF IInv, TypeOK, Shape, AgainShape, TodoShape
    <2>3. \A arch \in Archs : /\ OnDisk(arch)' = OnDisk(arch)
                              /\ Content(arch)' = Content(arch)
                              /\ RowsOf(arch)' = RowsOf(arch)
                              /\ Replaced(arch)' = Replaced(arch)
      BY <2>1 DEF OnDisk, Content, RowsOf, Replaced
    <2>4. \A arch \in Archs : Bounded(arch)' <=> Bounded(arch)
      BY <2>3 DEF Bounded
    <2>5. Among(todo) \subseteq Archs
      BY DEF Among
    <2>6. DiskShape'
      BY <2>1, <2>3, <2>4, <2>5, FilesKept DEF IInv, DiskShape
    <2>7. OverShape'
      BY <2>1, <2>3, <2>4, FilesKept DEF IInv, OverShape
    <2>8. TornShape'
      BY <2>1, FilesKept DEF IInv, TornShape
    <2> QED BY <2>1, <2>2, <2>6, <2>7, <2>8, FilesKept DEF IInv
  <1> QED BY <1>1, <1>2, StartInv, FirstPassInv, SecondPassInv, JudgeInv, Arch2Inv, Arch3Inv,
             RaiseInv, WriteFileInv, WriteRaisesInv, KillInv DEF Next

(* The invariant, of every behaviour.                                      *)
THEOREM RunInvariant == Spec => []IInv
  <1> QED BY InitInv, NextInv, PTL DEF Spec

(* Rows, files and the files still to write are typed, and no file has     *)
(* more rows than the golden set has records.                              *)
THEOREM TypeCorrect == Spec => []TypeOK
  <1>1. IInv => TypeOK
    BY DEF IInv
  <1> QED BY <1>1, RunInvariant, PTL

(* Files that compare.py accepts without a warning belong together, for    *)
(* any size of the golden set and any number of runs over the same files   *)
(* (compare.py:133-147, run_interleaved.py:150-159, 229-232).              *)
THEOREM UnwarnedFiles == Spec => []UnwarnedFilesBelongTogether
  <1>1. IInv => UnwarnedFilesBelongTogether
    BY DEF IInv
  <1> QED BY <1>1, RunInvariant, PTL

(* Wherever a run ends, the middle of a file included, every file it has   *)
(* not torn lacks one claim's rows at most, one of the three is not torn,  *)
(* and one that aborts saves all three, at any size of the golden set and  *)
(* whatever save failed before (run_interleaved.py:150-159, 187-231).      *)
THEOREM RowsSurvive == Spec => []RowsAreSaved
  <1>1. ASSUME IInv, run > 0 PROVE RowsAreSaved
    <2>1. /\ Len(a1) \in Nat /\ Len(a2) \in Nat /\ Len(a3) \in Nat
          /\ a1 = FirstClaims(Len(a1)) /\ a2 = FirstClaims(Len(a2)) /\ a3 = FirstClaims(Len(a3))
          /\ Len(a3) <= Len(a2) /\ Len(a2) <= Len(a1) /\ Len(a1) <= Len(a3) + 1
      BY <1>1, Lengths DEF IInv, Shape
    <2>2. IsPrefix(a3, a2) /\ IsPrefix(a2, a1)
      BY <2>1, FirstPrefix
    <2>3. \A arch \in Archs : RowsOf(arch) = FirstClaims(Len(RowsOf(arch)))
                              /\ Len(RowsOf(arch)) \in Nat
      BY <2>1, RowsFacts
    <2>4. ASSUME NEW arch \in Archs, Bounded(arch)
          PROVE  IsPrefix(OnDisk(arch), RowsOf(arch)) /\ Len(RowsOf(arch)) <= Len(OnDisk(arch)) + 1
      <3>1. PICK m \in Nat : /\ OnDisk(arch) = FirstClaims(m)
                             /\ m <= Len(RowsOf(arch)) /\ Len(RowsOf(arch)) <= m + 1
        BY <2>4 DEF Bounded
      <3>2. IsPrefix(FirstClaims(m), FirstClaims(Len(RowsOf(arch))))
        BY <2>3, <3>1, FirstPrefix
      <3>3. Len(FirstClaims(m)) = m
        BY FirstFacts
      <3> QED BY <2>3, <3>1, <3>2, <3>3
    <2>5. ASSUME NEW arch \in Archs \ TornFiles
          PROVE  Replaced(arch) \/ ((pc = "failed" => files[arch] = Content(arch)) /\ Bounded(arch))
      <3>1. CASE pc \in Over
        BY <1>1, <3>1 DEF IInv, OverShape
      <3>2. CASE pc \notin Over
        <4>1. pc \in Working \cup Writing /\ pc # "failed"
          BY <1>1, <3>2 DEF IInv, TypeOK, Over
        <4> QED BY <1>1, <4>1, UnderwayBounded
      <3> QED BY <3>1, <3>2
    <2> QED BY <1>1, <2>1, <2>2, <2>4, <2>5 DEF IInv, TornShape, RowsAreSaved
  <1>2. IInv => RowsAreSaved
    BY <1>1 DEF RowsAreSaved
  <1> QED BY <1>2, RunInvariant, PTL

-----------------------------------------------------------------------------
(* The model clients.                                                      *)

(* Where a call may be asleep, how far it has come, and that the monolith  *)
(* sees an overrun only in its first attempt.                              *)
Progress(c) ==
    /\ phase[c] # "sleeping" => wait[c] = 0
    /\ phase[c] = "asking" => attempt[c] < MaxAttempts[c]
    /\ phase[c] = "gave_up" => attempt[c] = MaxAttempts[c]
    /\ "overrun" \in errors[c] => attempt[c] > 0
    /\ "no_json" \in errors[c] => c \in Salvaging

(* A call that has seen nothing but what its loop is meant to outlast.     *)
Undisturbed(c) ==
    /\ phase[c] \in {"asking", "sleeping", "gave_up"}
    /\ ~overtaken[c]
    /\ "no_json" \notin errors[c]
    /\ c \notin Salvaging => "overrun" \notin errors[c]

(* When the sleep is over the window will have moved on by so much.        *)
Clear(c, time) == since = Window \/ since + wait[c] >= time

(* Refusals only: the third request finds the window empty.                *)
OnlyRefused(c) ==
    /\ attempt[c] <= 2
    /\ attempt[c] = 1 => Clear(c, RateBackoff)
    /\ attempt[c] = 2 => Clear(c, 3 * RateBackoff)

(* An overrun fills the window anew and costs one attempt more.            *)
OverrunFirst(c) ==
    /\ attempt[c] <= 3
    /\ attempt[c] = 2 => Clear(c, 2 * RateBackoff)
    /\ attempt[c] = 3 => Clear(c, 3 * RateBackoff)

Outlasts(c) ==
    Undisturbed(c) =>
        IF "overrun" \in errors[c] THEN OverrunFirst(c) ELSE OnlyRefused(c)

ClientInv ==
    /\ ClientTypeOK
    /\ \A c \in Clients : Progress(c)
    /\ \A c \in Clients : Outlasts(c)

-----------------------------------------------------------------------------
(* The numbers of attempts, so far and at most, and the seconds.           *)
LEMMA Numbers ==
  ASSUME ClientInv, NEW c \in Clients
  PROVE  /\ attempt[c] \in Nat /\ MaxAttempts[c] \in Nat
         /\ MaxAttempts[c] > 2 /\ attempt[c] <= MaxAttempts[c]
         /\ wait[c] \in Nat
         /\ Window \in Nat /\ since \in Nat /\ since <= Window
  <1>1. MaxAttempts[c] \in Nat \ {0, 1, 2}
    BY ClientAssumption
  <1>2. MaxAttempts[c] \in Nat /\ MaxAttempts[c] > 2
    BY <1>1
  <1>3. Window \in Nat /\ since \in 0..Window
    BY ClientAssumption DEF ClientInv, ClientTypeOK
  <1>4. attempt[c] \in Nat /\ attempt[c] <= MaxAttempts[c] /\ wait[c] \in Nat
    BY DEF ClientInv, ClientTypeOK
  <1> QED BY <1>2, <1>3, <1>4

(* Nothing has happened yet.                                               *)
LEMMA InitClientInv == ClientInit => ClientInv
  BY ClientAssumption DEF ClientInit, ClientInv, ClientTypeOK, Progress, Outlasts, Undisturbed, Ended

(* Beginning a call forgets the last one.                                  *)
LEMMA BeginInv == ASSUME ClientInv, NEW c \in Clients, Begin(c) PROVE ClientInv'
  <1>1. ASSUME NEW d \in Clients
        PROVE  attempt'[d] <= MaxAttempts[d] /\ (d = c => attempt'[d] < MaxAttempts[d])
    BY <1>1, Numbers DEF ClientInv, ClientTypeOK, Begin
  <1>2. ClientTypeOK'
    BY <1>1 DEF ClientInv, ClientTypeOK, Begin, Ended
  <1>3. ASSUME NEW d \in Clients PROVE Progress(d)'
    <2>1. CASE d = c
      <3>1. phase'[d] = "asking" /\ errors'[d] = {} /\ wait'[d] = wait[d]
        BY <2>1 DEF ClientInv, ClientTypeOK, Begin
      <3>2. wait[d] = 0
        BY <2>1 DEF ClientInv, Begin, Progress, Ended
      <3> QED BY <1>1, <2>1, <3>1, <3>2 DEF Progress
    <2>2. CASE d # c
      BY <1>3, <2>2 DEF ClientInv, ClientTypeOK, Begin, Progress
    <2> QED BY <2>1, <2>2
  <1>4. ASSUME NEW d \in Clients PROVE Outlasts(d)'
    <2>1. CASE d = c
      BY <2>1, ClientAssumption
      DEF ClientInv, ClientTypeOK, Begin, Outlasts, OnlyRefused, Undisturbed
    <2>2. CASE d # c
      BY <1>4, <2>2
      DEF ClientInv, ClientTypeOK, Begin, Outlasts, OnlyRefused, OverrunFirst, Undisturbed, Clear
    <2> QED BY <2>1, <2>2
  <1> QED BY <1>2, <1>3, <1>4 DEF ClientInv

(* The loop goes on, or gives up with its last attempt.                    *)
LEMMA WakeInv == ASSUME ClientInv, NEW c \in Clients, Wake(c) PROVE ClientInv'
  <1>1. ClientTypeOK'
    BY ClientAssumption DEF ClientInv, ClientTypeOK, Wake, Ended
  <1>2. ASSUME NEW d \in Clients PROVE Progress(d)'
    <2>1. CASE d = c
      <3>1. /\ attempt'[d] = attempt[d] /\ errors' = errors /\ wait'[d] = 0
            /\ phase'[d] = IF attempt[d] < MaxAttempts[d] THEN "asking" ELSE "gave_up"
        BY <2>1 DEF ClientInv, ClientTypeOK, Wake
      <3>2. attempt[d] < MaxAttempts[d] \/ attempt[d] = MaxAttempts[d]
        BY Numbers
      <3> QED BY <3>1, <3>2 DEF ClientInv, Progress
    <2>2. CASE d # c
      BY <1>2, <2>2 DEF ClientInv, ClientTypeOK, Wake, Progress
    <2> QED BY <2>1, <2>2
  <1>3. ASSUME NEW d \in Clients PROVE Outlasts(d)'
    BY <1>3
    DEF ClientInv, ClientTypeOK, Wake, Outlasts, OnlyRefused, OverrunFirst, Undisturbed, Clear
  <1> QED BY <1>1, <1>2, <1>3 DEF ClientInv

(* Time only helps.                                                        *)
LEMMA TickInv == ASSUME ClientInv, Tick PROVE ClientInv'
  <1>1. ClientTypeOK'
    BY ClientAssumption DEF ClientInv, ClientTypeOK, Tick, Ended
  <1>2. ASSUME NEW d \in Clients PROVE Progress(d)'
    BY <1>2, ClientAssumption DEF ClientInv, ClientTypeOK, Tick, Progress
  <1>3. ASSUME NEW d \in Clients PROVE Outlasts(d)'
    <2>1. ASSUME NEW time \in Nat, Clear(d, time) PROVE Clear(d, time)'
      BY <1>3, <2>1, ClientAssumption DEF ClientInv, ClientTypeOK, Tick, Clear
    <2>2. /\ RateBackoff \in Nat /\ 2 * RateBackoff \in Nat /\ 3 * RateBackoff \in Nat
      BY ClientAssumption
    <2>3. /\ Undisturbed(d)' => Undisturbed(d)
          /\ errors' = errors /\ attempt' = attempt
      BY DEF Tick, Undisturbed
    <2> QED BY <1>3, <2>1, <2>2, <2>3 DEF ClientInv, Outlasts, OnlyRefused, OverrunFirst
  <1> QED BY <1>1, <1>2, <1>3 DEF ClientInv

-----------------------------------------------------------------------------
(* A request of c, of which another client d notices only being overtaken. *)
LEMMA ServedOthers ==
  ASSUME ClientInv, NEW c \in Clients, NEW d \in Clients, d # c, Served(c)
  PROVE  overtaken'[d]
  BY DEF ClientInv, ClientTypeOK, Served

(* What the attempts of a call are counted in.                             *)
LEMMA BackoffIsNat ==
  ASSUME ClientInv, NEW c \in Clients
  PROVE  /\ BackoffAfterLimit(c) \in Nat
         /\ ReplyBackoff \in Nat
         /\ attempt[c] \in Nat
         /\ attempt[c] = 0 => BackoffAfterLimit(c) = RateBackoff
         /\ attempt[c] = 1 => BackoffAfterLimit(c) = 2 * RateBackoff
         /\ attempt[c] = 2 => BackoffAfterLimit(c) = 3 * RateBackoff
  <1>1. attempt[c] \in Nat /\ RateBackoff \in Nat /\ ReplyBackoff \in Nat
    BY ClientAssumption DEF ClientInv, ClientTypeOK
  <1>2. \A a \in Nat, b \in Nat : b * (a + 1) \in Nat
    OBVIOUS
  <1>3. \A a \in Nat, b \in Nat :
          /\ a = 0 => b * (a + 1) = b
          /\ a = 1 => b * (a + 1) = 2 * b
          /\ a = 2 => b * (a + 1) = 3 * b
    OBVIOUS
  <1> QED BY <1>1, <1>2, <1>3 DEF BackoffAfterLimit

(* Retrying keeps the types and the count, whatever the error.             *)
LEMMA RetryTyped ==
  ASSUME ClientInv, NEW c \in Clients, phase[c] = "asking",
         NEW error \in Errors, error = "no_json" => c \in Salvaging,
         NEW seconds \in Nat, Retry(c, error, seconds)
  PROVE  /\ phase' \in [Clients -> {"none", "asking", "sleeping"} \cup Ended]
         /\ attempt' \in [Clients -> Nat]
         /\ \A d \in Clients : attempt'[d] <= MaxAttempts[d]
         /\ wait' \in [Clients -> Nat]
         /\ errors' \in [Clients -> SUBSET Errors]
         /\ \A d \in Clients : Progress(d)'
  <1>1. attempt[c] < MaxAttempts[c] /\ attempt[c] \in Nat /\ MaxAttempts[c] \in Nat
    BY ClientAssumption DEF ClientInv, ClientTypeOK, Progress
  <1>2. /\ phase' \in [Clients -> {"none", "asking", "sleeping"} \cup Ended]
        /\ attempt' \in [Clients -> Nat]
        /\ wait' \in [Clients -> Nat]
        /\ errors' \in [Clients -> SUBSET Errors]
    BY <1>1 DEF ClientInv, ClientTypeOK, Retry
  <1>3. ASSUME NEW d \in Clients PROVE attempt'[d] <= MaxAttempts[d]
    BY <1>1, <1>3 DEF ClientInv, ClientTypeOK, Retry
  <1>4. ASSUME NEW d \in Clients PROVE Progress(d)'
    <2>1. CASE d = c
      BY <1>1, <2>1 DEF ClientInv, ClientTypeOK, Retry, Progress
    <2>2. CASE d # c
      BY <1>4, <2>2 DEF ClientInv, ClientTypeOK, Retry, Progress
    <2> QED BY <2>1, <2>2
  <1> QED BY <1>2, <1>3, <1>4

(* Ending a call keeps them too.                                           *)
LEMMA EndTyped ==
  ASSUME ClientInv, NEW c \in Clients, phase[c] = "asking",
         NEW how \in {"answered", "raised"}, End(c, how)
  PROVE  /\ phase' \in [Clients -> {"none", "asking", "sleeping"} \cup Ended]
         /\ attempt' \in [Clients -> Nat]
         /\ \A d \in Clients : attempt'[d] <= MaxAttempts[d]
         /\ wait' \in [Clients -> Nat]
         /\ errors' \in [Clients -> SUBSET Errors]
         /\ \A d \in Clients : Progress(d)'
         /\ ~Undisturbed(c)'
  <1>1. ASSUME NEW d \in Clients PROVE Progress(d)'
    BY <1>1 DEF ClientInv, ClientTypeOK, End, Progress
  <1> QED BY <1>1 DEF ClientInv, ClientTypeOK, End, Ended, Undisturbed

(* The provider's part of the state.                                       *)
LEMMA ProviderTyped ==
  ASSUME ClientInv, NEW c \in Clients, Served(c) \/ Unserved
  PROVE  overtaken' \in [Clients -> BOOLEAN] /\ since' \in 0..Window
  <1>1. 0 \in 0..Window
    BY ClientAssumption
  <1>2. CASE Served(c)
    BY <1>1, <1>2 DEF ClientInv, ClientTypeOK, Served
  <1>3. CASE Unserved
    BY <1>3 DEF ClientInv, ClientTypeOK, Unserved
  <1> QED BY <1>2, <1>3

(* A request that was served: c's own part is left to the caller.          *)
LEMMA ServedInv ==
  ASSUME ClientInv, NEW c \in Clients, Served(c),
         NEW d \in Clients, d # c
  PROVE  Outlasts(d)'
  BY ServedOthers DEF Outlasts, Undisturbed

(* One that was not served changes nothing for another.                    *)
LEMMA UnservedInv ==
  ASSUME ClientInv, NEW c \in Clients, Unserved,
         NEW d \in Clients, d # c,
         phase'[d] = phase[d], attempt'[d] = attempt[d],
         wait'[d] = wait[d], errors'[d] = errors[d]
  PROVE  Outlasts(d)'
  BY DEF ClientInv, Unserved, Outlasts, Undisturbed, OnlyRefused, OverrunFirst, Clear

LEMMA CompletionInv ==
  ASSUME ClientInv, NEW c \in Clients, phase[c] = "asking", Completion(c) PROVE ClientInv'
  <1>1. End(c, "answered") /\ Served(c)
    BY DEF Completion
  <1>2. ClientTypeOK'
    BY <1>1, EndTyped, ProviderTyped DEF ClientTypeOK
  <1>3. \A d \in Clients : Outlasts(d)'
    BY <1>1, EndTyped, ServedInv DEF Outlasts
  <1> QED BY <1>1, <1>2, <1>3, EndTyped DEF ClientInv

LEMMA FaultInv ==
  ASSUME ClientInv, NEW c \in Clients, phase[c] = "asking", Fault(c) PROVE ClientInv'
  <1>1. End(c, "raised") /\ Unserved
    BY DEF Fault
  <1>2. ClientTypeOK'
    BY <1>1, EndTyped, ProviderTyped DEF ClientTypeOK
  <1>3. ASSUME NEW d \in Clients PROVE Outlasts(d)'
    <2>1. CASE d = c
      BY <1>1, <2>1, EndTyped DEF Outlasts
    <2>2. CASE d # c
      <3>1. /\ phase'[d] = phase[d] /\ attempt'[d] = attempt[d]
            /\ wait'[d] = wait[d] /\ errors'[d] = errors[d]
        BY <1>1, <1>3, <2>2 DEF End, ClientInv, ClientTypeOK
      <3> QED BY <1>1, <1>3, <2>2, <3>1, UnservedInv
    <2> QED BY <2>1, <2>2
  <1> QED BY <1>1, <1>2, <1>3, EndTyped DEF ClientInv

LEMMA NoJsonInv ==
  ASSUME ClientInv, NEW c \in Clients, phase[c] = "asking", NoJson(c) PROVE ClientInv'
  <1>1. Served(c)
    BY DEF NoJson
  <1>2. CASE c \in Salvaging
    <2>1. Retry(c, "no_json", ReplyBackoff) /\ "no_json" \in Errors /\ ReplyBackoff \in Nat
      BY <1>2, ClientAssumption DEF NoJson, Errors
    <2>2. ClientTypeOK'
      BY <1>1, <1>2, <2>1, RetryTyped, ProviderTyped DEF ClientTypeOK
    <2>3. "no_json" \in errors'[c]
      BY <2>1 DEF Retry, ClientInv, ClientTypeOK
    <2>4. \A d \in Clients : Outlasts(d)'
      BY <1>1, <2>3, ServedInv DEF Outlasts, Undisturbed
    <2> QED BY <1>2, <2>1, <2>2, <2>4, RetryTyped DEF ClientInv
  <1>3. CASE c \notin Salvaging
    <2>1. End(c, "raised")
      BY <1>3 DEF NoJson
    <2>2. ClientTypeOK'
      BY <1>1, <2>1, EndTyped, ProviderTyped DEF ClientTypeOK
    <2>3. \A d \in Clients : Outlasts(d)'
      BY <1>1, <2>1, EndTyped, ServedInv DEF Outlasts
    <2> QED BY <2>1, <2>2, <2>3, EndTyped DEF ClientInv
  <1> QED BY <1>2, <1>3

LEMMA OverrunInv ==
  ASSUME ClientInv, NEW c \in Clients, phase[c] = "asking", Overrun(c) PROVE ClientInv'
  <1>1. Served(c) /\ Retry(c, "overrun", ReplyBackoff) /\ JsonMode(c)
    BY DEF Overrun
  <1>2. "overrun" \in Errors /\ ReplyBackoff \in Nat
    BY ClientAssumption DEF Errors
  <1>3. ClientTypeOK'
    BY <1>1, <1>2, RetryTyped, ProviderTyped DEF ClientTypeOK
  <1>4. "overrun" \in errors'[c] /\ attempt'[c] = attempt[c] + 1
    BY <1>1 DEF Retry, ClientInv, ClientTypeOK
  <1>5. Outlasts(c)'
    <2>1. CASE c \in Salvaging
      <3>1. attempt'[c] = 1
        BY <1>1, <1>4, <2>1 DEF JsonMode
      <3> QED BY <1>4, <3>1 DEF Outlasts, OverrunFirst
    <2>2. CASE c \notin Salvaging
      BY <1>4, <2>2 DEF Outlasts, Undisturbed
    <2> QED BY <2>1, <2>2
  <1>6. \A d \in Clients : Outlasts(d)'
    BY <1>1, <1>5, ServedInv
  <1> QED BY <1>1, <1>2, <1>3, <1>6, RetryTyped DEF ClientInv

(* A refusal: the window is not empty, so the call is not yet at the       *)
(* attempt that outlasts it, and the next sleep is the longer one.         *)
LEMMA RefuseInv ==
  ASSUME ClientInv, NEW c \in Clients, phase[c] = "asking", Refuse(c) PROVE ClientInv'
  <1>1. since < Window /\ Retry(c, "refused", BackoffAfterLimit(c)) /\ Unserved
    BY DEF Refuse
  <1>2. "refused" \in Errors /\ BackoffAfterLimit(c) \in Nat
    BY BackoffIsNat DEF Errors
  <1>3. ClientTypeOK'
    BY <1>1, <1>2, RetryTyped, ProviderTyped DEF ClientTypeOK
  <1>4. /\ errors'[c] = errors[c] \cup {"refused"}
        /\ attempt'[c] = attempt[c] + 1
        /\ wait'[c] = BackoffAfterLimit(c)
        /\ since' = since /\ overtaken' = overtaken
        /\ wait[c] = 0
    BY <1>1 DEF Retry, Unserved, ClientInv, ClientTypeOK, Progress
  <1>5. /\ since \in Nat /\ Window \in Nat /\ RateBackoff \in Nat
        /\ 3 * RateBackoff >= Window
        /\ attempt[c] \in Nat
    BY ClientAssumption DEF ClientInv, ClientTypeOK
  <1>6. Outlasts(c)'
    <2> SUFFICES ASSUME Undisturbed(c)'
                 PROVE  IF "overrun" \in errors'[c] THEN OverrunFirst(c)' ELSE OnlyRefused(c)'
      BY DEF Outlasts
    <2>1. Undisturbed(c)
      BY <1>4 DEF Undisturbed
    <2>2. CASE "overrun" \notin errors[c]
      <3>1. OnlyRefused(c)
        BY <2>1, <2>2 DEF ClientInv, Outlasts
      <3>2. attempt[c] \in {0, 1}
        BY <1>1, <1>4, <1>5, <3>1 DEF OnlyRefused, Clear
      <3>3. ASSUME attempt[c] = 0 PROVE OnlyRefused(c)'
        <4>1. wait'[c] = RateBackoff /\ attempt'[c] = 1
          BY <1>4, <3>3, BackoffIsNat
        <4> QED BY <1>4, <1>5, <4>1 DEF OnlyRefused, Clear
      <3>4. ASSUME attempt[c] = 1 PROVE OnlyRefused(c)'
        <4>1. wait'[c] = 2 * RateBackoff /\ attempt'[c] = 2
          BY <1>4, <3>4, BackoffIsNat
        <4>2. since >= RateBackoff
          BY <1>1, <1>4, <1>5, <3>1, <3>4 DEF OnlyRefused, Clear
        <4> QED BY <1>4, <1>5, <4>1, <4>2 DEF OnlyRefused, Clear
      <3>5. OnlyRefused(c)'
        BY <3>2, <3>3, <3>4
      <3> QED BY <1>4, <2>2, <3>5
    <2>3. CASE "overrun" \in errors[c]
      <3>1. OverrunFirst(c) /\ attempt[c] > 0
        BY <2>1, <2>3 DEF ClientInv, Outlasts, Progress
      <3>2. attempt[c] \in {1, 2}
        BY <1>1, <1>4, <1>5, <3>1 DEF OverrunFirst, Clear
      <3>3. ASSUME attempt[c] = 1 PROVE OverrunFirst(c)'
        <4>1. wait'[c] = 2 * RateBackoff /\ attempt'[c] = 2
          BY <1>4, <3>3, BackoffIsNat
        <4> QED BY <1>4, <1>5, <4>1 DEF OverrunFirst, Clear
      <3>4. ASSUME attempt[c] = 2 PROVE OverrunFirst(c)'
        <4>1. wait'[c] = 3 * RateBackoff /\ attempt'[c] = 3
          BY <1>4, <3>4, BackoffIsNat
        <4> QED BY <1>4, <1>5, <4>1 DEF OverrunFirst, Clear
      <3>5. OverrunFirst(c)'
        BY <3>2, <3>3, <3>4
      <3> QED BY <1>4, <2>3, <3>5
    <2> QED BY <2>2, <2>3
  <1>7. ASSUME NEW d \in Clients, d # c PROVE Outlasts(d)'
    <2>1. /\ phase'[d] = phase[d] /\ attempt'[d] = attempt[d]
          /\ wait'[d] = wait[d] /\ errors'[d] = errors[d]
      BY <1>1, <1>7 DEF Retry, ClientInv, ClientTypeOK
    <2> QED BY <1>1, <1>7, <2>1, UnservedInv
  <1>8. \A d \in Clients : Outlasts(d)'
    BY <1>6, <1>7
  <1> QED BY <1>1, <1>2, <1>3, <1>8, RetryTyped DEF ClientInv

-----------------------------------------------------------------------------
(* Every step keeps the invariant.                                         *)
LEMMA NextClientInv == ClientInv /\ [ClientNext]_clientVars => ClientInv'
  <1> SUFFICES ASSUME ClientInv, [ClientNext]_clientVars PROVE ClientInv'
    OBVIOUS
  <1>1. ASSUME NEW c \in Clients, Begin(c) PROVE ClientInv'
    BY <1>1, BeginInv
  <1>2. ASSUME NEW c \in Clients, Ask(c) PROVE ClientInv'
    BY <1>2, CompletionInv, NoJsonInv, OverrunInv, RefuseInv, FaultInv DEF Ask
  <1>3. ASSUME NEW c \in Clients, Wake(c) PROVE ClientInv'
    BY <1>3, WakeInv
  <1>4. CASE Tick
    BY <1>4, TickInv
  <1>5. CASE UNCHANGED clientVars
    BY <1>5 DEF clientVars, ClientInv, ClientTypeOK, Progress, Outlasts, Undisturbed, OnlyRefused,
                OverrunFirst, Clear
  <1> QED BY <1>1, <1>2, <1>3, <1>4, <1>5 DEF ClientNext

(* The invariant, of every behaviour.                                      *)
THEOREM ClientInvariant == ClientSpec => []ClientInv
  <1> QED BY InitClientInv, NextClientInv, PTL DEF ClientSpec

(* The state of the clients is typed, for every set of clients, every      *)
(* number of attempts and every backoff.                                   *)
THEOREM ClientTypeCorrect == ClientSpec => []ClientTypeOK
  <1>1. ClientInv => ClientTypeOK
    BY DEF ClientInv
  <1> QED BY <1>1, ClientInvariant, PTL

(* A call that nobody overtook gives up only after a bad completion of its *)
(* own: three waits outlast the window, and the monolith can afford one    *)
(* overrun on top; and only the monolith asks again after a completion     *)
(* without an object (vlm_client.py:58-59, vlm_call.py:168-171).           *)
THEOREM GivesUpOnBadCompletions == ClientSpec => []GivesUpOnlyOnBadCompletions
  <1>1. ClientInv => GivesUpOnlyOnBadCompletions
    <2> SUFFICES ASSUME ClientInv, NEW c \in Clients, phase[c] = "gave_up", ~overtaken[c],
                        IF c \in Salvaging THEN "no_json" \notin errors[c]
                                           ELSE "overrun" \notin errors[c]
                 PROVE  FALSE
      BY DEF GivesUpOnlyOnBadCompletions, ClientInv, Progress
    <2>1. attempt[c] = MaxAttempts[c] /\ MaxAttempts[c] \in Nat \ {0, 1, 2}
      BY ClientAssumption DEF ClientInv, Progress
    <2>2. CASE c \in Salvaging
      <3>1. attempt[c] > 3
        BY <2>1, <2>2, ClientAssumption
      <3>2. attempt[c] <= 3
        BY <2>1, <2>2 DEF ClientInv, Outlasts, Undisturbed, OverrunFirst, OnlyRefused
      <3> QED BY <2>1, <3>1, <3>2
    <2>3. CASE c \notin Salvaging
      <3>1. "no_json" \notin errors[c]
        BY <2>3 DEF ClientInv, Progress
      <3> QED BY <2>1, <2>3, <3>1 DEF ClientInv, Outlasts, Undisturbed, OnlyRefused
    <2> QED BY <2>2, <2>3
  <1> QED BY <1>1, ClientInvariant, PTL

-----------------------------------------------------------------------------
(* The clients and ModelCall.                                              *)

LEMMA OutcomeValues ==
  /\ OutcomeOf("none") = "none"
  /\ OutcomeOf("asking") = "pending" /\ OutcomeOf("sleeping") = "pending"
  /\ OutcomeOf("answered") = "answered"
  /\ OutcomeOf("gave_up") = "failed" /\ OutcomeOf("raised") = "failed"
  BY DEF OutcomeOf

(* A step of one client's call changes what is seen of that call only.     *)
LEMMA SeenStep ==
  ASSUME ClientInv, NEW c \in Clients,
         \A d \in Clients \ {c} : phase'[d] = phase[d] /\ attempt'[d] = attempt[d]
  PROVE  /\ OutcomeNow[c] = OutcomeOf(phase[c])
         /\ AskedNow[c] = AskedOf(phase[c], attempt[c])
         /\ OutcomeNow' = [OutcomeNow EXCEPT ![c] = OutcomeOf(phase'[c])]
         /\ AskedNow' = [AskedNow EXCEPT ![c] = AskedOf(phase'[c], attempt'[c])]
  BY DEF OutcomeNow, AskedNow

(* A step that ends c's call with this request.                            *)
LEMMA EndIsRequest ==
  ASSUME ClientInv, NEW c \in Clients, phase[c] = "asking",
         NEW how \in {"answered", "raised"}, End(c, how)
  PROVE  Abstract!Request(c)
  <1>1. /\ phase'[c] = how /\ attempt'[c] = attempt[c]
        /\ \A d \in Clients \ {c} : phase'[d] = phase[d] /\ attempt'[d] = attempt[d]
        /\ attempt[c] \in Nat /\ attempt[c] < MaxAttempts[c]
    BY DEF End, ClientInv, ClientTypeOK, Progress
  <1>2. /\ OutcomeNow[c] = OutcomeOf("asking") /\ AskedNow[c] = AskedOf("asking", attempt[c])
        /\ OutcomeNow' = [OutcomeNow EXCEPT ![c] = OutcomeOf(how)]
        /\ AskedNow' = [AskedNow EXCEPT ![c] = AskedOf(how, attempt[c])]
    BY <1>1, SeenStep
  <1>3. /\ AskedOf("asking", attempt[c]) = attempt[c]
        /\ AskedOf(how, attempt[c]) = attempt[c] + 1
    BY DEF AskedOf
  <1>4. OutcomeOf(how) \in {"answered", "failed"}
    BY OutcomeValues
  <1> QED BY <1>1, <1>2, <1>3, <1>4, OutcomeValues DEF Abstract!Request

(* A step that leaves c's call with requests to spare, or with none.       *)
LEMMA RetryIsRequest ==
  ASSUME ClientInv, NEW c \in Clients, phase[c] = "asking", NEW error, NEW seconds,
         Retry(c, error, seconds)
  PROVE  Abstract!Request(c)
  <1>1. /\ phase'[c] = "sleeping" /\ attempt'[c] = attempt[c] + 1
        /\ \A d \in Clients \ {c} : phase'[d] = phase[d] /\ attempt'[d] = attempt[d]
        /\ attempt[c] \in Nat /\ attempt[c] < MaxAttempts[c]
    BY DEF Retry, ClientInv, ClientTypeOK, Progress
  <1>2. /\ OutcomeNow[c] = OutcomeOf("asking") /\ AskedNow[c] = AskedOf("asking", attempt[c])
        /\ OutcomeNow' = [OutcomeNow EXCEPT ![c] = OutcomeOf("sleeping")]
        /\ AskedNow' = [AskedNow EXCEPT ![c] = AskedOf("sleeping", attempt[c] + 1)]
    BY <1>1, SeenStep
  <1>3. /\ AskedOf("asking", attempt[c]) = attempt[c]
        /\ AskedOf("sleeping", attempt[c] + 1) = attempt[c] + 1
    BY DEF AskedOf
  <1>4. UNCHANGED OutcomeNow
    BY <1>2, OutcomeValues DEF OutcomeNow
  <1> QED BY <1>1, <1>2, <1>3, <1>4, OutcomeValues DEF Abstract!Request

LEMMA AskIsRequest ==
  ASSUME ClientInv, NEW c \in Clients, Ask(c)
  PROVE  Abstract!Request(c)
  BY EndIsRequest, RetryIsRequest
  DEF Ask, Completion, NoJson, Overrun, Refuse, Fault

LEMMA BeginIsBegin ==
  ASSUME ClientInv, NEW c \in Clients, Begin(c)
  PROVE  Abstract!Begin(c)
  <1>1. /\ phase'[c] = "asking" /\ attempt'[c] = 0
        /\ \A d \in Clients \ {c} : phase'[d] = phase[d] /\ attempt'[d] = attempt[d]
        /\ phase[c] \in {"none", "answered", "gave_up", "raised"}
    BY DEF Begin, Ended, ClientInv, ClientTypeOK
  <1>2. /\ OutcomeNow[c] = OutcomeOf(phase[c])
        /\ OutcomeNow' = [OutcomeNow EXCEPT ![c] = OutcomeOf("asking")]
        /\ AskedNow' = [AskedNow EXCEPT ![c] = AskedOf("asking", 0)]
    BY <1>1, SeenStep
  <1>3. AskedOf("asking", 0) = 0
    BY DEF AskedOf
  <1>4. OutcomeNow[c] # "pending"
    BY <1>1, <1>2, OutcomeValues
  <1> QED BY <1>2, <1>3, <1>4, OutcomeValues DEF Abstract!Begin

(* Going round the loop is invisible, the RuntimeError after it is not.    *)
LEMMA WakeIsExhaust ==
  ASSUME ClientInv, NEW c \in Clients, Wake(c)
  PROVE  Abstract!Exhaust(c) \/ UNCHANGED Abstract!callVars
  <1>1. /\ phase[c] = "sleeping" /\ attempt[c] \in Nat /\ attempt[c] <= MaxAttempts[c]
        /\ MaxAttempts[c] \in Nat /\ attempt'[c] = attempt[c]
        /\ phase'[c] = IF attempt[c] < MaxAttempts[c] THEN "asking" ELSE "gave_up"
    BY Numbers DEF Wake, ClientInv, ClientTypeOK
  <1>2. /\ OutcomeNow[c] = OutcomeOf("sleeping") /\ AskedNow[c] = AskedOf("sleeping", attempt[c])
        /\ OutcomeNow' = [OutcomeNow EXCEPT ![c] = OutcomeOf(phase'[c])]
        /\ AskedNow' = [AskedNow EXCEPT ![c] = AskedOf(phase'[c], attempt[c])]
    <2>1. \A d \in Clients \ {c} : phase'[d] = phase[d] /\ attempt'[d] = attempt[d]
      BY DEF Wake, ClientInv, ClientTypeOK
    <2> QED BY <1>1, <2>1, SeenStep
  <1>3. /\ AskedOf("sleeping", attempt[c]) = attempt[c]
        /\ AskedOf(phase'[c], attempt[c]) = attempt[c]
    BY <1>1 DEF AskedOf
  <1>4. UNCHANGED AskedNow
    BY <1>2, <1>3 DEF AskedNow
  <1>5. CASE attempt[c] < MaxAttempts[c]
    <2>1. UNCHANGED OutcomeNow
      BY <1>1, <1>2, <1>5, OutcomeValues DEF OutcomeNow
    <2> QED BY <1>4, <2>1 DEF Abstract!callVars
  <1>6. CASE attempt[c] = MaxAttempts[c]
    <2>1. phase'[c] = "gave_up"
      BY <1>1, <1>6
    <2> QED BY <1>2, <1>3, <1>4, <1>6, <2>1, OutcomeValues DEF Abstract!Exhaust
  <1> QED BY <1>1, <1>5, <1>6

LEMMA NextIsCall == ClientInv /\ [ClientNext]_clientVars => [Abstract!Next]_Abstract!callVars
  <1> SUFFICES ASSUME ClientInv, [ClientNext]_clientVars PROVE [Abstract!Next]_Abstract!callVars
    OBVIOUS
  <1>1. ASSUME NEW c \in Clients, Begin(c) \/ Ask(c) \/ Wake(c)
        PROVE  [Abstract!Next]_Abstract!callVars
    BY <1>1, BeginIsBegin, AskIsRequest, WakeIsExhaust DEF Abstract!Next
  <1>2. CASE Tick \/ UNCHANGED clientVars
    <2>1. phase' = phase /\ attempt' = attempt
      BY <1>2 DEF Tick, clientVars
    <2> QED BY <2>1 DEF Abstract!callVars, OutcomeNow, AskedNow
  <1> QED BY <1>1, <1>2 DEF ClientNext

(* A client keeps the safety part of ModelCall: it asks MAX_ATTEMPTS times *)
(* at most, then answers or fails, whoever shares the account (vlm_call.py:*)
(* 166-195, vlm_client.py:61-79, llm.py:37-60, judge.py:44-63).            *)
THEOREM ClientImplementsCall == ClientSpec => Abstract!Spec
  <1>1. ClientInit => Abstract!Init
    BY OutcomeValues DEF ClientInit, Abstract!Init, OutcomeNow, AskedNow, AskedOf
  <1> QED BY <1>1, InitClientInv, NextClientInv, NextIsCall, PTL DEF ClientSpec, Abstract!Spec

=============================================================================
