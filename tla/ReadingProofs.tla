---------------------------- MODULE ReadingProofs ----------------------------
(* How a document is read and what it is taken for, proved: the three locks   *)
(* of the readers and their progress record (Ocr.tla), for any number of      *)
(* uploads, workers and exports and documents of any length; and the verdict  *)
(* the classifier gives a document (Routing.tla), for any registry files,     *)
(* pages and answers.  The facts about numbers, lists and templates that the  *)
(* proofs about what stands in a document need too are here.                  *)
EXTENDS Ocr, Routing, TLAPS, FiniteSetTheorems

-----------------------------------------------------------------------------
(* Reading.                                                                   *)

\* Where a thread's pages stand, and what an export never does.
PagesOf(t) ==
    /\ phase[t] \in {"idle", "count", "counting", "load", "loading", "open", "opening", "queue"}
         => index[t] = 0
    /\ phase[t] \in {"count", "counting", "load", "loading", "open", "opening", "queue"}
         => doc[t].pages > 0
    /\ phase[t] = "page" => index[t] <= doc[t].pages
    /\ phase[t] \in {"render", "rendering", "read"} => index[t] < doc[t].pages
    /\ t \in Exports =>
         /\ doc[t].kind # "image"
         /\ phase[t] \in {"idle", "open", "opening", "render", "rendering", "close", "closing"}
PagesOK == \A t \in Threads : PagesOf(t)

\* The record belongs to the upload that has the turn, from its first page on.
RecordOK ==
    \A t \in Uploads : phase[t] \in InTurn =>
        /\ progress.filename = t /\ progress.total = doc[t].pages
        /\ phase[t] # "page" => progress.page = index[t] + 1

IInv == TypeOK /\ LocksHeld /\ PagesOK /\ RecordOK /\ ActiveMeansWork

-----------------------------------------------------------------------------
(* Types, and the pages that bound the counters.                              *)

\* The types hold at the start.
LEMMA InitType == OcrInit => TypeOK /\ PagesOK
  BY OcrAssumption DEF OcrInit, TypeOK, PagesOK, PagesOf, NoDoc, Kinds, Labels, InPdfium, InTurn

Docs == [kind : Kinds \cup {"none"}, pages : 0..MaxPages, open : BOOLEAN]

\* A document that is done with leaves nothing behind.
LEMMA EndType ==
    ASSUME TypeOK, NEW t \in Threads, End(t)
    PROVE  /\ phase' = [phase EXCEPT ![t] = "idle"] /\ phase' \in [Threads -> Labels]
           /\ doc' \in [Threads -> Docs] /\ index' \in [Threads -> 0..MaxPages]
<1>1. NoDoc \in Docs
  BY OcrAssumption DEF NoDoc, Docs
<1>2. doc \in [Threads -> Docs] /\ index \in [Threads -> 0..MaxPages] /\ 0 \in 0..MaxPages
  BY OcrAssumption DEF TypeOK, Docs
<1>3. doc' = [doc EXCEPT ![t] = NoDoc] /\ index' = [index EXCEPT ![t] = 0]
  BY DEF End
<1> QED
  BY <1>1, <1>2, <1>3 DEF End, Go, TypeOK, Labels

\* The steps after which a document may be done with keep the types.
LEMMA MayEndType ==
    ASSUME TypeOK, NEW t \in Threads, Counted(t) \/ Load(t) \/ Opened(t) \/ Finally(t)
    PROVE  TypeOK'
<1> DEFINE Placed == /\ phase' \in [Threads -> Labels] /\ doc' \in [Threads -> Docs]
                     /\ index' \in [Threads -> 0..MaxPages]
<1>1. CASE Counted(t)
  <2>1. Placed
    <3>1. CASE Go(t, "load") /\ UNCHANGED <<doc, index>>
      BY <3>1 DEF Go, TypeOK, Labels, Docs
    <3>2. CASE End(t)
      BY <3>2, EndType
    <3> QED
      BY <1>1, <3>1, <3>2 DEF Counted
  <2> QED
    BY <1>1, <2>1 DEF Counted, LeavePdfium, TypeOK, Docs
<1>2. CASE Load(t)
  <2>1. Placed
    <3>1. CASE Go(t, "open") /\ UNCHANGED <<doc, index>>
      BY <3>1 DEF Go, TypeOK, Labels, Docs
    <3>2. CASE End(t)
      BY <3>2, EndType
    <3> QED
      BY <1>2, <3>1, <3>2 DEF Load
  <2>2. state' \in [rec : BOOLEAN, status : {"not_loaded", "ready", "error"}]
    <3> DEFINE States == [rec : BOOLEAN, status : {"not_loaded", "ready", "error"}]
    <3>1. /\ [rec |-> TRUE, status |-> "ready"] \in States
          /\ [rec |-> FALSE, status |-> "error"] \in States
      OBVIOUS
    <3>2. state \in States
      BY DEF TypeOK
    <3> HIDE DEF States
    <3>3. state' \in States
      BY <1>2, <3>1, <3>2 DEF Load
    <3> QED
      BY <3>3 DEF States
  <2> QED
    BY <1>2, <2>1, <2>2 DEF Load, TypeOK, Docs
<1>3. CASE Opened(t)
  <2>1. Placed
    <3>1. CASE End(t)
      BY <3>1, EndType
    <3>2. CASE ~End(t)
      <4>1. UNCHANGED index /\ doc' = [doc EXCEPT ![t].open = doc[t].kind = "pdf"]
        BY <1>3, <3>2 DEF Opened
      <4>2. \E to \in Labels : phase' = [phase EXCEPT ![t] = to]
        BY <1>3, <3>2 DEF Opened, Go, Labels, InPdfium, InTurn
      <4>3. doc' \in [Threads -> Docs]
        <5>1. doc \in [Threads -> Docs]
          BY DEF TypeOK, Docs
        <5>2. [doc[t] EXCEPT !.open = doc[t].kind = "pdf"] \in Docs
          BY <5>1 DEF Docs
        <5> QED
          BY <4>1, <5>1, <5>2
      <4> QED
        BY <4>1, <4>2, <4>3 DEF TypeOK
    <3> QED
      BY <3>1, <3>2
  <2> QED
    BY <1>3, <2>1 DEF Opened, LeavePdfium, TypeOK, Docs
<1>4. CASE Finally(t)
  <2>1. Placed
    <3>1. CASE Go(t, "close") /\ UNCHANGED <<doc, index>>
      BY <3>1 DEF Go, TypeOK, Labels, Docs
    <3>2. CASE End(t)
      BY <3>2, EndType
    <3> QED
      BY <1>4, <3>1, <3>2 DEF Finally
  <2> QED
    BY <1>4, <2>1 DEF Finally, TypeOK, Docs
<1> QED
  BY <1>1, <1>2, <1>3, <1>4

\* Every step keeps the types and the bounds on pages.
LEMMA StepType ==
    ASSUME TypeOK, PagesOK, NEW t \in Threads, Start(t) \/ Step(t)
    PROVE  TypeOK' /\ PagesOK'
<1> USE OcrAssumption DEF TypeOK, PagesOK, PagesOf, Labels, InPdfium, InTurn, Kinds, NoDoc,
        Threads, Readers, Go, End, EnterPdfium, LeavePdfium, IsPdf
<1>1. CASE Start(t)
  BY <1>1 DEF Start
<1>2. CASE Count(t)
  BY <1>2 DEF Count
<1>3. CASE Counted(t)
  <2>1. TypeOK'
    BY <1>3, MayEndType
  <2>2. PagesOK'
    BY <1>3 DEF Counted
  <2> QED
    BY <2>1, <2>2
<1>4. CASE HasRecognizer(t)
  BY <1>4 DEF HasRecognizer
<1>5. CASE TakeLoad(t)
  BY <1>5 DEF TakeLoad
<1>6. CASE Load(t)
  <2>1. TypeOK'
    BY <1>6, MayEndType
  <2>2. PagesOK'
    BY <1>6 DEF Load
  <2> QED
    BY <2>1, <2>2
<1>7. CASE Open(t)
  BY <1>7 DEF Open
<1>8. CASE Opened(t)
  <2>1. TypeOK'
    BY <1>8, MayEndType
  <2>2. PagesOK'
    BY <1>8 DEF Opened
  <2> QED
    BY <2>1, <2>2
<1>9. CASE OpenImage(t)
  BY <1>9 DEF OpenImage
<1>10. CASE TakeTurn(t)
  BY <1>10 DEF TakeTurn, Shown, Record
<1>11. CASE Page(t)
  BY <1>11 DEF Page, Shown
<1>12. CASE Render(t)
  BY <1>12 DEF Render
<1>13. CASE Rendered(t)
  BY <1>13 DEF Rendered
<1>14. CASE Read(t)
  BY <1>14 DEF Read
<1>15. CASE LastPage(t)
  BY <1>15 DEF LastPage
<1>16. CASE Finally(t)
  <2>1. TypeOK'
    BY <1>16, MayEndType
  <2>2. PagesOK'
    BY <1>16 DEF Finally, Clears
  <2> QED
    BY <2>1, <2>2
<1>17. CASE Close(t)
  BY <1>17 DEF Close
<1>18. CASE Closed(t)
  BY <1>18 DEF Closed
<1> QED
  BY <1>1, <1>2, <1>3, <1>4, <1>5, <1>6, <1>7, <1>8, <1>9, <1>10, <1>11, <1>12, <1>13, <1>14,
     <1>15, <1>16, <1>17, <1>18 DEF Step

-----------------------------------------------------------------------------
(* The locks.                                                                 *)

\* Every step keeps each lock with the thread whose place says it holds it.
LEMMA StepLocks ==
    ASSUME TypeOK, PagesOK, LocksHeld, NEW t \in Threads, Start(t) \/ Step(t)
    PROVE  LocksHeld'
<1> USE OcrAssumption DEF TypeOK, PagesOK, PagesOf, LocksHeld, Labels, InPdfium, InTurn,
        Threads, Readers, Go, End, EnterPdfium, LeavePdfium, PdfiumFree, IsPdf
<1>1. CASE Start(t)
  BY <1>1 DEF Start
<1>2. CASE Count(t)
  BY <1>2 DEF Count
<1>3. CASE Counted(t)
  BY <1>3 DEF Counted
<1>4. CASE HasRecognizer(t)
  BY <1>4 DEF HasRecognizer
<1>5. CASE TakeLoad(t)
  BY <1>5 DEF TakeLoad
<1>6. CASE Load(t)
  BY <1>6 DEF Load
<1>7. CASE Open(t)
  BY <1>7 DEF Open
<1>8. CASE Opened(t)
  BY <1>8 DEF Opened
<1>9. CASE OpenImage(t)
  BY <1>9 DEF OpenImage
<1>10. CASE TakeTurn(t)
  BY <1>10 DEF TakeTurn, Shown, Record
<1>11. CASE Page(t)
  BY <1>11 DEF Page, Shown
<1>12. CASE Render(t)
  BY <1>12 DEF Render
<1>13. CASE Rendered(t)
  BY <1>13 DEF Rendered
<1>14. CASE Read(t)
  BY <1>14 DEF Read
<1>15. CASE LastPage(t)
  BY <1>15 DEF LastPage
<1>16. CASE Finally(t)
  BY <1>16 DEF Finally, Clears
<1>17. CASE Close(t)
  BY <1>17 DEF Close
<1>18. CASE Closed(t)
  BY <1>18 DEF Closed
<1> QED
  BY <1>1, <1>2, <1>3, <1>4, <1>5, <1>6, <1>7, <1>8, <1>9, <1>10, <1>11, <1>12, <1>13, <1>14,
     <1>15, <1>16, <1>17, <1>18 DEF Step

-----------------------------------------------------------------------------
(* The progress record.                                                       *)

\* Every step keeps the record about the running upload.
LEMMA StepRecord ==
    ASSUME TypeOK, PagesOK, LocksHeld, RecordOK, NEW t \in Threads, Start(t) \/ Step(t)
    PROVE  RecordOK'
<1> USE OcrAssumption DEF TypeOK, PagesOK, PagesOf, LocksHeld, RecordOK, Labels, InPdfium,
        InTurn, Threads, Readers, Go, End, EnterPdfium, LeavePdfium, PdfiumFree, IsPdf
<1>1. CASE Start(t)
  BY <1>1 DEF Start
<1>2. CASE Count(t)
  BY <1>2 DEF Count
<1>3. CASE Counted(t)
  BY <1>3 DEF Counted
<1>4. CASE HasRecognizer(t)
  BY <1>4 DEF HasRecognizer
<1>5. CASE TakeLoad(t)
  BY <1>5 DEF TakeLoad
<1>6. CASE Load(t)
  BY <1>6 DEF Load
<1>7. CASE Open(t)
  BY <1>7 DEF Open
<1>8. CASE Opened(t)
  BY <1>8 DEF Opened
<1>9. CASE OpenImage(t)
  BY <1>9 DEF OpenImage
<1>10. CASE TakeTurn(t)
  BY <1>10 DEF TakeTurn, Shown, Record
<1>11. CASE Page(t)
  BY <1>11 DEF Page, Shown
<1>12. CASE Render(t)
  BY <1>12 DEF Render
<1>13. CASE Rendered(t)
  BY <1>13 DEF Rendered
<1>14. CASE Read(t)
  BY <1>14 DEF Read
<1>15. CASE LastPage(t)
  BY <1>15 DEF LastPage
<1>16. CASE Finally(t)
  BY <1>16 DEF Finally, Clears
<1>17. CASE Close(t)
  BY <1>17 DEF Close
<1>18. CASE Closed(t)
  BY <1>18 DEF Closed
<1> QED
  BY <1>1, <1>2, <1>3, <1>4, <1>5, <1>6, <1>7, <1>8, <1>9, <1>10, <1>11, <1>12, <1>13, <1>14,
     <1>15, <1>16, <1>17, <1>18 DEF Step

\* Every step keeps an active record owned by a thread that will switch it off.
LEMMA StepActive ==
    ASSUME TypeOK, PagesOK, LocksHeld, ActiveMeansWork, NEW t \in Threads, Start(t) \/ Step(t)
    PROVE  ActiveMeansWork'
<1> USE OcrAssumption DEF TypeOK, PagesOK, PagesOf, LocksHeld, ActiveMeansWork, Labels, InPdfium,
        InTurn, Threads, Readers, Go, End, EnterPdfium, LeavePdfium, PdfiumFree, IsPdf
<1>1. CASE Start(t)
  BY <1>1 DEF Start
<1>2. CASE Count(t)
  BY <1>2 DEF Count
<1>3. CASE Counted(t)
  BY <1>3 DEF Counted
<1>4. CASE HasRecognizer(t)
  BY <1>4 DEF HasRecognizer
<1>5. CASE TakeLoad(t)
  BY <1>5 DEF TakeLoad
<1>6. CASE Load(t)
  BY <1>6 DEF Load
<1>7. CASE Open(t)
  BY <1>7 DEF Open
<1>8. CASE Opened(t)
  BY <1>8 DEF Opened
<1>9. CASE OpenImage(t)
  BY <1>9 DEF OpenImage
<1>10. CASE TakeTurn(t)
  BY <1>10 DEF TakeTurn, Shown, Record
<1>11. CASE Page(t)
  BY <1>11 DEF Page, Shown
<1>12. CASE Render(t)
  BY <1>12 DEF Render
<1>13. CASE Rendered(t)
  BY <1>13 DEF Rendered
<1>14. CASE Read(t)
  BY <1>14 DEF Read
<1>15. CASE LastPage(t)
  BY <1>15 DEF LastPage
<1>16. CASE Finally(t)
  BY <1>16 DEF Finally, Clears
<1>17. CASE Close(t)
  BY <1>17 DEF Close
<1>18. CASE Closed(t)
  BY <1>18 DEF Closed
<1> QED
  BY <1>1, <1>2, <1>3, <1>4, <1>5, <1>6, <1>7, <1>8, <1>9, <1>10, <1>11, <1>12, <1>13, <1>14,
     <1>15, <1>16, <1>17, <1>18 DEF Step

-----------------------------------------------------------------------------
(* The invariant and what follows from it.                                    *)

\* The invariant holds at the start.
LEMMA InitInv == OcrInit => IInv
<1> SUFFICES ASSUME OcrInit PROVE IInv
  OBVIOUS
<1>1. TypeOK /\ PagesOK
  BY InitType
<1>2. LocksHeld
  BY OcrAssumption DEF OcrInit, LocksHeld, InPdfium, InTurn
<1>3. RecordOK /\ ActiveMeansWork
  BY DEF OcrInit, RecordOK, ActiveMeansWork, InTurn, Threads, Readers
<1> QED
  BY <1>1, <1>2, <1>3 DEF IInv

\* Every step keeps the invariant.
LEMMA NextInv == IInv /\ [OcrNext]_ocrVars => IInv'
<1> SUFFICES ASSUME IInv, [OcrNext]_ocrVars PROVE IInv'
  OBVIOUS
<1>1. CASE OcrNext
  <2> PICK t \in Threads : Start(t) \/ Step(t)
    BY <1>1 DEF OcrNext
  <2> QED
    BY StepType, StepLocks, StepRecord, StepActive DEF IInv
<1>2. CASE UNCHANGED ocrVars
  BY <1>2 DEF ocrVars, IInv, TypeOK, LocksHeld, PagesOK, PagesOf, RecordOK, ActiveMeansWork
<1> QED
  BY <1>1, <1>2

\* The invariant always holds.
LEMMA Invariant == OcrSpec => []IInv
  BY InitInv, NextInv, PTL DEF OcrSpec

\* Every variable keeps its type.
THEOREM TypeCorrect == OcrSpec => []TypeOK
<1>1. IInv => TypeOK
  BY DEF IInv
<1> QED
  BY <1>1, Invariant, PTL

\* Each of the three locks is held exactly between being taken and given back,
\* however a document's reading ends.
THEOREM LocksCorrect == OcrSpec => []LocksHeld
<1>1. IInv => LocksHeld
  BY DEF IInv
<1> QED
  BY <1>1, Invariant, PTL

\* PDFium never has two threads inside it.
THEOREM AloneInPdfium == OcrSpec => []PdfiumAlone
<1>1. IInv => PdfiumAlone
  BY DEF IInv, LocksHeld, PdfiumAlone
<1> QED
  BY <1>1, Invariant, PTL

\* What the browser is told of a running extraction is about the document and
\* the page being read.
THEOREM RecordIsTrue == OcrSpec => []ProgressIsTrue
<1>1. IInv => ProgressIsTrue
  BY DEF IInv, RecordOK, ProgressIsTrue, ProgressIsOwn
<1> QED
  BY <1>1, Invariant, PTL

-----------------------------------------------------------------------------
(* Helpers: least numbers, greatest numbers, quotients.                       *)

(* A set of naturals that is not empty has a least element.                   *)
LEMMA LeastNumber ==
    ASSUME NEW T \in SUBSET Nat, T # {}
    PROVE  \E x \in T : \A y \in T : x <= y
<1> DEFINE R == OpToRel(<, Nat)
<1>1. IsWellFoundedOn(R, Nat)
  BY NatLessThanWellFounded
<1>2. \A x, y \in T : <<y, x>> \in R <=> y < x
  BY DEF OpToRel
<1> HIDE DEF R
<1>3. PICK x \in T : \A y \in T : ~ (<<y, x>> \in R)
  BY <1>1, WFMin
<1>4. \A y \in T : ~(y < x)
  BY <1>2, <1>3, Zenon
<1> QED
  BY <1>4

(* What Min chooses.                                                          *)
LEMMA MinIs ==
    ASSUME NEW S \in SUBSET Nat, S # {}
    PROVE  Min(S) \in S /\ \A y \in S : Min(S) <= y
  BY LeastNumber DEF Min

(* What Max chooses of two numbers.                                           *)
LEMMA MaxOfTwo ==
    ASSUME NEW a \in Int, NEW b \in Int
    PROVE  Max({a, b}) = IF a >= b THEN a ELSE b
<1>1. \E x \in {a, b} : \A y \in {a, b} : x >= y
  OBVIOUS
<1>2. Max({a, b}) \in {a, b} /\ \A y \in {a, b} : Max({a, b}) >= y
  BY <1>1, Zenon DEF Max
<1> QED
  BY <1>2

(* What Min chooses of two numbers.                                           *)
LEMMA MinOfTwo ==
    ASSUME NEW a \in Int, NEW b \in Int
    PROVE  Min({a, b}) = IF a <= b THEN a ELSE b
<1>1. \E x \in {a, b} : \A y \in {a, b} : x <= y
  OBVIOUS
<1>2. Min({a, b}) \in {a, b} /\ \A y \in {a, b} : Min({a, b}) <= y
  BY <1>1, Zenon DEF Min
<1> QED
  BY <1>2

(* A part of a whole, in ten-thousandths.                                     *)
LEMMA PartOfWhole ==
    ASSUME NEW part \in Nat, NEW whole \in Nat \ {0}, part <= whole
    PROVE  /\ (part * One) \div whole \in 0..One
           /\ part = 0 => (part * One) \div whole = 0
<1> DEFINE p == part * One
           q == p \div whole
<1>1. p \in Nat /\ p <= One * whole /\ (part = 0 => p = 0)
  BY DEF One
<1> HIDE DEF p
<1>2. q \in Int /\ whole * q <= p /\ p < whole * (q + 1)
  BY <1>1
<1> HIDE DEF q
<1>3. q >= 0
  <2> SUFFICES ASSUME q + 1 <= 0 PROVE FALSE
    BY <1>2
  <2>1. whole * (q + 1) <= 0
    BY <1>2
  <2> QED
    BY <1>1, <1>2, <2>1
<1>4. q <= One
  <2> SUFFICES ASSUME q >= One + 1 PROVE FALSE
    BY <1>2 DEF One
  <2>1. whole * q >= whole * (One + 1)
    BY <1>2 DEF One
  <2> QED
    BY <1>1, <1>2, <2>1 DEF One
<1>5. p = 0 => q = 0
  <2> SUFFICES ASSUME p = 0, q >= 1 PROVE FALSE
    BY <1>2, <1>3
  <2>1. whole * q >= whole
    BY <1>2
  <2> QED
    BY <1>2, <2>1
<1> QED
  BY <1>1, <1>3, <1>4, <1>5, <1>2 DEF q, p, One

-----------------------------------------------------------------------------
(* Scores.                                                                    *)

(* The group and number pairs a hit scores.                                   *)
Points(h) == {GroupOf(h)} \X (1..h.weight)

(* A finite set's image under a function is finite.                           *)
LEMMA ImageIsFinite ==
    ASSUME NEW S, IsFiniteSet(S), NEW f, f = [x \in S |-> f[x]]
    PROVE  IsFiniteSet({f[x] : x \in S})
<1>1. f \in Surjection(S, {f[x] : x \in S})
  BY DEF Surjection
<1> QED
  BY <1>1, FS_Surjection

(* Finitely many hits with whole weights score a number.                      *)
LEMMA PointsFinite ==
    ASSUME NEW hits, IsFiniteSet(hits), \A h \in hits : h.weight \in Int
    PROVE  /\ IsFiniteSet(UNION {Points(h) : h \in hits})
           /\ MaxPerGroup(hits) = Cardinality(UNION {Points(h) : h \in hits})
           /\ MaxPerGroup(hits) \in Nat
<1> DEFINE f == [h \in hits |-> Points(h)]
           P == {f[h] : h \in hits}
<1>1. IsFiniteSet(P)
  BY ImageIsFinite
<1>2. P = {Points(h) : h \in hits}
  OBVIOUS
<1>3. ASSUME NEW h \in hits PROVE IsFiniteSet(Points(h))
  <2>1. IsFiniteSet({GroupOf(h)})
    BY FS_Singleton
  <2>2. h.weight \in Int /\ 1 \in Int
    OBVIOUS
  <2>3. IsFiniteSet(1..h.weight)
    BY <2>2, FS_Interval
  <2> QED
    BY <2>1, <2>3, FS_Product DEF Points
<1>4. \A x \in P : IsFiniteSet(x)
  BY <1>3
<1> HIDE DEF P
<1>5. IsFiniteSet(UNION P)
  BY <1>1, <1>4, FS_UNION
<1>6. MaxPerGroup(hits) = Cardinality(UNION {Points(h) : h \in hits})
  BY DEF MaxPerGroup, Points
<1>7. Cardinality(UNION P) \in Nat
  BY <1>5, FS_CardinalityType
<1> QED
  BY <1>2, <1>5, <1>6, <1>7

(* Fewer hits score no more, and none score nothing.                          *)
LEMMA PointsGrow ==
    ASSUME NEW all, IsFiniteSet(all), \A h \in all : h.weight \in Int,
           NEW some \in SUBSET all
    PROVE  /\ MaxPerGroup(some) \in Nat /\ MaxPerGroup(all) \in Nat
           /\ MaxPerGroup(some) <= MaxPerGroup(all)
           /\ some = {} => MaxPerGroup(some) = 0
<1>1. IsFiniteSet(some)
  BY FS_Subset
<1> DEFINE A == UNION {Points(h) : h \in all}
           B == UNION {Points(h) : h \in some}
<1>2. /\ IsFiniteSet(A) /\ MaxPerGroup(all) = Cardinality(A) /\ MaxPerGroup(all) \in Nat
      /\ IsFiniteSet(B) /\ MaxPerGroup(some) = Cardinality(B) /\ MaxPerGroup(some) \in Nat
  BY <1>1, PointsFinite
<1>3. B \in SUBSET A /\ (some = {} => B = {})
  OBVIOUS
<1> HIDE DEF A, B
<1>4. Cardinality(B) <= Cardinality(A)
  BY <1>2, <1>3, FS_Subset
<1> QED
  BY <1>2, <1>3, <1>4, FS_EmptySet

(* What the loader makes of a template scores by finitely many rules.         *)
Scorable(t) ==
    /\ IsFiniteSet(t.anchors) /\ IsFiniteSet(t.anchor_regexes)
    /\ IsFiniteSet(t.negative_anchors)
    /\ \A a \in t.anchors : a.weight \in Int /\ a.window \in Int
    /\ \A r \in t.anchor_regexes : r.weight \in Int

(* A score is a part of one, and a page on which nothing fires scores none.   *)
LEMMA ScoreIs ==
    ASSUME NEW pages, NEW t, NEW someReg, Scorable(t)
    PROVE  /\ score_template(pages, t, someReg) \in Int
           /\ score_template(pages, t, someReg) \in 0..One
           /\ Hits(pages, t, someReg) = {} => score_template(pages, t, someReg) = 0
<1> DEFINE all == scoring_anchors(t) \cup t.anchor_regexes
           hits == Hits(pages, t, someReg)
           ceiling == Max({1, max_possible_score(t)})
           score == (Raw(hits) * One) \div ceiling
           negatives == {n \in t.negative_anchors : _iter_hits(pages, n) # {}}
           off == Penalty(Cardinality(negatives))
<1>1. IsFiniteSet(all) /\ \A h \in all : h.weight \in Int
  <2>1. scoring_anchors(t) \in SUBSET t.anchors
    BY DEF scoring_anchors
  <2>2. IsFiniteSet(scoring_anchors(t))
    BY <2>1, FS_Subset DEF Scorable
  <2> QED
    BY <2>1, <2>2, FS_Union DEF Scorable
<1>2. hits \in SUBSET all
  BY DEF Hits
<1>3. /\ Raw(hits) \in Nat /\ max_possible_score(t) \in Nat
      /\ Raw(hits) <= max_possible_score(t) /\ (hits = {} => Raw(hits) = 0)
  <2> HIDE DEF all, hits
  <2> QED
    BY <1>1, <1>2, PointsGrow DEF Raw, max_possible_score, all
<1>4. ceiling \in Nat \ {0} /\ Raw(hits) <= ceiling
  BY <1>3, MaxOfTwo
<1>5. score \in 0..One /\ (hits = {} => score = 0)
  <2> HIDE DEF hits, ceiling
  <2> QED
    BY <1>3, <1>4, PartOfWhole
<1>6. IsFiniteSet(negatives)
  BY FS_Subset DEF Scorable
<1>7. Cardinality(negatives) \in Nat
  BY <1>6, FS_CardinalityType
<1>8. off \in 0..6000
  <2> DEFINE n == Cardinality(negatives)
  <2>1. n \in Nat /\ off = Min({3000 * n, 6000})
    BY <1>7 DEF Penalty
  <2> HIDE DEF n, off
  <2>2. Min({3000 * n, 6000}) = IF 3000 * n <= 6000 THEN 3000 * n ELSE 6000
    BY <2>1, MinOfTwo
  <2> QED
    BY <2>1, <2>2
<1>9. score_template(pages, t, someReg) = (score * (One - off)) \div One
  BY DEF score_template
<1> HIDE DEF score, off, hits
<1>10. (score * (One - off)) \in Nat /\ score * (One - off) <= score * One
  BY <1>5, <1>8 DEF One
<1>11. (score * (One - off)) \div One \in 0..score
  <2> DEFINE p == score * (One - off)
  <2>1. p \in Nat /\ p <= score * 10000 /\ score \in Nat
    BY <1>10, <1>5 DEF One
  <2> HIDE DEF p
  <2>2. p \div 10000 \in 0..score
    BY <2>1
  <2> QED
    BY <2>2 DEF One, p
<1>12. score \in 0..One /\ (hits = {} => score = 0)
  BY <1>5
<1>13. score_template(pages, t, someReg) \in 0..score
  BY <1>9, <1>11
<1>14. score_template(pages, t, someReg) \in Int /\ score_template(pages, t, someReg) \in 0..One
  <2> DEFINE x == score_template(pages, t, someReg)
  <2>1. x \in 0..score
    BY <1>13
  <2> HIDE DEF x
  <2>3. score \in Int /\ One \in Int /\ score <= One
    BY <1>12 DEF One
  <2>2. x \in Int /\ x \in 0..One
    BY <2>1, <2>3
  <2> QED
    BY <2>2 DEF x
<1>15. hits = {} => score_template(pages, t, someReg) = 0
  BY <1>12, <1>13
<1> QED
  BY <1>14, <1>15 DEF hits

-----------------------------------------------------------------------------
(* Ranking.                                                                   *)

(* Every member of a set is where its rank puts it.                           *)
LEMMA OrderedIs ==
    ASSUME NEW S, IsFiniteSet(S), NEW place \in [S -> 1..Cardinality(S)],
           \A x, y \in S : place[x] = place[y] => x = y
    PROVE  \A p \in 1..Cardinality(S) : \E x \in S : place[x] = p
<1> DEFINE n == Cardinality(S)
<1>1. n \in Nat
  BY FS_CardinalityType
<1>2. IsFiniteSet(1..n) /\ Cardinality(1..n) = n
  <2> HIDE DEF n
  <2>1. 1 \in Int /\ n \in Int /\ (IF 1 > n THEN 0 ELSE n - 1 + 1) = n
    BY <1>1
  <2> QED
    BY <2>1, FS_Interval
<1>3. place \in Injection(S, 1..n)
  BY DEF Injection, IsInjective
<1>4. place \in Surjection(S, 1..n)
  BY <1>2, <1>3, FS_Injection
<1> QED
  BY <1>4 DEF Surjection

(* A set is put in order by how many of it each member has ahead of it.       *)
LEMMA RankedIs ==
    ASSUME NEW S, IsFiniteSet(S), NEW ahead \in [S -> SUBSET S],
           \A x \in S : x \in ahead[x],
           \A x, y \in S : ahead[x] \subseteq ahead[y] \/ ahead[y] \subseteq ahead[x],
           \A x, y \in S : ahead[x] = ahead[y] => x = y,
           NEW place, place = [x \in S |-> Cardinality(ahead[x])]
    PROVE  \A p \in 1..Cardinality(S) : \E x \in S : place[x] = p
<1>1. ASSUME NEW x \in S
      PROVE  IsFiniteSet(ahead[x]) /\ Cardinality(ahead[x]) \in 1..Cardinality(S)
  <2>1. IsFiniteSet(ahead[x]) /\ Cardinality(ahead[x]) <= Cardinality(S)
    BY FS_Subset
  <2>2. Cardinality(ahead[x]) \in Nat /\ Cardinality(S) \in Nat
    BY <2>1, FS_CardinalityType
  <2>3. Cardinality(ahead[x]) # 0
    BY <2>1, FS_EmptySet
  <2> QED
    BY <2>1, <2>2, <2>3
<1>2. place \in [S -> 1..Cardinality(S)]
  BY <1>1
<1>3. ASSUME NEW x \in S, NEW y \in S, place[x] = place[y], ahead[x] \subseteq ahead[y]
      PROVE  x = y
  <2>1. Cardinality(ahead[x]) = Cardinality(ahead[y])
    BY <1>3
  <2>2. ahead[x] = ahead[y]
    BY <1>1, <1>3, <2>1, FS_Subset
  <2> QED
    BY <2>2
<1>4. \A x, y \in S : place[x] = place[y] => x = y
  BY <1>3
<1> QED
  BY <1>2, <1>4, OrderedIs

(* A registry the ranking can be made with: some templates, each once.        *)
Sound(someReg) ==
    /\ \E n \in Nat \ {0} : DOMAIN someReg.templates = 1..n
    /\ Distinct(someReg.templates)
    /\ \A i \in DOMAIN someReg.templates : Scorable(someReg.templates[i])

(* A place of the ranking is a template's, with the score it has.             *)
Entry(c, pages, someReg) ==
    /\ c.at \in DOMAIN someReg.templates
    /\ c.id = someReg.templates[c.at].id
    /\ c.score = score_template(pages, someReg.templates[c.at], someReg)
    /\ c.score \in Int /\ c.score \in 0..One

(* The ranking has a first place, and every place is a template's.            *)
LEMMA RankIs ==
    ASSUME NEW pages, NEW someReg, Sound(someReg)
    PROVE  /\ 1 \in DOMAIN rank(pages, someReg)
           /\ \A p \in DOMAIN rank(pages, someReg) : Entry(rank(pages, someReg)[p], pages, someReg)
<1> DEFINE D == DOMAIN someReg.templates
           f == [i \in D |-> [id |-> someReg.templates[i].id, at |-> i,
                    score |-> score_template(pages, someReg.templates[i], someReg)]]
           S == Scored(pages, someReg)
           ahead == [c \in S |-> {d \in S : Ahead(d, c)}]
           place == [c \in S |-> Cardinality(ahead[c])]
<1>1. PICK n \in Nat \ {0} : D = 1..n
  BY DEF Sound
<1>2. IsFiniteSet(D) /\ 1 \in D /\ D \subseteq Nat
  <2>1. IsFiniteSet(1..n)
    BY FS_Interval
  <2> QED
    BY <1>1, <2>1
<1>S. S = {f[i] : i \in D}
  BY DEF Scored
<1> HIDE DEF S
<1>3. IsFiniteSet(S)
  <2>1. IsFiniteSet({f[i] : i \in D})
    <3> HIDE DEF D
    <3> QED
      BY <1>2, ImageIsFinite
  <2> QED
    BY <1>S, <2>1, Zenon
<1>4. \A c \in S : Entry(c, pages, someReg)
  <2> SUFFICES ASSUME NEW i \in D PROVE Entry(f[i], pages, someReg)
    BY <1>S
  <2>1. score_template(pages, someReg.templates[i], someReg) \in 0..One /\
        score_template(pages, someReg.templates[i], someReg) \in Int
    BY ScoreIs DEF Sound
  <2> QED
    BY <2>1 DEF Entry
<1>5. ASSUME NEW c \in S PROVE c.score \in Int /\ c.at \in Nat
  <2>1. c.at \in D /\ c.score \in Int
    BY <1>4 DEF Entry
  <2> HIDE DEF D
  <2> QED
    BY <1>2, <2>1
<1>6. ASSUME NEW c \in S, NEW d \in S, c.at = d.at PROVE c = d
  <2>1. \A i \in D : f[i].at = i
    OBVIOUS
  <2>2. PICK i \in D : c = f[i]
    BY <1>S
  <2>3. PICK j \in D : d = f[j]
    BY <1>S
  <2> HIDE DEF f, S
  <2>4. i = j
    BY <1>6, <2>1, <2>2, <2>3
  <2> QED
    BY <2>2, <2>3, <2>4
<1>7. Cardinality(S) \in Nat /\ Cardinality(S) # 0
  <2>1. S # {}
    BY <1>2, <1>S
  <2> HIDE DEF S
  <2> QED
    BY <1>3, <2>1, FS_CardinalityType, FS_EmptySet
<1>8. rank(pages, someReg) = [p \in 1..Cardinality(S) |-> CHOOSE c \in S : PlaceIn(S, c) = p]
  BY DEF rank, S
<1>P. \A c \in S : place[c] = PlaceIn(S, c)
  BY DEF PlaceIn
<1>9. \A p \in 1..Cardinality(S) : \E x \in S : place[x] = p
  <2>1. ahead \in [S -> SUBSET S] /\ \A x \in S : x \in ahead[x]
    <3> HIDE DEF S
    <3>1. \A x \in S : Ahead(x, x)
      BY <1>5 DEF Ahead
    <3> QED
      BY <3>1
  <2>2. \A x, y \in S : ahead[x] \subseteq ahead[y] \/ ahead[y] \subseteq ahead[x]
    <3> SUFFICES ASSUME NEW x \in S, NEW y \in S
                 PROVE  ahead[x] \subseteq ahead[y] \/ ahead[y] \subseteq ahead[x]
      OBVIOUS
    <3> HIDE DEF S
    <3>1. Ahead(x, y) \/ Ahead(y, x)
      BY <1>5 DEF Ahead
    <3>2. \A d \in S : (Ahead(d, x) /\ Ahead(x, y)) => Ahead(d, y)
      BY <1>5 DEF Ahead
    <3>3. \A d \in S : (Ahead(d, y) /\ Ahead(y, x)) => Ahead(d, x)
      BY <1>5 DEF Ahead
    <3> QED
      BY <3>1, <3>2, <3>3
  <2>3. \A x, y \in S : ahead[x] = ahead[y] => x = y
    <3> SUFFICES ASSUME NEW x \in S, NEW y \in S, ahead[x] = ahead[y] PROVE x = y
      OBVIOUS
    <3> HIDE DEF S
    <3>1. x \in ahead[y] /\ y \in ahead[x]
      BY <2>1
    <3>2. Ahead(x, y) /\ Ahead(y, x)
      BY <3>1
    <3>3. x.at = y.at
      BY <1>5, <3>2 DEF Ahead
    <3> QED
      BY <1>6, <3>3
  <2>4. place = [x \in S |-> Cardinality(ahead[x])]
    OBVIOUS
  <2> HIDE DEF S, ahead, place
  <2> QED
    BY <1>3, <2>1, <2>2, <2>3, <2>4, RankedIs
<1> HIDE DEF S, place
<1>10. \A p \in 1..Cardinality(S) : rank(pages, someReg)[p] \in S
  BY <1>8, <1>9, <1>P
<1> QED
  BY <1>4, <1>7, <1>8, <1>10

-----------------------------------------------------------------------------
(* What the loader hands over.                                                *)

(* A list has finitely many members.                                          *)
LEMMA ListIsFinite ==
    ASSUME NEW s, IsList(s)
    PROVE  /\ DOMAIN s = 1..Len(s) /\ Len(s) \in Nat
           /\ IsFiniteSet(Range(s)) /\ Range(s) = {s[i] : i \in DOMAIN s}
<1>1. s \in Seq(Range(s)) /\ Range(s) = {s[i] : i \in DOMAIN s}
  BY DEF IsList, Range
<1>2. DOMAIN s = 1..Len(s) /\ Len(s) \in Nat /\ s = [i \in DOMAIN s |-> s[i]]
  <2> DEFINE R == Range(s)
  <2>1. s \in Seq(R)
    BY <1>1
  <2> HIDE DEF R
  <2> QED
    BY <2>1
<1>3. IsFiniteSet(DOMAIN s)
  <2> DEFINE n == Len(s)
  <2>1. n \in Int /\ 1 \in Int /\ DOMAIN s = 1..n
    BY <1>2
  <2> HIDE DEF n
  <2> QED
    BY <2>1, FS_Interval
<1>4. IsFiniteSet({s[i] : i \in DOMAIN s})
  BY <1>2, <1>3, ImageIsFinite
<1> QED
  BY <1>1, <1>2, <1>4

(* A list has finitely many positions.                                        *)
LEMMA ListHasFew ==
    ASSUME NEW s, IsList(s) PROVE IsFiniteSet(DOMAIN s)
<1> DEFINE n == Len(s)
<1>1. DOMAIN s = 1..n /\ n \in Nat
  BY ListIsFinite
<1>2. 1 \in Int /\ n \in Int
  BY <1>1
<1> HIDE DEF n
<1>3. IsFiniteSet(1..n)
  BY <1>2, FS_Interval
<1> QED
  BY <1>1, <1>3

(* A template that loads scores by finitely many rules.                       *)
LEMMA TemplateIsScorable ==
    ASSUME NEW raw \in RAWS, NEW i \in DOMAIN raw.templates
    PROVE  Scorable(Template(raw.templates[i], raw))
<1> DEFINE t == raw.templates[i]
           T == Template(t, raw)
           neutral == Phrases(raw.neutral)
           A == Range(t.anchors)
           R == Range(t.anchor_regexes)
           f == [a \in A |-> _build_anchors(a, neutral)]
           g == [r \in R |-> _build_regexes(r)]
           N == t.negative_anchors
           h == [x \in N |-> normalize(x)]
<1>1. /\ IsList(t.anchors) /\ IsList(t.anchor_regexes) /\ IsFiniteSet(t.negative_anchors)
      /\ \A a \in A : a.weight \in Int /\ a.window \in Int \cup {None}
      /\ \A r \in R : r.weight \in Int
  BY FileAssumption
<1>2. /\ T.anchors = {f[a] : a \in A} /\ T.anchor_regexes = {g[r] : r \in R}
      /\ T.negative_anchors = {h[x] : x \in N} \ {""}
  <2>1. T.anchors = {_build_anchors(a, neutral) : a \in A}
    BY DEF Template
  <2>2. T.anchor_regexes = {_build_regexes(r) : r \in R}
    BY DEF Template
  <2>3. T.negative_anchors = {normalize(x) : x \in N} \ {""}
    BY DEF Template, Phrases, Normal
  <2> HIDE DEF t, T, neutral, A, R, N
  <2> QED
    BY <2>1, <2>2, <2>3
<1>3. IsFiniteSet(A) /\ IsFiniteSet(R)
  BY <1>1, ListIsFinite
<1>4. IsFiniteSet(T.anchors)
  <2>1. IsFiniteSet({f[a] : a \in A})
    <3> HIDE DEF A
    <3> QED
      BY <1>3, ImageIsFinite
  <2> QED
    BY <1>2, <2>1, Zenon
<1>5. IsFiniteSet(T.anchor_regexes)
  <2>1. IsFiniteSet({g[r] : r \in R})
    <3> HIDE DEF R
    <3> QED
      BY <1>3, ImageIsFinite
  <2> QED
    BY <1>2, <2>1, Zenon
<1>6. IsFiniteSet(T.negative_anchors)
  <2>1. IsFiniteSet(N)
    BY <1>1
  <2>2. IsFiniteSet({h[x] : x \in N})
    <3> HIDE DEF N
    <3> QED
      BY <2>1, ImageIsFinite
  <2> DEFINE H == {h[x] : x \in N}
  <2>3. IsFiniteSet(H) /\ H \ {""} \subseteq H
    BY <2>2
  <2> HIDE DEF H
  <2>4. IsFiniteSet(H \ {""})
    BY <2>3, FS_Subset
  <2> QED
    BY <1>2, <2>4 DEF H
<1>7. \A a \in T.anchors : a.weight \in Int /\ a.window \in Int
  <2> SUFFICES ASSUME NEW a \in A PROVE f[a].weight \in Int /\ f[a].window \in Int
    BY <1>2
  <2>1. DefaultWindow \in Int
    BY WindowAssumption
  <2>2. a.weight \in Int /\ a.window \in Int \cup {None}
    BY <1>1
  <2>3. f[a] = _build_anchors(a, neutral)
    OBVIOUS
  <2> HIDE DEF f, A
  <2> QED
    BY <2>1, <2>2, <2>3 DEF _build_anchors
<1>8. \A r \in T.anchor_regexes : r.weight \in Int
  <2> SUFFICES ASSUME NEW r \in R PROVE g[r].weight \in Int
    BY <1>2
  <2>1. r.weight \in Int /\ g[r] = _build_regexes(r)
    BY <1>1
  <2> HIDE DEF g, R
  <2> QED
    BY <2>1 DEF _build_regexes
<1> HIDE DEF T
<1> QED
  BY <1>4, <1>5, <1>6, <1>7, <1>8 DEF Scorable, T

(* A registry that loads is one the ranking can be made with.                 *)
LEMMA LoadedIsSound ==
    ASSUME NEW raw \in RAWS, Loads(raw)
    PROVE  Sound(load_registry(raw)) /\ load_registry(raw) # None
<1> DEFINE R == load_registry(raw)
<1>1. /\ DOMAIN R.templates = DOMAIN raw.templates
      /\ \A i \in DOMAIN raw.templates : R.templates[i] = Template(raw.templates[i], raw)
  BY DEF load_registry
<1>2. \A i \in DOMAIN raw.templates : Template(raw.templates[i], raw).id = raw.templates[i].id
  BY DEF Template
<1>3. Distinct(raw.templates) /\ raw.templates # <<>>
  BY DEF Loads
<1>4. IsList(raw.templates) /\ R # None
  BY FileAssumption
<1>5. DOMAIN raw.templates = 1..Len(raw.templates) /\ Len(raw.templates) \in Nat
  BY <1>4, ListIsFinite
<1>6. Len(raw.templates) # 0
  <2> DEFINE s == raw.templates
             W == Range(s)
  <2>1. s \in Seq(W) /\ s # <<>>
    BY <1>3, <1>4 DEF IsList
  <2> HIDE DEF s, W
  <2>2. Len(s) # 0
    BY <2>1
  <2> QED
    BY <2>2 DEF s
<1>7. Distinct(R.templates)
  <2> HIDE DEF R
  <2> QED
    BY <1>1, <1>2, <1>3 DEF Distinct
<1>8. \A i \in DOMAIN R.templates : Scorable(R.templates[i])
  <2> HIDE DEF R
  <2> QED
    BY <1>1, TemplateIsScorable
<1>9. \E n \in Nat \ {0} : DOMAIN R.templates = 1..n
  BY <1>1, <1>5, <1>6
<1> HIDE DEF R
<1> QED
  BY <1>4, <1>7, <1>8, <1>9 DEF Sound, R

-----------------------------------------------------------------------------
(* The classifier's inductive invariant.                                      *)

(* A registry in use is one that loads.                                       *)
Used(someReg) == \E raw \in RAWS : Loads(raw) /\ someReg = load_registry(raw)

(* What the model said: of the family its first stage chose, or nothing.      *)
Answered(answer, someReg) ==
    /\ answer = [family |-> answer.family, id |-> answer.id, confidence |-> answer.confidence]
    /\ answer.family \in DOMAIN someReg.families \cup {Unknown}
    /\ answer.confidence \in 0..One
    /\ answer.id \in {"", Unknown} \cup
            (IF answer.family \in DOMAIN someReg.families
             THEN someReg.families[answer.family] \cap Ids(someReg) ELSE Ids(someReg))

(* A verdict is what classify makes of the page, the registry and the answer. *)
VerdictIs ==
    /\ Used(registry) /\ page \in TEXTS /\ Answered(llm, registry)
    /\ verdict = classify(Ranked, llm, registry, verdict.error)

RInv ==
    /\ stage \in {"down", "idle", "family", "template"}
    /\ file \in RAWS
    /\ page \in TEXTS \cup {<<>>}
    /\ stage = "down" => registry = None /\ verdict = None /\ page = <<>>
    /\ stage # "down" => Used(registry)
    /\ stage \in {"family", "template"} =>
            page \in TEXTS /\ verdict = None /\ Answered(llm, registry) /\ llm.id = ""
    /\ verdict # None => VerdictIs

(* The classifier starts stopped.                                             *)
LEMMA RInvInit ==
    ASSUME RoutingInit
    PROVE  RInv
  BY DEF RoutingInit, RInv

(* A registry in use is not the absent one, and can be ranked with.           *)
LEMMA UsedIsSound ==
    ASSUME NEW someReg, Used(someReg)
    PROVE  someReg # None /\ Sound(someReg)
  BY LoadedIsSound DEF Used

(* No answer is an answer.                                                    *)
LEMMA NoAnswerIsAnswered ==
    ASSUME NEW someReg
    PROVE  Answered(NoAnswer, someReg) /\ NoAnswer.id = ""
  BY DEF Answered, NoAnswer, Unknown, One

(* A verdict given is one the invariant describes.                            *)
LEMMA DecideKeeps ==
    ASSUME RInv, NEW answer, NEW error, Decide(answer, error),
           stage \in {"family", "template"}, Answered(answer, registry)
    PROVE  RInv'
<1>1. Used(registry) /\ page \in TEXTS /\ file \in RAWS
  BY DEF RInv
<1>2. /\ stage' = "idle" /\ file' = file /\ registry' = registry /\ page' = page
      /\ llm' = answer /\ verdict' = classify(Ranked, answer, registry, error)
  BY DEF Decide
<1>3. classify(Ranked, answer, registry, error).error = error
  BY DEF classify
<1>4. Ranked' = Ranked
  BY <1>2 DEF Ranked
<1>5. verdict' = classify(Ranked', llm', registry', verdict'.error)
  BY <1>2, <1>3, <1>4
<1>6. VerdictIs'
  BY <1>1, <1>2, <1>5 DEF VerdictIs
<1> QED
  BY <1>1, <1>2, <1>6 DEF RInv

(* Every step of the classifier keeps its invariant.                          *)
LEMMA RInvNext ==
    ASSUME RInv, [RoutingNext]_routingVars
    PROVE  RInv'
<1>1. CASE Edit
  BY <1>1 DEF Edit, RInv, VerdictIs, Ranked
<1>2. CASE Startup
  BY <1>2 DEF Startup, RInv, VerdictIs, Ranked, get_registry, Used
<1>3. CASE Stop
  BY <1>3 DEF Stop, RInv, VerdictIs, Ranked
<1>4. ASSUME NEW t \in TEXTS, ClassifyPage(t) PROVE RInv'
  <2>1. Used(registry) /\ registry # None
    BY <1>4, UsedIsSound DEF ClassifyPage, RInv
  <2>2. registry' = registry
    BY <1>4, <2>1 DEF ClassifyPage, get_registry
  <2>3. Answered(NoAnswer, registry) /\ NoAnswer.id = ""
    BY NoAnswerIsAnswered
  <2> QED
    BY <1>4, <2>1, <2>2, <2>3 DEF ClassifyPage, RInv
<1>5. CASE Raises
  BY <1>5, DecideKeeps, NoAnswerIsAnswered DEF Raises
<1>6. CASE Family
  <2>1. PICK f \in DOMAIN registry.families \cup {Unknown} :
            llm' = [NoAnswer EXCEPT !.family = f]
    BY <1>6 DEF Family
  <2>2. llm' = [family |-> f, id |-> "", confidence |-> 0]
    BY <2>1 DEF NoAnswer
  <2>0. 0 \in 0..One
    BY DEF One
  <2>3. Answered(llm', registry) /\ llm'.id = ""
    <3> DEFINE answer == [family |-> f, id |-> "", confidence |-> 0]
    <3>1. /\ answer.family = f /\ answer.id = "" /\ answer.confidence = 0
          /\ answer = [family |-> f, id |-> "", confidence |-> 0]
      OBVIOUS
    <3> HIDE DEF answer
    <3>2. Answered(answer, registry)
      BY <2>0, <3>1 DEF Answered
    <3> QED
      BY <2>2, <3>1, <3>2 DEF answer
  <2> QED
    BY <1>6, <2>2, <2>3 DEF Family, RInv, VerdictIs, Ranked
<1>7. CASE Choice
  <2>1. stage = "template" /\ Answered(llm, registry)
    BY <1>7 DEF Choice, RInv
  <2>2. ASSUME NEW id \in Candidates(llm.family) \cup {Unknown}, NEW c \in CONFIDENCES,
               Decide([llm EXCEPT !.id = id, !.confidence = c], FALSE)
        PROVE  RInv'
    <3> DEFINE answer == [llm EXCEPT !.id = id, !.confidence = c]
    <3>0. c \in 0..One
      BY TierAssumption
    <3>2. /\ answer = [family |-> llm.family, id |-> id, confidence |-> c]
          /\ llm.family \in DOMAIN registry.families \cup {Unknown}
      <4> DEFINE f0 == llm.family
                 i0 == llm.id
                 c0 == llm.confidence
      <4>1. llm = [family |-> f0, id |-> i0, confidence |-> c0]
        BY <2>1 DEF Answered
      <4>2. f0 \in DOMAIN registry.families \cup {Unknown}
        BY <2>1 DEF Answered
      <4> DEFINE old == [family |-> f0, id |-> i0, confidence |-> c0]
      <4> HIDE DEF f0, i0, c0
      <4>4. answer = [old EXCEPT !.id = id, !.confidence = c]
        BY <4>1
      <4> HIDE DEF answer
      <4>3. answer = [family |-> f0, id |-> id, confidence |-> c]
        BY <4>4
      <4> QED
        BY <4>2, <4>3 DEF f0
    <3>3. answer.family = llm.family /\ answer.id = id /\ answer.confidence = c
      BY <3>2
    <3> HIDE DEF answer
    <3>4. id \in {"", Unknown} \cup
            (IF llm.family \in DOMAIN registry.families
             THEN registry.families[llm.family] \cap Ids(registry) ELSE Ids(registry))
      BY <2>2 DEF Candidates
    <3>1. Answered(answer, registry)
      BY <3>0, <3>2, <3>3, <3>4 DEF Answered
    <3> HIDE DEF answer
    <3> QED
      BY <2>1, <2>2, <3>1, DecideKeeps DEF answer
  <2>3. ASSUME Decide(llm, FALSE) PROVE RInv'
    BY <2>1, <2>3, DecideKeeps
  <2> QED
    BY <1>7, <2>2, <2>3 DEF Choice
<1>8. CASE UNCHANGED routingVars
  BY <1>8 DEF routingVars, RInv, VerdictIs, Ranked
<1> QED
  BY <1>1, <1>2, <1>3, <1>4, <1>5, <1>6, <1>7, <1>8 DEF RoutingNext

-----------------------------------------------------------------------------
(* A verdict is earned.                                                       *)

(* The four ways of classify to answer.                                       *)
Ways(v, ranked, answer, someReg) ==
    \/ /\ llm_ok(answer, someReg) /\ Agrees(ranked[1], answer)
       /\ v.template_id = answer.id /\ v.source = "llm+rules"
       /\ v.confidence = Capped((6 * answer.confidence + 4 * ranked[1].score) \div 10 + 2000)
    \/ /\ llm_ok(answer, someReg)
       /\ v.template_id = answer.id /\ v.source = "llm"
       /\ v.confidence = (answer.confidence * 8) \div 10
    \/ /\ ~llm_ok(answer, someReg) /\ rules_ok(ranked)
       /\ v.template_id = ranked[1].id /\ v.source = "rules"
       /\ v.confidence = ranked[1].score
    \/ /\ v.template_id = FALLBACK /\ v.source = "fallback"
       /\ v.confidence \in {Max({answer.confidence, ranked[1].score}),
                            Max({0, ranked[1].score})}

(* What classify answers, it answers in one of them.                          *)
LEMMA ClassifyIs ==
    ASSUME NEW ranked, NEW answer, NEW someReg, NEW error
    PROVE  Ways(classify(ranked, answer, someReg, error), ranked, answer, someReg)
<1> DEFINE v == classify(ranked, answer, someReg, error)
           m == Max({IF answer.id # "" THEN answer.confidence ELSE 0, ranked[1].score})
<1>0. m \in {Max({answer.confidence, ranked[1].score}), Max({0, ranked[1].score})}
  OBVIOUS
<1>1. CASE llm_ok(answer, someReg) /\ Agrees(ranked[1], answer)
  BY <1>1 DEF classify, Ways
<1>2. CASE llm_ok(answer, someReg) /\ ~Agrees(ranked[1], answer)
  BY <1>2 DEF classify, Ways
<1>3. CASE ~llm_ok(answer, someReg) /\ rules_ok(ranked)
  BY <1>3 DEF classify, Ways
<1>4. CASE ~llm_ok(answer, someReg) /\ ~rules_ok(ranked)
  <2>1. v.template_id = FALLBACK /\ v.source = "fallback" /\ v.confidence = m
    BY <1>4 DEF classify
  <2> HIDE DEF m
  <2> QED
    BY <1>0, <2>1 DEF Ways
<1> QED
  BY <1>1, <1>2, <1>3, <1>4

(* The confidences a verdict may state.                                       *)
Confidences(c, s) ==
    {Capped((6 * c + 4 * s) \div 10 + 2000), (c * 8) \div 10, s, Max({c, s}), Max({0, s})}

(* The arithmetic of a verdict stays within one.                              *)
LEMMA ConfidenceIs ==
    ASSUME NEW c \in 0..One, NEW s \in 0..One
    PROVE  Confidences(c, s) \subseteq 0..One /\ 10 * ((c * 8) \div 10) <= 8 * c
<1>1. c \in 0..10000 /\ s \in 0..10000 /\ One = 10000
  BY DEF One
<1>2. (c * 8) \div 10 \in 0..10000 /\ 10 * ((c * 8) \div 10) <= 8 * c
  BY <1>1
<1>3. Max({c, s}) \in 0..10000 /\ Max({0, s}) \in 0..10000
  <2>1. c \in Int /\ s \in Int /\ 0 \in Int
    BY <1>1
  <2> DEFINE m == Max({c, s})
             k == Max({0, s})
  <2>2. m = (IF c >= s THEN c ELSE s) /\ k = (IF 0 >= s THEN 0 ELSE s)
    BY <2>1, MaxOfTwo
  <2> HIDE DEF m, k
  <2>3. m \in 0..10000 /\ k \in 0..10000
    BY <1>1, <2>2
  <2> QED
    BY <2>3 DEF m, k
<1>4. Capped((6 * c + 4 * s) \div 10 + 2000) \in 0..10000
  <2> DEFINE n == (6 * c + 4 * s) \div 10 + 2000
  <2>1. n \in Nat
    BY <1>1
  <2> HIDE DEF n
  <2>2. Min({10000, n}) = IF 10000 <= n THEN 10000 ELSE n
    BY <2>1, MinOfTwo
  <2>3. Capped(n) = Min({10000, n})
    BY <1>1 DEF Capped
  <2> DEFINE m == Capped(n)
  <2>4. m = IF 10000 <= n THEN 10000 ELSE n
    BY <2>2, <2>3
  <2> HIDE DEF m
  <2>5. m \in 0..10000
    BY <2>1, <2>4
  <2> QED
    BY <2>5 DEF m, n
<1>5. Confidences(c, s) \subseteq 0..10000
  <2> DEFINE a == Capped((6 * c + 4 * s) \div 10 + 2000)
             b == (c * 8) \div 10
             d == Max({c, s})
             e == Max({0, s})
  <2>3. a \in 0..10000
    BY <1>4
  <2>4. b \in 0..10000
    BY <1>2
  <2>5. d \in 0..10000
    BY <1>3
  <2>6. e \in 0..10000
    BY <1>3
  <2>2. Confidences(c, s) = {a, b, s, d, e}
    BY DEF Confidences
  <2> HIDE DEF a, b, d, e
  <2> QED
    BY <1>1, <2>2, <2>3, <2>4, <2>5, <2>6
<1> QED
  BY <1>1, <1>2, <1>5

(* A template of the registry is found by its id.                             *)
LEMMA GetIs ==
    ASSUME NEW someReg, Sound(someReg), NEW i \in DOMAIN someReg.templates
    PROVE  Get(someReg, someReg.templates[i].id) = someReg.templates[i]
<1> DEFINE t == someReg.templates[i]
           S == Range(someReg.templates)
<1>1. t \in S
  BY DEF Range
<1>2. \A x \in S : x.id = t.id => x = t
  BY DEF Range, Sound, Distinct
<1>3. Get(someReg, t.id) = CHOOSE x \in S : x.id = t.id
  BY DEF Get
<1> HIDE DEF t, S
<1>4. Get(someReg, t.id) = t
  BY <1>1, <1>2, <1>3
<1> QED
  BY <1>4 DEF t

(* A rule that fires as the document's own is quoted by nobody: no marker of  *)
(* the registry stands in its run-up.                                         *)
LEMMA FiredIsOwn ==
    ASSUME Sound(registry), page \in TEXTS, NEW i \in DOMAIN registry.templates,
           Hits(Text(page), registry.templates[i], registry) # {}
    PROVE  \/ \E a \in scoring_anchors(registry.templates[i]) :
                    OwnWords(Text(page), a, a.window)
           \/ \E rx \in registry.templates[i].anchor_regexes :
                    OwnWords(Text(page), rx, DefaultWindow)
<1> DEFINE t == registry.templates[i]
           words == Text(page)
<1>1. \E n \in Nat : DOMAIN words = 1..n
  <2>1. page \in Seq(Strings)
    BY FileAssumption
  <2>2. DOMAIN words = DOMAIN page
    BY DEF Text
  <2>3. Len(page) \in Nat /\ DOMAIN page = 1..Len(page)
    BY <2>1
  <2> HIDE DEF words
  <2> QED
    BY <2>2, <2>3
<1>2. Scorable(t)
  BY DEF Sound
<1> HIDE DEF t, words
<1>3. ASSUME NEW pos \in DOMAIN words, NEW w \in Int,
             ~Occurs(words, registry.markers, pos - w, pos - 1)
      PROVE  \A j \in 1..(pos - 1) : j >= pos - w => words[j] \notin registry.markers
  <2> SUFFICES ASSUME NEW j \in 1..(pos - 1), j >= pos - w, words[j] \in registry.markers
               PROVE  FALSE
    OBVIOUS
  <2>1. pos \in Int /\ j \in DOMAIN words
    BY <1>1
  <2>2. j \in _iter_hits(words, words[j])
    BY <2>1 DEF _iter_hits
  <2>3. pos - w <= j /\ j <= pos - 1
    BY <2>1
  <2> QED
    BY <1>3, <2>2, <2>3 DEF Occurs
<1>4. \A n : _iter_hits(words, n) \subseteq DOMAIN words
  BY DEF _iter_hits
<1>5. ASSUME NEW a \in scoring_anchors(t), _anchor_fires(a, words, t.sections, registry.markers)
      PROVE  OwnWords(words, a, a.window)
  <2>1. PICK pos \in _iter_hits(words, a.text) :
            Survives(a, words, t.sections, registry.markers, pos)
    BY <1>5 DEF _anchor_fires
  <2>2. ~Occurs(words, NotBefore(a, registry.markers), pos - a.window, pos - 1)
    BY <2>1 DEF Survives
  <2>3. a.window \in Int /\ pos \in DOMAIN words
    BY <1>2, <1>4 DEF Scorable, scoring_anchors
  <2>4. ASSUME a.voice = "operative"
        PROVE  ~Occurs(words, registry.markers, pos - a.window, pos - 1)
    BY <2>2, <2>4 DEF NotBefore, Occurs
  <2>5. a.voice = "operative" =>
            \A j \in 1..(pos - 1) : j >= pos - a.window => words[j] \notin registry.markers
    BY <1>3, <2>3, <2>4
  <2> QED
    BY <2>1, <2>5 DEF OwnWords
<1>6. ASSUME NEW rx \in t.anchor_regexes, _regex_fires(rx, words, registry.markers)
      PROVE  OwnWords(words, rx, DefaultWindow)
  <2>1. PICK pos \in _iter_hits(words, rx.text) : rx.voice = "operative" =>
            ~Occurs(words, registry.markers, pos - DefaultWindow, pos - 1)
    BY <1>6 DEF _regex_fires
  <2>2. DefaultWindow \in Int /\ pos \in DOMAIN words
    BY <1>4, WindowAssumption
  <2>3. rx.voice = "operative" =>
            \A j \in 1..(pos - 1) : j >= pos - DefaultWindow => words[j] \notin registry.markers
    BY <1>3, <2>1, <2>2
  <2> QED
    BY <2>1, <2>3 DEF OwnWords
<1>7. Hits(words, t, registry) # {}
  BY DEF t, words
<1>8. \/ \E a \in scoring_anchors(t) : OwnWords(words, a, a.window)
      \/ \E rx \in t.anchor_regexes : OwnWords(words, rx, DefaultWindow)
  BY <1>5, <1>6, <1>7 DEF Hits
<1> QED
  BY <1>8 DEF t, words

(* What the invariant says of a verdict, with the first place of the ranking. *)
LEMMA VerdictRests ==
    ASSUME RInv, verdict # None
    PROVE  /\ VerdictIs /\ Sound(registry) /\ Entry(Ranked[1], Text(page), registry)
           /\ 1 \in DOMAIN Ranked
<1>1. VerdictIs
  BY DEF RInv
<1>2. Sound(registry)
  BY <1>1, UsedIsSound DEF VerdictIs
<1> QED
  BY <1>1, <1>2, RankIs DEF Ranked

(* No template scores above its own ceiling.                                  *)
LEMMA ScoresAreComparable ==
    ASSUME RInv
    PROVE  ScoresCompare
<1> SUFFICES ASSUME registry # None, NEW i \in DOMAIN Ranked
             PROVE  Ranked[i].score \in 0..One
  BY DEF ScoresCompare
<1>1. Sound(registry)
  BY UsedIsSound DEF RInv
<1> QED
  BY <1>1, RankIs DEF Ranked, Entry

(* A verdict names a template of its registry, or the fallback.               *)
LEMMA VerdictNamesATemplate ==
    ASSUME RInv, verdict # None
    PROVE  /\ verdict.template_id \in Ids(registry) \cup {FALLBACK}
           /\ verdict.confidence \in 0..One
<1> DEFINE top == Ranked[1]
<1>1. /\ verdict = classify(Ranked, llm, registry, verdict.error)
      /\ llm.confidence \in 0..One
      /\ top.at \in DOMAIN registry.templates /\ top.id = registry.templates[top.at].id
      /\ top.score \in 0..One
  BY VerdictRests DEF VerdictIs, Answered, Entry
<1>2. top.id \in Ids(registry)
  BY <1>1 DEF Ids
<1>3. llm_ok(llm, registry) => llm.id \in Ids(registry)
  BY DEF llm_ok
<1> HIDE DEF top
<1>4. Confidences(llm.confidence, top.score) \subseteq 0..One
  BY <1>1, ConfidenceIs
<1>5. Ways(verdict, Ranked, llm, registry)
  BY <1>1, ClassifyIs
<1>6. verdict.confidence \in Confidences(llm.confidence, top.score)
  BY <1>5 DEF Ways, Confidences, top
<1>7. verdict.template_id \in Ids(registry) \cup {FALLBACK}
  BY <1>2, <1>3, <1>5 DEF Ways, top
<1> QED
  BY <1>4, <1>6, <1>7

(* The rules tier decides on the document's own words.                        *)
LEMMA RulesReadOwnWords ==
    ASSUME RInv
    PROVE  QuotedIsNotOwn
<1> SUFFICES ASSUME verdict # None, verdict.source = "rules"
             PROVE  LET t == Get(registry, verdict.template_id)
                    IN \/ \E a \in scoring_anchors(t) : OwnWords(Text(page), a, a.window)
                       \/ \E rx \in t.anchor_regexes :
                                OwnWords(Text(page), rx, DefaultWindow)
  BY DEF QuotedIsNotOwn
<1> DEFINE top == Ranked[1]
<1>1. verdict = classify(Ranked, llm, registry, verdict.error) /\ Sound(registry)
      /\ page \in TEXTS /\ Entry(top, Text(page), registry)
  BY VerdictRests DEF VerdictIs
<1>2. rules_ok(Ranked) /\ verdict.template_id = top.id
  <2>1. Ways(verdict, Ranked, llm, registry)
    BY <1>1, ClassifyIs
  <2> QED
    BY <2>1 DEF Ways
<1>3. top.score # 0
  <2>1. top.score >= MIN_SCORE
    BY <1>2 DEF rules_ok
  <2>2. MIN_SCORE >= 1 /\ MIN_SCORE \in Int
    BY TierAssumption DEF One
  <2> HIDE DEF top
  <2> QED
    BY <2>1, <2>2
<1> HIDE DEF top
<1>4. top.at \in DOMAIN registry.templates
  BY <1>1 DEF Entry
<1>5. Hits(Text(page), registry.templates[top.at], registry) # {}
  BY <1>1, <1>3, <1>4, ScoreIs DEF Entry, Sound
<1>6. Get(registry, verdict.template_id) = registry.templates[top.at]
  BY <1>1, <1>2, <1>4, GetIs DEF Entry
<1> QED
  BY <1>1, <1>4, <1>5, <1>6, FiredIsOwn

(* Ranking first among near-zero scores is not agreement.                     *)
LEMMA NearZeroIsDiscounted ==
    ASSUME RInv
    PROVE  NearZeroIsNoAgreement
<1> SUFFICES ASSUME verdict # None, Ranked[1].score < FLOOR
             PROVE  /\ verdict.source \in {"llm", "fallback"} /\ verdict.confidence <= One
                    /\ (verdict.source = "llm" =>
                            10 * verdict.confidence <= 8 * llm.confidence)
  BY DEF NearZeroIsNoAgreement
<1> DEFINE top == Ranked[1]
<1>1. /\ verdict = classify(Ranked, llm, registry, verdict.error)
      /\ llm.confidence \in 0..One /\ top.score \in 0..One /\ top.score \in Int
  BY VerdictRests DEF VerdictIs, Answered, Entry
<1>2. FLOOR \in Int /\ MIN_SCORE \in Int /\ FLOOR <= MIN_SCORE
  BY TierAssumption DEF One
<1>3. ~Agrees(top, llm) /\ ~rules_ok(Ranked)
  BY <1>1, <1>2 DEF Agrees, rules_ok
<1>4. 10 * ((llm.confidence * 8) \div 10) <= 8 * llm.confidence
  <2> HIDE DEF top
  <2> QED
    BY <1>1, ConfidenceIs
<1>5. verdict.confidence <= One
  <2>1. verdict.confidence \in 0..One /\ One \in Int
    BY VerdictNamesATemplate DEF One
  <2> QED
    BY <2>1
<1>6. Ways(verdict, Ranked, llm, registry)
  BY <1>1, ClassifyIs
<1> QED
  BY <1>3, <1>4, <1>5, <1>6 DEF Ways

(* The model's answer stays in the family it chose.                           *)
LEMMA AnswersStayInFamily ==
    ASSUME RInv
    PROVE  AnswersFromOwnFamily
<1> SUFFICES ASSUME verdict # None, verdict.source \in {"llm", "llm+rules"},
                    llm.family # Unknown
             PROVE  verdict.template_id \in registry.families[llm.family]
  BY DEF AnswersFromOwnFamily
<1>1. /\ verdict = classify(Ranked, llm, registry, verdict.error)
      /\ Answered(llm, registry)
  BY VerdictRests DEF VerdictIs
<1>2. llm_ok(llm, registry) /\ verdict.template_id = llm.id
  <2>1. Ways(verdict, Ranked, llm, registry)
    BY <1>1, ClassifyIs
  <2> QED
    BY <2>1 DEF Ways
<1> QED
  BY <1>1, <1>2 DEF Answered, llm_ok

(* Every verdict of the classifier is earned: it names a template of the      *)
(* registry it was made with, on the document's own words, no template scores *)
(* above its ceiling, a near-zero first place is not agreement, and the model *)
(* answers from the family it chose.                                          *)
THEOREM VerdictEarned == RoutingSpec => []VerdictIsEarned
<1>1. RoutingInit => RInv
  BY RInvInit
<1>2. RInv /\ [RoutingNext]_routingVars => RInv'
  BY RInvNext
<1>3. RInv => VerdictIsEarned
  BY VerdictNamesATemplate, RulesReadOwnWords, ScoresAreComparable, NearZeroIsDiscounted,
     AnswersStayInFamily DEF VerdictIsEarned
<1> QED
  BY <1>1, <1>2, <1>3, PTL DEF RoutingSpec

-----------------------------------------------------------------------------
(* Lists, folds over them, and what is kept of them.                          *)

(* A fold over a range of numbers has a value at each of them.                *)
Folds(a, n, S, base, step) ==
    \E f \in [a..n -> S] :
        f[a] = base /\ \A i \in (a + 1)..n : f[i] = step[<<f[i - 1], i>>]

(* It has one, where a step leads from each value to a value.                 *)
LEMMA FoldExists ==
    ASSUME NEW a \in Nat, NEW n \in Nat, a <= n, NEW S, NEW base \in S,
           NEW step \in [S \X ((a + 1)..n) -> S]
    PROVE  Folds(a, n, S, base, step)
<1> DEFINE Good(f, m) == f[a] = base /\ \A i \in (a + 1)..m : f[i] = step[<<f[i - 1], i>>]
           T == {m \in a..n : ~ \E f \in [a..m -> S] : Good(f, m)}
<1>1. T = {}
  <2> SUFFICES ASSUME T # {} PROVE FALSE
    OBVIOUS
  <2>1. PICK m \in T : \A k \in T : m <= k
    <3>1. T \in SUBSET Nat
      OBVIOUS
    <3> HIDE DEF T
    <3> QED
      BY <3>1, LeastNumber
  <2>2. m # a
    <3> DEFINE f == [i \in a..a |-> base]
    <3>1. f \in [a..a -> S] /\ Good(f, a)
      OBVIOUS
    <3> HIDE DEF Good
    <3> QED
      BY <3>1, <2>1
  <2>3. m \in (a + 1)..n /\ m - 1 \in a..n /\ m - 1 \notin T
    <3>1. m \in a..n
      OBVIOUS
    <3> HIDE DEF T
    <3> QED
      BY <2>1, <2>2, <3>1
  <2>4. PICK f \in [a..(m - 1) -> S] : Good(f, m - 1)
    <3> HIDE DEF Good
    <3> QED
      BY <2>3
  <2> DEFINE g == [i \in a..m |-> IF i = m THEN step[<<f[m - 1], m>>] ELSE f[i]]
  <2>5. m - 1 \in a..(m - 1) /\ f[m - 1] \in S
    BY <2>3, <2>4
  <2>6. step[<<f[m - 1], m>>] \in S
    BY <2>3, <2>5
  <2>7. g \in [a..m -> S]
    BY <2>3, <2>4, <2>6
  <2>8. g[a] = base
    BY <2>3, <2>4
  <2>9. ASSUME NEW i \in (a + 1)..m PROVE g[i] = step[<<g[i - 1], i>>]
    <3>1. i - 1 \in a..(m - 1) /\ i \in a..m /\ i - 1 \in a..m /\ i - 1 # m
      BY <2>3
    <3>2. g[i - 1] = f[i - 1]
      BY <3>1
    <3>3. CASE i = m
      BY <3>1, <3>2, <3>3
    <3>4. CASE i # m
      <4>1. i \in (a + 1)..(m - 1)
        BY <2>3, <3>4
      <4>2. f[i] = step[<<f[i - 1], i>>] /\ g[i] = f[i]
        BY <2>4, <3>1, <3>4, <4>1
      <4> QED
        BY <3>2, <4>2
    <3> QED
      BY <3>3, <3>4
  <2>10. Good(g, m)
    BY <2>8, <2>9
  <2> HIDE DEF Good, g
  <2> QED
    BY <2>1, <2>7, <2>10
<1>2. n \in a..n /\ n \notin T
  BY <1>1
<1>3. \E f \in [a..n -> S] : Good(f, n)
  BY <1>2
<1> QED
  BY <1>3 DEF Folds

(* The lists of a list, flattened one at a time.                              *)
LEMMA FlattenIs ==
    ASSUME NEW S, NEW ss \in Seq(Seq(S)), ss # <<>>
    PROVE  \E f \in [1..Len(ss) -> Seq(S)] :
                /\ f[1] = ss[1] /\ FlattenSeq(ss) = f[Len(ss)]
                /\ \A i \in 2..Len(ss) : f[i] = f[i - 1] \o ss[i]
<1> DEFINE n == Len(ss)
           W == Seq(S)
           step == [x \in W \X (2..n) |-> x[1] \o ss[x[2]]]
           flatten == CHOOSE f : f = [i \in 1..n |-> IF i = 1 THEN ss[i] ELSE f[i - 1] \o ss[i]]
<1>1. n \in Nat /\ 1 <= n /\ 1 \in Nat /\ \A i \in 1..n : ss[i] \in W
  OBVIOUS
<1>2. step \in [W \X ((1 + 1)..n) -> W]
  OBVIOUS
<1>3. \E f \in [1..n -> W] : f[1] = ss[1] /\ \A i \in (1 + 1)..n : f[i] = step[<<f[i - 1], i>>]
  <2> DEFINE base == ss[1]
  <2>1. base \in W
    BY <1>1
  <2> HIDE DEF n, W, step, base
  <2>2. Folds(1, n, W, base, step)
    BY <1>1, <1>2, <2>1, FoldExists
  <2> QED
    BY <2>2 DEF base, Folds
<1>4. PICK f \in [1..n -> W] : f[1] = ss[1] /\
            \A i \in (1 + 1)..n : f[i] = step[<<f[i - 1], i>>]
  <2> HIDE DEF n, W, step
  <2> QED
    BY <1>3
<1>5. ASSUME NEW i \in 2..n PROVE f[i] = f[i - 1] \o ss[i]
  <2>1. i \in (1 + 1)..n /\ i - 1 \in 1..n
    BY <1>1
  <2>2. f[i - 1] \in W /\ f[i] = step[<<f[i - 1], i>>]
    <3> HIDE DEF n, W, step
    <3> QED
      BY <1>4, <2>1
  <2>3. <<f[i - 1], i>> \in W \X (2..n)
    BY <2>2
  <2> HIDE DEF n, W
  <2> QED
    BY <2>2, <2>3
<1>6. f = [i \in 1..n |-> IF i = 1 THEN ss[i] ELSE f[i - 1] \o ss[i]]
  <2> HIDE DEF n, W
  <2>1. \A i \in 1..n : i = 1 \/ i \in 2..n
    BY <1>1
  <2> QED
    BY <1>4, <1>5, <2>1
<1>7. flatten = [i \in 1..n |-> IF i = 1 THEN ss[i] ELSE flatten[i - 1] \o ss[i]]
  <2> DEFINE P(h) == h = [i \in 1..n |-> IF i = 1 THEN ss[i] ELSE h[i - 1] \o ss[i]]
  <2>1. P(f)
    BY <1>6
  <2>2. flatten = CHOOSE h : P(h)
    OBVIOUS
  <2> HIDE DEF P, flatten
  <2>3. P(flatten)
    BY <2>1, <2>2, Zenon
  <2> QED
    BY <2>3 DEF P
<1>8. FlattenSeq(ss) = flatten[n]
  BY <1>1 DEF FlattenSeq
<1> HIDE DEF flatten, n, W
<1>9. /\ flatten[1] = ss[1]
      /\ \A i \in 2..n : flatten[i] = flatten[i - 1] \o ss[i]
  <2>1. 1 \in 1..n
    BY <1>1
  <2>2. flatten[1] = ss[1]
    BY <1>7, <2>1
  <2>3. ASSUME NEW i \in 2..n PROVE flatten[i] = flatten[i - 1] \o ss[i]
    <3>1. i \in 1..n /\ i # 1
      BY <1>1
    <3> QED
      BY <1>7, <3>1
  <2> QED
    BY <2>2, <2>3
<1>10. \A i \in 1..n : flatten[i] = f[i]
  <2> DEFINE T == {m \in 1..n : flatten[m] # f[m]}
  <2> SUFFICES ASSUME T # {} PROVE FALSE
    OBVIOUS
  <2>1. PICK m \in T : \A k \in T : m <= k
    <3>1. T \in SUBSET Nat
      OBVIOUS
    <3> HIDE DEF T
    <3> QED
      BY <3>1, LeastNumber
  <2>2. m \in 1..n /\ flatten[m] # f[m]
    OBVIOUS
  <2>3. m # 1
    BY <2>2, <1>9, <1>4
  <2>4. m \in 2..n /\ m - 1 \in 1..n /\ ~(m <= m - 1)
    BY <1>1, <2>2, <2>3
  <2>5. flatten[m - 1] = f[m - 1]
    BY <2>1, <2>4
  <2> QED
    BY <1>5, <1>9, <2>2, <2>4, <2>5
<1>11. n \in 1..n
  BY <1>1
<1> QED
  BY <1>1, <1>4, <1>5, <1>8, <1>10, <1>11 DEF n, W

(* A sequence of anything is a list.                                          *)
LEMMA SeqIsList ==
    ASSUME NEW S, NEW s \in Seq(S)
    PROVE  IsList(s) /\ Range(s) \subseteq S /\ DOMAIN s = 1..Len(s) /\ Len(s) \in Nat
<1>1. Len(s) \in Nat /\ DOMAIN s = 1..Len(s) /\ \A i \in 1..Len(s) : s[i] \in S
  OBVIOUS
<1>2. Range(s) = {s[i] : i \in DOMAIN s}
  BY DEF Range
<1>3. s = [i \in 1..Len(s) |-> s[i]]
  OBVIOUS
<1>4. s \in Seq(Range(s))
  <2> DEFINE R == Range(s)
  <2>1. \A i \in 1..Len(s) : s[i] \in R
    BY <1>1, <1>2
  <2> HIDE DEF R
  <2>2. [i \in 1..Len(s) |-> s[i]] \in [1..Len(s) -> R]
    BY <2>1
  <2>3. s \in [1..Len(s) -> R]
    BY <1>3, <2>2
  <2> QED
    BY <1>1, <2>3 DEF R
<1> QED
  BY <1>1, <1>2, <1>4 DEF IsList

(* A function on the first numbers is a list.                                 *)
LEMMA ListOf ==
    ASSUME NEW n \in Nat, NEW s, s = [i \in 1..n |-> s[i]]
    PROVE  IsList(s) /\ Len(s) = n /\ DOMAIN s = 1..n
<1> DEFINE R == {s[i] : i \in 1..n}
<1>1. s \in [1..n -> R]
  BY \A i \in 1..n : s[i] \in R
<1> HIDE DEF R
<1>2. s \in Seq(R) /\ Len(s) = n
  BY <1>1
<1> QED
  BY <1>1, <1>2, SeqIsList

(* One list after another.                                                    *)
LEMMA BothLists ==
    ASSUME NEW a, NEW b, IsList(a), IsList(b)
    PROVE  /\ IsList(a \o b) /\ Range(a \o b) = Range(a) \cup Range(b)
           /\ Len(a \o b) = Len(a) + Len(b) /\ Len(a) \in Nat /\ Len(b) \in Nat
           /\ \A i \in 1..Len(a) : (a \o b)[i] = a[i]
           /\ \A i \in 1..Len(b) : (a \o b)[Len(a) + i] = b[i]
<1> DEFINE S == Range(a) \cup Range(b)
           c == a \o b
<1>1. /\ a \in Seq(S) /\ b \in Seq(S)
      /\ Range(a) = {a[i] : i \in DOMAIN a} /\ Range(b) = {b[i] : i \in DOMAIN b}
      /\ Range(c) = {c[i] : i \in DOMAIN c}
  <2>1. Range(a) \subseteq S /\ Range(b) \subseteq S
    OBVIOUS
  <2>2. a \in Seq(Range(a)) /\ b \in Seq(Range(b))
    BY DEF IsList
  <2>3. a \in Seq(S) /\ b \in Seq(S)
    <3> DEFINE A == Range(a)
               B == Range(b)
               T == S
    <3>1. a \in Seq(A) /\ b \in Seq(B) /\ A \subseteq T /\ B \subseteq T
      BY <2>1, <2>2
    <3> HIDE DEF A, B, T
    <3>2. a \in Seq(T) /\ b \in Seq(T)
      BY <3>1
    <3> QED
      BY <3>2 DEF T
  <2> QED
    BY <2>3 DEF Range
<1> HIDE DEF S
<1>2. c \in Seq(S) /\ Len(c) = Len(a) + Len(b) /\ Len(a) \in Nat /\ Len(b) \in Nat
  BY <1>1
<1>3. /\ DOMAIN a = 1..Len(a) /\ DOMAIN b = 1..Len(b) /\ DOMAIN c = 1..Len(c)
      /\ \A i \in 1..Len(a) : c[i] = a[i]
      /\ \A i \in 1..Len(b) : c[Len(a) + i] = b[i]
  BY <1>1, <1>2
<1>4. \A i \in 1..Len(c) : i \in 1..Len(a) \/ \E j \in 1..Len(b) : i = Len(a) + j
  <2> SUFFICES ASSUME NEW i \in 1..Len(c), i \notin 1..Len(a)
               PROVE  \E j \in 1..Len(b) : i = Len(a) + j
    OBVIOUS
  <2> DEFINE j == i - Len(a)
  <2>1. j \in 1..Len(b) /\ i = Len(a) + j
    BY <1>2
  <2> QED
    BY <2>1
<1> HIDE DEF c
<1>5. Range(c) = Range(a) \cup Range(b)
  <2>1. ASSUME NEW x \in Range(c) PROVE x \in Range(a) \cup Range(b)
    <3>1. PICK i \in 1..Len(c) : x = c[i]
      BY <1>1, <1>3
    <3>2. CASE i \in 1..Len(a)
      BY <1>1, <1>3, <3>1, <3>2
    <3>3. CASE \E j \in 1..Len(b) : i = Len(a) + j
      BY <1>1, <1>3, <3>1, <3>3
    <3> QED
      BY <1>4, <3>2, <3>3
  <2>2. ASSUME NEW x \in Range(a) PROVE x \in Range(c)
    <3>1. PICK i \in 1..Len(a) : x = a[i]
      BY <1>1, <1>3
    <3>2. i \in 1..Len(c)
      BY <1>2
    <3> QED
      BY <1>1, <1>3, <3>1, <3>2
  <2>3. ASSUME NEW x \in Range(b) PROVE x \in Range(c)
    <3>1. PICK i \in 1..Len(b) : x = b[i]
      BY <1>1, <1>3
    <3>2. Len(a) + i \in 1..Len(c)
      BY <1>2
    <3> QED
      BY <1>1, <1>3, <3>1, <3>2
  <2> QED
    BY <2>1, <2>2, <2>3
<1>6. IsList(c)
  BY <1>2, SeqIsList
<1> QED
  BY <1>2, <1>3, <1>5, <1>6 DEF c

(* The lists of a list, one after another.                                    *)
LEMMA FlattenRange ==
    ASSUME NEW ss, IsList(ss), \A i \in DOMAIN ss : IsList(ss[i])
    PROVE  /\ IsList(FlattenSeq(ss))
           /\ Range(FlattenSeq(ss)) = UNION {Range(ss[i]) : i \in DOMAIN ss}
<1> DEFINE S == UNION {Range(ss[i]) : i \in DOMAIN ss}
           W == Seq(S)
           n == Len(ss)
<1>1. DOMAIN ss = 1..n /\ n \in Nat
  BY ListIsFinite
<1>2. \A i \in DOMAIN ss : ss[i] \in W
  <2> SUFFICES ASSUME NEW i \in DOMAIN ss PROVE ss[i] \in W
    OBVIOUS
  <2>1. ss[i] \in Seq(Range(ss[i])) /\ Range(ss[i]) \subseteq S
    BY DEF IsList
  <2> DEFINE A == Range(ss[i])
             T == S
  <2>2. ss[i] \in Seq(A) /\ A \subseteq T
    BY <2>1
  <2> HIDE DEF A, T
  <2>3. ss[i] \in Seq(T)
    BY <2>2
  <2> QED
    BY <2>3 DEF T
<1>3. ss \in Seq(W)
  <2>1. ss \in Seq(Range(ss)) /\ Range(ss) = {ss[i] : i \in DOMAIN ss}
    BY DEF IsList, Range
  <2> DEFINE A == Range(ss)
  <2>2. A \subseteq W /\ ss \in Seq(A)
    BY <1>2, <2>1
  <2> HIDE DEF A, W
  <2> QED
    BY <2>2
<1>4. CASE ss = <<>>
  <2>1. FlattenSeq(ss) = <<>>
    BY <1>4 DEF FlattenSeq
  <2>2. IsList(<<>>) /\ Range(<<>>) = {}
    BY DEF IsList, Range
  <2>3. S = {}
    BY <1>4
  <2> QED
    BY <2>1, <2>2, <2>3
<1>5. CASE ss # <<>>
  <2> DEFINE Good(f) == /\ f[1] = ss[1] /\ FlattenSeq(ss) = f[Len(ss)]
                        /\ \A i \in 2..Len(ss) : f[i] = f[i - 1] \o ss[i]
  <2>1. PICK f \in [1..n -> W] : Good(f)
    <3>1. \E f \in [1..n -> W] : Good(f)
      BY <1>3, <1>5, FlattenIs
    <3> HIDE DEF Good, n, W
    <3> QED
      BY <3>1
  <2>2. 1 \in 1..n /\ n \in 1..n
    BY <1>1, <1>5
  <2> DEFINE Upto(m) == UNION {Range(ss[i]) : i \in 1..m}
             T == {m \in 1..n : Range(f[m]) # Upto(m)}
  <2> HIDE DEF W, n
  <2>3. T = {}
    <3> SUFFICES ASSUME T # {} PROVE FALSE
      OBVIOUS
    <3>1. PICK m \in T : \A k \in T : m <= k
      <4>1. T \in SUBSET Nat
        OBVIOUS
      <4> HIDE DEF T
      <4> QED
        BY <4>1, LeastNumber
    <3>2. m \in 1..n /\ Range(f[m]) # Upto(m)
      OBVIOUS
    <3>3. Upto(1) = Range(ss[1])
      <4>1. 1..1 = {1}
        OBVIOUS
      <4> QED
        BY <4>1
    <3>4. m # 1
      BY <2>1, <3>2, <3>3
    <3>5. m - 1 \in 1..n /\ m \in 2..n /\ ~(m <= m - 1) /\ 1..m = (1..(m - 1)) \cup {m}
      BY <1>1, <3>2, <3>4
    <3>6. Range(f[m - 1]) = Upto(m - 1)
      BY <3>1, <3>5
    <3>7. f[m] = f[m - 1] \o ss[m]
      BY <2>1, <3>5 DEF n
    <3>8. IsList(f[m - 1]) /\ IsList(ss[m])
      <4>1. f[m - 1] \in Seq(S)
        BY <2>1, <3>5 DEF W
      <4>2. IsList(f[m - 1])
        BY <4>1, SeqIsList
      <4> QED
        BY <1>1, <3>5, <4>2
    <3>9. Range(f[m]) = Range(f[m - 1]) \cup Range(ss[m])
      BY <3>7, <3>8, BothLists
    <3>10. Upto(m) = Upto(m - 1) \cup Range(ss[m])
      BY <3>5
    <3> QED
      BY <3>2, <3>6, <3>9, <3>10
  <2>4. Range(f[n]) = Upto(n)
    BY <2>2, <2>3
  <2>5. f[n] \in Seq(S)
    BY <2>1, <2>2 DEF W
  <2>6. IsList(f[n])
    BY <2>5, SeqIsList
  <2> QED
    BY <1>1, <2>1, <2>4, <2>6 DEF n
<1> QED
  BY <1>4, <1>5

(* Some places of a list in order: each once.                                 *)
LEMMA AscendingIs ==
    ASSUME NEW S \in SUBSET Nat, IsFiniteSet(S)
    PROVE  /\ Cardinality(S) \in Nat
           /\ Ascending(S) \in [1..Cardinality(S) -> S]
           /\ \A x \in S : \E p \in 1..Cardinality(S) : Ascending(S)[p] = x
           /\ \A p, q \in 1..Cardinality(S) : Ascending(S)[p] = Ascending(S)[q] => p = q
<1> DEFINE ahead == [x \in S |-> {j \in S : j <= x}]
           place == [x \in S |-> Cardinality(ahead[x])]
           n == Cardinality(S)
<1>1. n \in Nat
  BY FS_CardinalityType
<1>5. ASSUME NEW x \in S PROVE place[x] \in 1..n
  <2>1. x \in ahead[x] /\ ahead[x] \subseteq S
    OBVIOUS
  <2> HIDE DEF ahead
  <2>2. IsFiniteSet(ahead[x]) /\ Cardinality(ahead[x]) <= n
    BY <2>1, FS_Subset
  <2>3. Cardinality(ahead[x]) \in Nat /\ Cardinality(ahead[x]) # 0
    BY <2>1, <2>2, FS_CardinalityType, FS_EmptySet
  <2>4. place[x] = Cardinality(ahead[x])
    OBVIOUS
  <2> QED
    BY <1>1, <2>2, <2>3, <2>4
<1>6. ASSUME NEW x \in S, NEW y \in S, place[x] = place[y] PROVE x = y
  <2> DEFINE c == Cardinality(ahead[x])
  <2>1. c = Cardinality(ahead[y]) /\ place[x] = c
    BY <1>6
  <2>2. ahead[x] \subseteq ahead[y] \/ ahead[y] \subseteq ahead[x]
    <3>1. ASSUME x <= y PROVE ahead[x] \subseteq ahead[y]
      <4> SUFFICES ASSUME NEW j \in S, j <= x PROVE j <= y
        OBVIOUS
      <4>1. j \in Nat /\ x \in Nat /\ y \in Nat
        OBVIOUS
      <4> QED
        BY <3>1, <4>1
    <3>2. ASSUME y <= x PROVE ahead[y] \subseteq ahead[x]
      <4> SUFFICES ASSUME NEW j \in S, j <= y PROVE j <= x
        OBVIOUS
      <4>1. j \in Nat /\ x \in Nat /\ y \in Nat
        OBVIOUS
      <4> QED
        BY <3>2, <4>1
    <3>3. x <= y \/ y <= x
      OBVIOUS
    <3> QED
      BY <3>1, <3>2, <3>3
  <2>3. IsFiniteSet(ahead[x]) /\ IsFiniteSet(ahead[y])
    <3>1. ahead[x] \subseteq S /\ ahead[y] \subseteq S
      OBVIOUS
    <3> HIDE DEF ahead
    <3> QED
      BY <3>1, FS_Subset
  <2>4. x \in ahead[x] /\ y \in ahead[y]
    OBVIOUS
  <2>5. ahead[x] = ahead[y]
    <3> HIDE DEF ahead
    <3> QED
      BY <2>1, <2>2, <2>3, FS_Subset
  <2>6. x \in ahead[y] /\ y \in ahead[x]
    BY <2>4, <2>5
  <2> QED
    BY <2>6
<1>2. \A p \in 1..n : \E x \in S : place[x] = p
  <2>1. place \in [S -> 1..n]
    <3>1. place = [x \in S |-> Cardinality(ahead[x])]
      OBVIOUS
    <3> HIDE DEF place, n
    <3> QED
      BY <1>5, <3>1
  <2>2. \A x, y \in S : place[x] = place[y] => x = y
    <3> HIDE DEF place
    <3> QED
      BY <1>6
  <2> HIDE DEF place
  <2> QED
    BY <2>1, <2>2, OrderedIs
<1> DEFINE Place(x) == Cardinality({j \in S : j <= x})
<1>3. Ascending(S) = [p \in 1..n |-> CHOOSE x \in S : Place(x) = p]
  BY DEF Ascending
<1>9. \A x \in S : place[x] = Place(x)
  OBVIOUS
<1>4. \A p \in 1..n : Ascending(S)[p] \in S /\ place[Ascending(S)[p]] = p
  <2> SUFFICES ASSUME NEW p \in 1..n
               PROVE  Ascending(S)[p] \in S /\ place[Ascending(S)[p]] = p
    OBVIOUS
  <2> HIDE DEF place, n, Place
  <2>1. Ascending(S)[p] = CHOOSE x \in S : Place(x) = p
    BY <1>3
  <2>2. \E x \in S : Place(x) = p
    BY <1>2, <1>9
  <2>3. Ascending(S)[p] \in S /\ Place(Ascending(S)[p]) = p
    BY <2>1, <2>2
  <2> QED
    BY <1>9, <2>3
<1>7. \A x \in S : Ascending(S)[place[x]] = x
  <2> HIDE DEF place, n
  <2> QED
    BY <1>4, <1>5, <1>6
<1>8. Ascending(S) \in [1..n -> S]
  <2> HIDE DEF place, n
  <2> QED
    BY <1>3, <1>4
<1> HIDE DEF place
<1> QED
  BY <1>1, <1>4, <1>5, <1>7, <1>8

(* What is kept of a list is what stands at the chosen places.                *)
LEMMA KeptIs ==
    ASSUME NEW s, IsList(s), NEW S \in SUBSET DOMAIN s
    PROVE  /\ IsFiniteSet(S) /\ Cardinality(S) \in Nat
           /\ IsList(Kept(s, S)) /\ DOMAIN Kept(s, S) = 1..Cardinality(S)
           /\ Len(Kept(s, S)) = Cardinality(S)
           /\ \A p \in 1..Cardinality(S) : Ascending(S)[p] \in S
                                           /\ Kept(s, S)[p] = s[Ascending(S)[p]]
           /\ Range(Kept(s, S)) = {s[i] : i \in S}
<1> DEFINE n == Cardinality(S)
           k == Kept(s, S)
<1>1. DOMAIN s = 1..Len(s) /\ Len(s) \in Nat
  BY ListIsFinite
<1>2. S \in SUBSET Nat /\ IsFiniteSet(S)
  <2> DEFINE m == Len(s)
  <2>1. m \in Int /\ 1 \in Int /\ S \subseteq 1..m
    BY <1>1
  <2> HIDE DEF m
  <2>2. IsFiniteSet(1..m)
    BY <2>1, FS_Interval
  <2>3. IsFiniteSet(S)
    BY <2>1, <2>2, FS_Subset
  <2> QED
    BY <2>1, <2>3
<1>3. /\ n \in Nat /\ Ascending(S) \in [1..n -> S]
      /\ \A x \in S : \E p \in 1..n : Ascending(S)[p] = x
  BY <1>2, AscendingIs
<1>4. k = [p \in 1..n |-> s[Ascending(S)[p]]]
  BY DEF Kept
<1> HIDE DEF n, k
<1>5. \A p \in 1..n : Ascending(S)[p] \in S /\ k[p] = s[Ascending(S)[p]]
  BY <1>3, <1>4
<1>6. IsList(k) /\ Len(k) = n /\ DOMAIN k = 1..n
  <2>1. k = [p \in 1..n |-> k[p]]
    BY <1>4
  <2> QED
    BY <1>3, <2>1, ListOf
<1>7. Range(k) = {s[i] : i \in S}
  <2>1. Range(k) = {k[p] : p \in 1..n}
    BY <1>6 DEF Range
  <2> QED
    BY <1>3, <1>5, <2>1
<1> QED
  BY <1>2, <1>3, <1>5, <1>6, <1>7 DEF n, k

(* A list mapped is a list of the same length.                                *)
LEMMA MapIsList ==
    ASSUME NEW s, IsList(s), NEW g, g = [i \in DOMAIN s |-> g[i]]
    PROVE  IsList(g) /\ Len(g) = Len(s) /\ DOMAIN g = 1..Len(s) /\ DOMAIN g = DOMAIN s
<1>1. DOMAIN s = 1..Len(s) /\ Len(s) \in Nat
  BY ListIsFinite
<1> DEFINE n == Len(s)
<1>2. n \in Nat /\ g = [i \in 1..n |-> g[i]]
  BY <1>1
<1> HIDE DEF n
<1>3. IsList(g) /\ Len(g) = n /\ DOMAIN g = 1..n
  BY <1>2, ListOf
<1> QED
  BY <1>1, <1>3 DEF n

-----------------------------------------------------------------------------
(* The fields of a template.                                                  *)

(* The lists a template file is read from.                                    *)
Listed(raw) ==
    /\ \A g \in DOMAIN raw.groups : IsList(raw.groups[g].fields)
    /\ \A t \in Range(raw.templates) :
        /\ IsList(t.groups) /\ IsList(t.fields)
        /\ \A r \in Range(t.groups) : IsList(r.instances)

(* A field of a group, in one of the places a template refers to the group at. *)
FieldAt(t, groups, r, i, k) ==
    _resolve_group_field(groups[t.groups[r].use].fields[k], Places(t.groups[r], groups)[i],
                         UsesLegacy(t))

(* The places of a reference are a list, and so are the fields of its group.  *)
LEMMA PlacesAreListed ==
    ASSUME NEW raw, Loads(raw), Listed(raw), NEW t \in Range(raw.templates),
           NEW r \in DOMAIN t.groups
    PROVE  /\ IsList(Places(t.groups[r], raw.groups))
           /\ IsList(raw.groups[t.groups[r].use].fields)
<1> DEFINE ref == t.groups[r]
<1>1. ref \in Range(t.groups) /\ RefsHonoured(t, raw.groups)
  BY DEF Range, Loads
<1>2. IsList(ref.instances) /\ ref.use \in DOMAIN raw.groups
  BY <1>1 DEF RefsHonoured, RefHonoured, Listed
<1>3. IsList(raw.groups[ref.use].fields)
  BY <1>2 DEF Listed
<1>4. IsList(Places(ref, raw.groups))
  <2> DEFINE at(inst) == Instance(ref, ref.use, raw.groups[ref.use], inst)
             one == at(None)
             many == [i \in DOMAIN ref.instances |-> at(ref.instances[i])]
  <2>1. Places(ref, raw.groups) = IF ref.instances = <<>> THEN <<one>> ELSE many
    BY DEF Places
  <2>2. IsList(many)
    <3>1. many = [i \in DOMAIN ref.instances |-> many[i]]
      OBVIOUS
    <3> HIDE DEF many
    <3> QED
      BY <1>2, <3>1, MapIsList
  <2>3. IsList(<<one>>)
    <3> HIDE DEF one
    <3>1. <<one>> \in Seq({one})
      OBVIOUS
    <3> QED
      BY <3>1, SeqIsList
  <2> QED
    BY <2>1, <2>2, <2>3
<1> QED
  BY <1>3, <1>4

(* The fields of a template that loaded: a list, no key of it twice, and each *)
(* field of a group in it once for each place it is referred to.              *)
LEMMA ExpandedIs ==
    ASSUME NEW raw, Loads(raw), Listed(raw), NEW t \in Range(raw.templates)
    PROVE  /\ IsList(_expand_template_fields(t, raw.groups))
           /\ KeysUnique(t, raw.groups)
           /\ \A r \in DOMAIN t.groups : \A i \in DOMAIN Places(t.groups[r], raw.groups) :
                \A k \in DOMAIN raw.groups[t.groups[r].use].fields :
                    FieldAt(t, raw.groups, r, i, k) \in
                        Range(_expand_template_fields(t, raw.groups))
<1> DEFINE G == raw.groups
           Of(r) == raw.groups[t.groups[r].use].fields
           Part(r, i) == [k \in DOMAIN Of(r) |-> FieldAt(t, G, r, i, k)]
           Ref(r) == [i \in DOMAIN Places(t.groups[r], G) |-> Part(r, i)]
           all == [r \in DOMAIN t.groups |-> FlattenSeq(Ref(r))]
<1>1. KeysUnique(t, G) /\ IsList(t.groups) /\ IsList(t.fields)
  BY DEF Loads, Range, Listed
<1>2. GroupFields(t, G) = FlattenSeq(all)
  BY DEF GroupFields, FieldAt
<1>3. ASSUME NEW r \in DOMAIN t.groups
      PROVE  /\ IsList(FlattenSeq(Ref(r)))
             /\ \A i \in DOMAIN Places(t.groups[r], G) : \A k \in DOMAIN Of(r) :
                    FieldAt(t, G, r, i, k) \in Range(FlattenSeq(Ref(r)))
  <2> DEFINE g == Ref(r)
  <2>1. IsList(Places(t.groups[r], G)) /\ IsList(Of(r))
    BY PlacesAreListed
  <2>2. IsList(g) /\ DOMAIN g = DOMAIN Places(t.groups[r], G)
    <3>1. g = [i \in DOMAIN Places(t.groups[r], G) |-> g[i]]
      OBVIOUS
    <3> HIDE DEF g
    <3> QED
      BY <2>1, <3>1, MapIsList DEF g
  <2>3. ASSUME NEW i \in DOMAIN g
        PROVE  /\ IsList(g[i])
               /\ \A k \in DOMAIN Of(r) : FieldAt(t, G, r, i, k) \in Range(g[i])
    <3> DEFINE h == Part(r, i)
    <3>1. h = [k \in DOMAIN Of(r) |-> h[k]] /\ \A k \in DOMAIN Of(r) : h[k] = FieldAt(t, G, r, i, k)
      OBVIOUS
    <3>2. g[i] = h
      BY <2>2, <2>3
    <3> HIDE DEF h, g
    <3>3. IsList(h) /\ DOMAIN h = DOMAIN Of(r)
      BY <2>1, <3>1, MapIsList
    <3> QED
      BY <3>1, <3>2, <3>3 DEF Range
  <2> HIDE DEF g
  <2>4. IsList(FlattenSeq(g)) /\ Range(FlattenSeq(g)) = UNION {Range(g[i]) : i \in DOMAIN g}
    BY <2>2, <2>3, FlattenRange
  <2>5. \A i \in DOMAIN g : \A k \in DOMAIN Of(r) : FieldAt(t, G, r, i, k) \in Range(FlattenSeq(g))
    BY <2>3, <2>4
  <2> QED
    BY <2>2, <2>4, <2>5 DEF g
<1>4. /\ all = [r \in DOMAIN t.groups |-> all[r]]
      /\ \A r \in DOMAIN t.groups : all[r] = FlattenSeq(Ref(r))
  OBVIOUS
<1> HIDE DEF all
<1>5. IsList(all) /\ DOMAIN all = DOMAIN t.groups /\ \A r \in DOMAIN all : IsList(all[r])
  <2>1. IsList(all) /\ DOMAIN all = DOMAIN t.groups
    BY <1>1, <1>4, MapIsList
  <2> QED
    BY <1>3, <1>4, <2>1
<1>6. IsList(FlattenSeq(all)) /\ Range(FlattenSeq(all)) = UNION {Range(all[r]) : r \in DOMAIN all}
  BY <1>5, FlattenRange
<1>7. IsList([i \in DOMAIN t.fields |-> _resolve_local_field(t.fields[i])])
  <2> DEFINE g == [i \in DOMAIN t.fields |-> _resolve_local_field(t.fields[i])]
  <2>1. g = [i \in DOMAIN t.fields |-> g[i]]
    OBVIOUS
  <2> HIDE DEF g
  <2> QED
    BY <1>1, <2>1, MapIsList DEF g
<1>8. /\ IsList(_expand_template_fields(t, G))
      /\ Range(FlattenSeq(all)) \subseteq Range(_expand_template_fields(t, G))
  BY <1>2, <1>6, <1>7, BothLists DEF _expand_template_fields
<1>9. ASSUME NEW r \in DOMAIN t.groups, NEW i \in DOMAIN Places(t.groups[r], G),
             NEW k \in DOMAIN Of(r)
      PROVE  FieldAt(t, G, r, i, k) \in Range(_expand_template_fields(t, G))
  BY <1>3, <1>4, <1>5, <1>6, <1>8
<1> QED
  BY <1>1, <1>8, <1>9

-----------------------------------------------------------------------------
(* The rules of a registry in use.                                            *)

(* What a reference requires comes out required, under its own key.           *)
LEMMA RequiredComesOut ==
    ASSUME NEW raw, Loads(raw), Listed(raw), NEW t \in Range(raw.templates),
           NEW n \in DOMAIN t.groups, None \notin Range(t.groups[n].instances),
           NEW k \in t.groups[n].require
                \cup UNION {x.require : x \in Range(t.groups[n].instances)}
    PROVE  LET fs == Range(_expand_template_fields(t, raw.groups))
               r == t.groups[n]
           IN /\ \E f \in fs : f.required /\ f.source = r.use
              /\ \A x \in Range(r.instances) : k \in x.require =>
                    \E f \in fs : f.required /\ f.key = Key(x.prefix, k)
<1> DEFINE r == t.groups[n]
           G == raw.groups
           spec == G[r.use].fields
           P == Places(r, G)
           fs == Range(_expand_template_fields(t, G))
<1>1. RefHonoured(r, G) /\ IsList(r.instances)
  BY DEF Loads, Range, RefsHonoured, Listed
<1>2. \A i \in DOMAIN P : \A j \in DOMAIN spec : FieldAt(t, G, n, i, j) \in fs
  BY ExpandedIs
<1>3. ASSUME NEW i \in DOMAIN P, NEW j \in DOMAIN spec
      PROVE  /\ FieldAt(t, G, n, i, j).key = Key(P[i].prefix, spec[j].key)
             /\ FieldAt(t, G, n, i, j).required = (spec[j].key \in P[i].require)
             /\ FieldAt(t, G, n, i, j).source = P[i].source
  BY DEF FieldAt, _resolve_group_field
<1>4. CASE r.instances = <<>>
  <2>1. P = <<Instance(r, r.use, G[r.use], None)>>
    BY <1>4 DEF Places
  <2>2. /\ 1 \in DOMAIN P /\ P[1].require = r.require /\ P[1].source = r.use
    BY <2>1 DEF Instance
  <2>3. Range(r.instances) = {}
    BY <1>4 DEF Range
  <2>4. k \in r.require
    BY <2>3
  <2>5. PICK j \in DOMAIN spec : spec[j].key = k
    BY <1>1, <1>4, <2>4 DEF RefHonoured
  <2> HIDE DEF P, spec, fs, G
  <2>6. FieldAt(t, G, n, 1, j) \in fs /\ FieldAt(t, G, n, 1, j).required
        /\ FieldAt(t, G, n, 1, j).source = r.use
    BY <1>2, <1>3, <2>2, <2>4, <2>5
  <2> QED
    BY <2>3, <2>6 DEF fs, G
<1>5. CASE r.instances # <<>>
  <2>1. P = [i \in DOMAIN r.instances |-> Instance(r, r.use, G[r.use], r.instances[i])]
    BY <1>5 DEF Places
  <2>2. /\ r.require = {}
        /\ \A i \in DOMAIN r.instances :
            /\ r.instances[i].prefix # None
            /\ r.instances[i].require \subseteq {spec[j].key : j \in DOMAIN spec}
    BY <1>1, <1>5 DEF RefHonoured
  <2>3. \A x \in Range(r.instances) : \E i \in DOMAIN r.instances : x = r.instances[i]
    BY DEF Range
  <2>4. ASSUME NEW x \in Range(r.instances), k \in x.require
        PROVE  \E f \in fs : f.required /\ f.key = Key(x.prefix, k) /\ f.source = r.use
    <3>1. PICK i \in DOMAIN r.instances : x = r.instances[i]
      BY <2>3
    <3>2. x # None
      BY <2>4
    <3>3. /\ i \in DOMAIN P /\ P[i].prefix = x.prefix /\ P[i].require = x.require
          /\ P[i].source = r.use
      <4>1. i \in DOMAIN P /\ P[i] = Instance(r, r.use, G[r.use], x)
        BY <2>1, <3>1
      <4> HIDE DEF P, G
      <4> QED
        BY <3>2, <4>1 DEF Instance
    <3>4. PICK j \in DOMAIN spec : spec[j].key = k
      BY <2>2, <2>4, <3>1
    <3> HIDE DEF P, spec, fs, G
    <3>5. FieldAt(t, G, n, i, j) \in fs
      BY <1>2, <3>3, <3>4
    <3>6. /\ FieldAt(t, G, n, i, j).required /\ FieldAt(t, G, n, i, j).source = r.use
          /\ FieldAt(t, G, n, i, j).key = Key(x.prefix, k)
      BY <1>3, <2>4, <3>3, <3>4
    <3> QED
      BY <3>5, <3>6
  <2> QED
    BY <2>2, <2>4
<1> QED
  BY <1>4, <1>5

(* A reading of a page depends on its words alone.                            *)
LEMMA ReadsAlike ==
    ASSUME RInv PROVE MarksDoNotMatter
<1> SUFFICES ASSUME verdict # None, NEW other,
                    [i \in DOMAIN other |-> other[i].w] = [i \in DOMAIN page |-> page[i].w]
             PROVE  classify(rank(Text(other), registry), llm, registry, verdict.error) = verdict
  BY DEF MarksDoNotMatter
<1>1. Text(other) = Text(page)
  BY DEF Text, normalize
<1>2. verdict = classify(Ranked, llm, registry, verdict.error)
  BY DEF RInv, VerdictIs
<1> QED
  BY <1>1, <1>2 DEF Ranked

(* A registry in use requires what its file requires.                         *)
LEMMA StaysRequired ==
    ASSUME RInv PROVE RequiredStaysRequired
<1> SUFFICES ASSUME registry # None PROVE RequiredStaysRequired
  BY DEF RequiredStaysRequired
<1>1. PICK raw \in RAWS : Loads(raw) /\ registry = load_registry(raw)
  BY DEF RInv, Used
<1>2. Listed(raw) /\ \A t \in Range(raw.templates) : \A r \in Range(t.groups) :
            None \notin Range(r.instances)
  BY FileAssumption DEF Listed, Range
<1>3. ASSUME NEW i \in DOMAIN raw.templates
      PROVE  LET fs == Range(registry.templates[i].fields)
                 must(r) == r.require \cup UNION {x.require : x \in Range(r.instances)}
             IN \A r \in Range(raw.templates[i].groups) : \A k \in must(r) :
                    /\ \E f \in fs : f.required /\ f.source = r.use
                    /\ \A x \in Range(r.instances) : k \in x.require =>
                        \E f \in fs : f.required /\ f.key = Key(x.prefix, k)
  <2> DEFINE t == raw.templates[i]
             fs == Range(_expand_template_fields(t, raw.groups))
  <2>1. registry.templates[i].fields = _expand_template_fields(t, raw.groups)
    BY <1>1 DEF load_registry, Template
  <2>2. t \in Range(raw.templates)
    BY DEF Range
  <2>3. ASSUME NEW r \in Range(t.groups),
               NEW k \in r.require \cup UNION {x.require : x \in Range(r.instances)}
        PROVE  /\ \E f \in fs : f.required /\ f.source = r.use
               /\ \A x \in Range(r.instances) : k \in x.require =>
                    \E f \in fs : f.required /\ f.key = Key(x.prefix, k)
    <3>1. PICK n \in DOMAIN t.groups : r = t.groups[n]
      BY DEF Range
    <3>2. None \notin Range(t.groups[n].instances)
      BY <1>2, <2>2, <3>1
    <3> QED
      BY <1>1, <1>2, <2>2, <3>1, <3>2, RequiredComesOut
  <2> QED
    BY <2>1, <2>3
<1> QED
  BY <1>1, <1>3 DEF RequiredStaysRequired

(* What Max chooses of some numbers up to a limit.                            *)
LEMMA MaxIs ==
    ASSUME NEW n \in Nat, NEW T \in SUBSET (0..n), T # {}
    PROVE  Max(T) \in T /\ \A y \in T : Max(T) >= y
<1> DEFINE B == {n - x : x \in T}
<1>0. \A x \in T : x \in Nat /\ x <= n
  OBVIOUS
<1>1. B \in SUBSET Nat /\ B # {}
  <2>1. \A x \in T : n - x \in Nat
    BY <1>0
  <2>2. B \subseteq Nat
    BY <2>1
  <2> QED
    BY <2>2
<1>2. PICK b \in B : \A d \in B : b <= d
  <2> HIDE DEF B
  <2> QED
    BY <1>1, LeastNumber
<1>3. PICK x \in T : b = n - x
  OBVIOUS
<1>4. \A y \in T : x >= y
  <2> SUFFICES ASSUME NEW y \in T PROVE x >= y
    OBVIOUS
  <2>1. b <= n - y
    BY <1>2
  <2>2. x \in Int /\ y \in Int
    BY <1>0
  <2> QED
    BY <1>3, <2>1, <2>2
<1>5. \E z \in T : \A y \in T : z >= y
  BY <1>4
<1> QED
  BY <1>5, Zenon DEF Max

(* What the loader sees to in an anchor, and what a file has written into it. *)
Checked(a, sections, markers) ==
    /\ a.in_section \ {""} \subseteq sections /\ None \notin a.in_section
    /\ "" \notin sections /\ Filler \notin sections /\ Filler \notin NotBefore(a, markers)
    /\ a.window \in Int /\ a.within \in Int \cup {None}

(* A companion is looked for within a whole number of phrases.                *)
LEMMA ReachIs ==
    ASSUME NEW a, NEW sections, NEW markers, Checked(a, sections, markers)
    PROVE  Reach(a) \in Int
<1>1. a.within \in Int \cup {None}
  BY DEF Checked
<1>4. Within \in Int
  BY TierAssumption
<1>2. CASE a.within = None
  BY <1>2, <1>4 DEF Reach
<1>3. CASE a.within # None
  BY <1>1, <1>3 DEF Reach
<1> QED
  BY <1>2, <1>3

(* A page with an anchor no gate of which can be met does not fire it.        *)
LEMMA StifledIsSilent ==
    ASSUME NEW a, NEW sections, NEW markers, NEW words, NEW n \in Nat, DOMAIN words = 1..n,
           Stifled(a), Checked(a, sections, markers)
    PROVE  ~_anchor_fires(a, words, sections, markers)
<1>4. ~(Reach(a) < 1 /\ Reach(a) >= 1)
  <2>1. Reach(a) \in Int
    BY ReachIs
  <2> QED
    BY <2>1
<1>5. \A T \in SUBSET (1..n) : T \in SUBSET (0..n)
  OBVIOUS
<1> SUFFICES ASSUME a.text # "", NEW pos \in DOMAIN words,
                    Survives(a, words, sections, markers, pos)
             PROVE  FALSE
  BY DEF _anchor_fires, _iter_hits
<1>1. CASE "" \in a.not_preceded_by
  BY <1>1 DEF Survives
<1>2. CASE /\ a.co_occurs_with # {}
           /\ \A c \in a.co_occurs_with \ {""} : Reach(a) < 1 /\ ~InOwnWords(a, c)
  <2>1. PICK c \in a.co_occurs_with \ {""} : InOwnWords(a, c) \/ Reach(a) >= 1
    BY <1>2 DEF Survives, Beside
  <2>2. Reach(a) < 1 /\ ~InOwnWords(a, c)
    BY <1>2
  <2> QED
    BY <1>4, <2>1, <2>2
<1>3. CASE a.in_section = {""}
  <2> DEFINE heads == {i \in DOMAIN words : i <= pos /\ words[i] \in sections}
  <2>1. _section_at(words, sections, pos) \in a.in_section
    BY <1>3 DEF Survives
  <2>2. heads # {} /\ words[Max(heads)] = ""
    BY <1>3, <2>1 DEF _section_at, Checked
  <2>3. Max(heads) \in heads
    <3>1. heads \in SUBSET (0..n)
      <4>1. heads \in SUBSET (1..n)
        OBVIOUS
      <4> HIDE DEF heads
      <4> QED
        BY <1>5, <4>1
    <3> HIDE DEF heads
    <3> QED
      BY <2>2, <3>1, MaxIs
  <2> QED
    BY <2>2, <2>3 DEF Checked
<1> QED
  BY <1>1, <1>2, <1>3 DEF Stifled

(* An anchor that is neither stifled nor shadowed fires on the page it asks   *)
(* for.                                                                       *)
LEMMA FiresUnless ==
    ASSUME NEW a, NEW sections, NEW markers, Checked(a, sections, markers),
           ~Stifled(a), ~Shadowed(a, sections)
    PROVE  \E s \in a.in_section \cup {Filler}, c \in a.co_occurs_with \cup {Filler} :
                _anchor_fires(a, PageFor(a, s, c), sections, markers)
<1>1. PICK s \in a.in_section \cup {Filler} :
            a.in_section # {} => s \in a.in_section /\ s \in sections
  <2>1. CASE a.in_section = {}
    BY <2>1
  <2>2. CASE a.in_section # {}
    <3>1. PICK x \in a.in_section : x # ""
      BY <2>2 DEF Stifled
    <3> QED
      BY <3>1 DEF Checked
  <2> QED
    BY <2>1, <2>2
<1>2. PICK c \in a.co_occurs_with \cup {Filler} :
            a.co_occurs_with # {} => /\ c \in a.co_occurs_with \ {""}
                                     /\ ~(Reach(a) < 1) \/ InOwnWords(a, c)
  BY DEF Stifled
<1> DEFINE p == PageFor(a, s, c)
           w == a.text
           m == RunUp(a)
<1>3. m \in Nat /\ m >= a.window
  <2> DEFINE w0 == a.window
  <2>1. \E x \in {0, w0} : \A y \in {0, w0} : x >= y
    <3>1. w0 \in Int
      BY DEF Checked
    <3> HIDE DEF w0
    <3> QED
      BY <3>1
  <2>2. Max({0, w0}) \in {0, w0} /\ \A y \in {0, w0} : Max({0, w0}) >= y
    <3> HIDE DEF w0
    <3> QED
      BY <2>1, Zenon DEF Max
  <2>3. w0 \in Int /\ m = Max({0, w0})
    BY DEF Checked, RunUp
  <2> HIDE DEF w0, m
  <2>4. m \in Nat /\ m >= w0
    BY <2>2, <2>3
  <2> QED
    BY <2>4 DEF w0
<1> DEFINE at == m + 2
<1>4. /\ DOMAIN p = 1..(m + 3) /\ p[1] = s /\ p[at] = w /\ p[m + 3] = c
      /\ \A i \in 2..(m + 1) : p[i] = Filler
  <2>1. p = [i \in 1..(m + 3) |->
                CASE i = 1 -> s [] i = m + 2 -> w [] i = m + 3 -> c [] OTHER -> Filler]
    BY DEF PageFor
  <2> HIDE DEF p, w, m
  <2>2. 1 \in 1..(m + 3) /\ m + 2 \in 1..(m + 3) /\ m + 3 \in 1..(m + 3)
        /\ m + 2 # 1 /\ m + 3 # 1 /\ m + 3 # m + 2
    BY <1>3
  <2>3. \A i \in 2..(m + 1) : i \in 1..(m + 3) /\ i # 1 /\ i # m + 2 /\ i # m + 3
    BY <1>3
  <2> QED
    BY <2>1, <2>2, <2>3
<1>5. at \in DOMAIN p /\ at - a.window >= 2 /\ at \in Int /\ a.window \in Int
  <2>1. a.window \in Int
    BY DEF Checked
  <2> HIDE DEF p, w, m
  <2> QED
    BY <1>3, <1>4, <2>1
<1> HIDE DEF p, w, m
<1>6. at \in _iter_hits(p, w)
  BY <1>4, <1>5 DEF _iter_hits
<1>7. ~Occurs(p, NotBefore(a, markers), at - a.window, at - 1)
  <2> SUFFICES ASSUME NEW x \in NotBefore(a, markers), NEW i \in _iter_hits(p, x),
                      at - a.window <= i, i <= at - 1
               PROVE  FALSE
    BY DEF Occurs
  <2>1. i \in 1..(m + 3) /\ (p[i] = x \/ <<x, p[i]>> \in PartOf)
    BY <1>4 DEF _iter_hits
  <2>2. i \in 2..(m + 1)
    BY <1>3, <1>5, <2>1
  <2>3. p[i] = Filler
    BY <1>4, <2>2
  <2>5. Filler \notin NotBefore(a, markers)
    BY DEF Checked
  <2>4. <<x, Filler>> \notin PartOf
    BY FillerAssumption
  <2> QED
    BY <2>1, <2>3, <2>4, <2>5
<1>8. a.co_occurs_with # {} => Beside(a, p, at)
  <2> SUFFICES ASSUME a.co_occurs_with # {}, ~(Reach(a) < 1) PROVE Beside(a, p, at)
    BY <1>2 DEF Beside
  <2>1. Reach(a) \in Int
    BY ReachIs
  <2>2. m + 3 \in _iter_hits(p, c)
    BY <1>3, <1>4 DEF _iter_hits
  <2>3. Reach(a) >= 1 /\ at - Reach(a) <= m + 3 /\ m + 3 <= at + Reach(a)
    BY <1>3, <2>1
  <2>4. Occurs(p, {c}, at - Reach(a), at + Reach(a))
    BY <2>2, <2>3 DEF Occurs
  <2> QED
    BY <1>2, <2>3, <2>4 DEF Beside
<1>9. a.in_section # {} => _section_at(p, sections, at) \in a.in_section
  <2> SUFFICES ASSUME a.in_section # {} PROVE _section_at(p, sections, at) \in a.in_section
    OBVIOUS
  <2> DEFINE heads == {i \in DOMAIN p : i <= at /\ p[i] \in sections}
  <2>1. s \in a.in_section /\ s \in sections
    BY <1>1
  <2>2. 1 \in heads /\ heads \subseteq {1, at}
    <3>1. \A i \in 1..(m + 3) : i <= at => i = 1 \/ i = at \/ i \in 2..(m + 1)
      BY <1>3
    <3>2. 1 \in 1..(m + 3) /\ 1 <= at
      BY <1>3
    <3>3. heads = {i \in 1..(m + 3) : i <= at /\ p[i] \in sections}
      BY <1>4
    <3>4. \A i \in 2..(m + 1) : p[i] \notin sections
      BY <1>4 DEF Checked
    <3>5. p[1] \in sections
      BY <1>4, <2>1
    <3> HIDE DEF heads
    <3> QED
      BY <3>1, <3>2, <3>3, <3>4, <3>5
  <2>3. _section_at(p, sections, at) = p[Max(heads)]
    BY <2>2 DEF _section_at
  <2>4. Max(heads) \in heads
    <3>1. m + 3 \in Nat /\ heads \in SUBSET (0..(m + 3)) /\ heads # {}
      BY <1>3, <1>4, <2>2
    <3> HIDE DEF heads
    <3> QED
      BY <3>1, MaxIs
  <2>5. CASE Max(heads) = 1
    BY <1>4, <2>1, <2>3, <2>5
  <2>6. CASE Max(heads) = at
    BY <1>4, <2>3, <2>4, <2>6 DEF Shadowed, w
  <2> QED
    BY <2>2, <2>4, <2>5, <2>6
<1>10. "" \notin a.not_preceded_by /\ w # ""
  BY DEF Stifled, w
<1>11. Survives(a, p, sections, markers, at)
  BY <1>7, <1>8, <1>9, <1>10 DEF Survives
<1>12. _anchor_fires(a, p, sections, markers)
  BY <1>6, <1>10, <1>11 DEF _anchor_fires, w
<1> QED
  BY <1>12 DEF p

(* A rule of a registry in use can score: the loader leaves no anchor a gate  *)
(* it cannot meet but the ones it does not look at.                           *)
LEMMA LoadedCanScore ==
    ASSUME RInv PROVE EveryAnchorCanFire
<1> SUFFICES ASSUME registry # None PROVE EveryAnchorCanFire
  BY DEF EveryAnchorCanFire
<1>1. PICK raw \in RAWS : Loads(raw) /\ registry = load_registry(raw)
  BY DEF RInv, Used
<1>2. registry.markers = Phrases(raw.markers)
  BY <1>1 DEF load_registry
<1>3. ASSUME NEW t \in Range(registry.templates)
      PROVE  /\ \A a \in t.anchors : Checked(a, t.sections, registry.markers)
             /\ \A r \in t.anchor_regexes : r.text \in Patterns
  <2>1. PICK i \in DOMAIN raw.templates : t = Template(raw.templates[i], raw)
    BY <1>1 DEF load_registry, Range
  <2> DEFINE u == raw.templates[i]
  <2>2. GatesDeclared(u) /\ RegexesNormal(u) /\ u \in Range(raw.templates)
    BY <1>1 DEF Loads, Range
  <2>3. Scorable(t)
    BY <2>1, TemplateIsScorable
  <2>4. /\ t.anchors = {_build_anchors(a, Phrases(raw.neutral)) : a \in Range(u.anchors)}
        /\ t.sections = Phrases(u.sections)
        /\ t.anchor_regexes = {_build_regexes(r) : r \in Range(u.anchor_regexes)}
    BY <2>1 DEF Template
  <2>5. \A b \in Range(u.anchors) : b.within \in Int \cup {None} /\ None \notin Normal(b.in_section)
    BY FileAssumption
  <2>6. Filler \notin Normal(u.sections) /\ Filler \notin registry.markers
        /\ \A b \in Range(u.anchors) : Filler \notin Normal(b.not_preceded_by)
    BY <1>2, <2>2, FillerAssumption DEF Phrases
  <2> HIDE DEF u
  <2>9. "" \notin t.sections /\ Filler \notin t.sections
    BY <2>4, <2>6 DEF Phrases
  <2>7. ASSUME NEW a \in t.anchors PROVE Checked(a, t.sections, registry.markers)
    <3>1. PICK b \in Range(u.anchors) : a = _build_anchors(b, Phrases(raw.neutral))
      BY <2>4
    <3>2. a.in_section = Normal(b.in_section) /\ a.within = b.within
          /\ a.not_preceded_by = Normal(b.not_preceded_by)
      BY <3>1 DEF _build_anchors
    <3>3. a.in_section \ {""} \subseteq t.sections
      BY <2>2, <2>4, <3>2 DEF GatesDeclared, Phrases
    <3>4. a.window \in Int
      BY <2>3 DEF Scorable
    <3>5. Filler \notin NotBefore(a, registry.markers)
      BY <2>6, <3>2 DEF NotBefore
    <3> QED
      BY <2>5, <2>9, <3>2, <3>3, <3>4, <3>5 DEF Checked
  <2>8. ASSUME NEW r \in t.anchor_regexes PROVE r.text \in Patterns
    <3>1. PICK x \in Range(u.anchor_regexes) : r.text = Verbatim(x.pattern)
      BY <2>4 DEF _build_regexes
    <3>2. r.text = x.pattern.w
      BY <2>2, <3>1 DEF RegexesNormal, Verbatim
    <3> QED
      BY <2>2, <3>1, <3>2 DEF Patterns
  <2> QED
    BY <2>7, <2>8
<1>4. ASSUME NEW t \in Range(registry.templates), NEW a \in scoring_anchors(t)
      PROVE  IF Stifled(a)
             THEN \A x \in TEXTS : ~_anchor_fires(a, Text(x), t.sections, registry.markers)
             ELSE \/ Shadowed(a, t.sections)
                  \/ \E s \in a.in_section \cup {Filler}, c \in a.co_occurs_with \cup {Filler} :
                        _anchor_fires(a, PageFor(a, s, c), t.sections, registry.markers)
  <2>1. Checked(a, t.sections, registry.markers)
    BY <1>3, <1>4 DEF scoring_anchors
  <2>2. ASSUME NEW x \in TEXTS, Stifled(a)
        PROVE  ~_anchor_fires(a, Text(x), t.sections, registry.markers)
    <3>1. x \in Seq(Strings)
      BY FileAssumption
    <3>2. DOMAIN Text(x) = 1..Len(x) /\ Len(x) \in Nat
      BY <3>1 DEF Text
    <3> QED
      BY <2>1, <2>2, <3>2, StifledIsSilent
  <2>3. ASSUME ~Stifled(a), ~Shadowed(a, t.sections)
        PROVE  \E s \in a.in_section \cup {Filler}, c \in a.co_occurs_with \cup {Filler} :
                    _anchor_fires(a, PageFor(a, s, c), t.sections, registry.markers)
    BY <2>1, <2>3, FiresUnless
  <2> QED
    BY <2>2, <2>3
<1> QED
  BY <1>3, <1>4 DEF EveryAnchorCanFire

(* A registry in use holds no dead rule but those the loader does not look    *)
(* for, which are named, requires what its file requires, and reads a page    *)
(* the same however it is marked: for any files, pages and answers.           *)
THEOREM NoRuleIsDead == RoutingSpec => []NoDeadRule
<1>1. RoutingInit => RInv
  BY RInvInit
<1>2. RInv /\ [RoutingNext]_routingVars => RInv'
  BY RInvNext
<1>3. RInv => NoDeadRule
  BY LoadedCanScore, StaysRequired, ReadsAlike DEF NoDeadRule
<1> QED
  BY <1>1, <1>2, <1>3, PTL DEF RoutingSpec
=============================================================================
