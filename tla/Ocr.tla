--------------------------------- MODULE Ocr ---------------------------------
(***************************************************************************)
(* extract.py and the threads that meet in it: uploads and the complaints  *)
(* worker reading documents page by page, Word exports rendering the       *)
(* originals, all over one recognizer, one PDFium and one progress record. *)
(*                                                                         *)
(* Three locks: _load_lock around building the recognizer, _infer_lock     *)
(* around a document's pages, PDFIUM_LOCK around each PDFium call.         *)
(***************************************************************************)
EXTENDS Naturals, FiniteSets

CONSTANTS
    Uploads,      \* request threads of /extract: progress=True
    Workers,      \* the complaints worker: progress=False
    Exports,      \* request threads of /export/layout-docx
    MaxPages,     \* bound: pages of a document
    MaxCalls,     \* bound: documents a thread handles
    NoThread      \* a lock nobody holds, a record of nobody

Readers == Uploads \cup Workers
Threads == Readers \cup Exports

ASSUME OcrAssumption ==
    /\ Uploads \cap Workers = {} /\ Readers \cap Exports = {} /\ NoThread \notin Threads
    /\ MaxPages \in Nat \ {0} /\ MaxCalls \in Nat

VARIABLES
    state,      \* _state: whether the recognizer is there, and its status
    loadLock, inferLock, pdfLock,
    progress,   \* _progress
    phase,
    doc,        \* each thread's document: kind, pages, whether PDFium has it open
    index,      \* pages done
    handled     \* bound

ocrVars == <<state, loadLock, inferLock, pdfLock, progress, phase, doc, index, handled>>

\* Between taking PDFIUM_LOCK and giving it back.
InPdfium == {"counting", "opening", "rendering", "closing"}
\* Between taking _infer_lock and giving it back.
InTurn == {"page", "render", "rendering", "read"}

NoDoc == [kind |-> "none", pages |-> 0, open |-> FALSE]

OcrInit ==
    /\ state = [rec |-> FALSE, status |-> "not_loaded"]
    /\ loadLock = NoThread /\ inferLock = NoThread /\ pdfLock = NoThread
    /\ progress = [active |-> FALSE, page |-> 0, total |-> 0, filename |-> NoThread]
    /\ phase = [t \in Threads |-> "idle"]
    /\ doc = [t \in Threads |-> NoDoc]
    /\ index = [t \in Threads |-> 0]
    /\ handled = [t \in Threads |-> 0]

Go(t, label) == phase' = [phase EXCEPT ![t] = label]
\* The document is done with, read or not.
End(t) == Go(t, "idle") /\ doc' = [doc EXCEPT ![t] = NoDoc] /\ index' = [index EXCEPT ![t] = 0]

\* detect_kind; "broken" is a PDF by its name or first bytes that PDFium cannot
\* open (an image that will not open fails the same way, without PDFium).
Kinds == {"pdf", "image", "broken"}
IsPdf(t) == doc[t].kind # "image"

-----------------------------------------------------------------------------
(* PDFium.                                                                 *)

\* Bug: a call made outside the lock.
PdfiumFree_unlocked(t) == TRUE

\* An RLock: its holder may take it again.
PdfiumFree(t) == pdfLock \in {NoThread, t}

\* From one label to the next under the lock.
EnterPdfium(t, from, to) ==
    /\ phase[t] = from /\ PdfiumFree(t)
    /\ pdfLock' = t
    /\ Go(t, to)

LeavePdfium(t) == pdfLock' = NoThread

-----------------------------------------------------------------------------
(* A document comes in.                                                    *)

Start(t) ==
    /\ phase[t] = "idle" /\ handled[t] < MaxCalls
    /\ \E k \in Kinds, n \in 1..MaxPages :
         /\ k # "pdf" => n = 1
         \* an exported image is just there; bound: exports of full-length PDFs
         /\ t \in Exports => k = "broken" \/ (k = "pdf" /\ n = MaxPages)
         /\ doc' = [doc EXCEPT ![t] = [kind |-> k, pages |-> n, open |-> FALSE]]
         /\ Go(t, IF t \in Exports THEN "open"
                  ELSE IF t \in Workers /\ k # "image" THEN "count" ELSE "load")
    /\ UNCHANGED index
    /\ handled' = [handled EXCEPT ![t] = @ + 1]
    /\ UNCHANGED <<state, loadLock, inferLock, pdfLock, progress>>

\* The worker counts a PDF's pages first; 0 when PDFium cannot read it, and a
\* count over CMS_MAX_PAGES ends there.
Count(t) == EnterPdfium(t, "count", "counting")
            /\ UNCHANGED <<state, loadLock, inferLock, progress, doc, index, handled>>

Counted(t) ==
    /\ phase[t] = "counting"
    /\ LeavePdfium(t)
    /\ \/ Go(t, "load") /\ UNCHANGED <<doc, index>>
       \/ doc[t].kind = "pdf" /\ doc[t].pages = MaxPages /\ End(t)
    /\ UNCHANGED <<state, loadLock, inferLock, progress, handled>>

-----------------------------------------------------------------------------
(* ensure_loaded.                                                          *)

HasRecognizer(t) ==
    /\ phase[t] = "load" /\ state.rec
    /\ Go(t, "open")
    /\ UNCHANGED <<state, loadLock, inferLock, pdfLock, progress, doc, index, handled>>

\* Under the lock it is looked at again; after one failure nobody tries again
\* and the caller goes on with no recognizer.
TakeLoad(t) ==
    /\ phase[t] = "load" /\ ~state.rec /\ loadLock = NoThread
    /\ loadLock' = t
    /\ Go(t, "loading")
    /\ UNCHANGED <<state, inferLock, pdfLock, progress, doc, index, handled>>

Load(t) ==
    /\ phase[t] = "loading"
    /\ loadLock' = NoThread
    /\ IF state.rec \/ state.status = "error"
       THEN Go(t, "open") /\ UNCHANGED <<state, doc, index>>
       ELSE \/ /\ state' = [rec |-> TRUE, status |-> "ready"]
               /\ Go(t, "open") /\ UNCHANGED <<doc, index>>
            \/ state' = [rec |-> FALSE, status |-> "error"] /\ End(t)
    /\ UNCHANGED <<inferLock, pdfLock, progress, handled>>

-----------------------------------------------------------------------------
(* extract_document.                                                       *)

Open(t) ==
    /\ IsPdf(t)
    /\ EnterPdfium(t, "open", "opening")
    /\ UNCHANGED <<state, loadLock, inferLock, progress, doc, index, handled>>

\* Bug: a reader keeps PDFIUM_LOCK while it waits for its turn.
Opened_kept(t) ==
    /\ phase[t] = "opening"
    /\ IF doc[t].kind # "pdf" /\ t \in Exports THEN End(t) /\ LeavePdfium(t)
       ELSE /\ doc' = [doc EXCEPT ![t].open = doc[t].kind = "pdf"]
            /\ Go(t, IF doc[t].kind # "pdf" THEN "finally"
                     ELSE IF t \in Exports THEN "render" ELSE "queue")
            /\ UNCHANGED <<index, pdfLock>>
    /\ UNCHANGED <<state, loadLock, inferLock, progress, handled>>

\* A PDF that PDFium cannot read ends an export at once.
Opened(t) ==
    /\ phase[t] = "opening"
    /\ LeavePdfium(t)
    /\ IF doc[t].kind # "pdf" /\ t \in Exports THEN End(t)
       ELSE /\ doc' = [doc EXCEPT ![t].open = doc[t].kind = "pdf"]
            /\ Go(t, IF doc[t].kind # "pdf" THEN "finally"
                     ELSE IF t \in Exports THEN "render" ELSE "queue")
            /\ UNCHANGED index
    /\ UNCHANGED <<state, loadLock, inferLock, progress, handled>>

\* One image is one page.
OpenImage(t) ==
    /\ phase[t] = "open" /\ ~IsPdf(t)
    /\ Go(t, "queue")
    /\ UNCHANGED <<state, loadLock, inferLock, pdfLock, progress, doc, index, handled>>

\* Whether a thread's steps show in the progress record.
Shown(t) == t \in Uploads

\* Bug: the record keeps the document it was about.
Record_kept(t) == [progress EXCEPT !.active = TRUE, !.page = 0]

Record(t) == [active |-> TRUE, page |-> 0, total |-> doc[t].pages, filename |-> t]

\* Its turn: a document's pages are read together.
TakeTurn(t) ==
    /\ phase[t] = "queue" /\ inferLock = NoThread
    /\ inferLock' = t
    /\ progress' = IF Shown(t) THEN Record(t) ELSE progress
    /\ Go(t, "page")
    /\ UNCHANGED <<state, loadLock, pdfLock, doc, index, handled>>

Page(t) ==
    /\ phase[t] = "page" /\ index[t] < doc[t].pages
    /\ progress' = IF Shown(t) THEN [progress EXCEPT !.page = index[t] + 1] ELSE progress
    /\ Go(t, IF IsPdf(t) THEN "render" ELSE "read")
    /\ UNCHANGED <<state, loadLock, inferLock, pdfLock, doc, index, handled>>

Render(t) == EnterPdfium(t, "render", "rendering")
             /\ UNCHANGED <<state, loadLock, inferLock, progress, doc, index, handled>>

\* A page that will not render fails the reading; an export goes on without
\* its picture, or gives up.
Rendered(t) ==
    /\ phase[t] = "rendering"
    /\ LeavePdfium(t)
    /\ IF t \in Exports
       THEN /\ \/ index[t] + 1 < doc[t].pages /\ Go(t, "render")
               \/ Go(t, "close")
            /\ index' = [index EXCEPT ![t] = @ + 1]
            /\ UNCHANGED inferLock
       ELSE /\ \/ Go(t, "read") /\ UNCHANGED inferLock
               \/ Go(t, "finally") /\ inferLock' = NoThread
            /\ UNCHANGED index
    /\ UNCHANGED <<state, loadLock, progress, doc, handled>>

\* Surya reads the page, or fails; without a recognizer it cannot but fail.
Read(t) ==
    /\ phase[t] = "read"
    /\ \/ /\ state.rec
          /\ index' = [index EXCEPT ![t] = @ + 1]
          /\ Go(t, "page") /\ UNCHANGED inferLock
       \/ Go(t, "finally") /\ inferLock' = NoThread /\ UNCHANGED index
    /\ UNCHANGED <<state, loadLock, pdfLock, progress, doc, handled>>

LastPage(t) ==
    /\ phase[t] = "page" /\ index[t] = doc[t].pages
    /\ inferLock' = NoThread
    /\ Go(t, "finally")
    /\ UNCHANGED <<state, loadLock, pdfLock, progress, doc, index, handled>>

Clears(t) == t \in Uploads

\* After the lock has been given back: whoever is shown is switched off.
Finally(t) ==
    /\ phase[t] = "finally"
    /\ progress' = IF Clears(t) THEN [progress EXCEPT !.active = FALSE] ELSE progress
    /\ IF doc[t].open THEN Go(t, "close") /\ UNCHANGED <<doc, index>> ELSE End(t)
    /\ UNCHANGED <<state, loadLock, inferLock, pdfLock, handled>>

Close(t) == EnterPdfium(t, "close", "closing")
            /\ UNCHANGED <<state, loadLock, inferLock, progress, doc, index, handled>>

Closed(t) ==
    /\ phase[t] = "closing"
    /\ LeavePdfium(t)
    /\ End(t)
    /\ UNCHANGED <<state, loadLock, inferLock, progress, handled>>

-----------------------------------------------------------------------------
Step(t) ==
    \/ Count(t) \/ Counted(t) \/ HasRecognizer(t) \/ TakeLoad(t) \/ Load(t)
    \/ Open(t) \/ Opened(t) \/ OpenImage(t) \/ TakeTurn(t) \/ Page(t) \/ Render(t)
    \/ Rendered(t) \/ Read(t) \/ LastPage(t) \/ Finally(t) \/ Close(t) \/ Closed(t)

OcrNext == \E t \in Threads : Start(t) \/ Step(t)
OcrSpec == OcrInit /\ [][OcrNext]_ocrVars
OcrFairSpec == OcrSpec /\ \A t \in Threads : WF_ocrVars(Step(t))

-----------------------------------------------------------------------------
(* Properties.                                                             *)

Labels == InPdfium \cup InTurn \cup
          {"idle", "count", "load", "loading", "open", "queue", "finally", "close"}

TypeOK ==
    /\ state \in [rec : BOOLEAN, status : {"not_loaded", "ready", "error"}]
    /\ {loadLock, inferLock, pdfLock} \subseteq Threads \cup {NoThread}
    /\ progress \in [active : BOOLEAN, page : 0..MaxPages, total : 0..MaxPages,
                     filename : Uploads \cup {NoThread}]
    /\ phase \in [Threads -> Labels]
    /\ doc \in [Threads -> [kind : Kinds \cup {"none"}, pages : 0..MaxPages, open : BOOLEAN]]
    /\ index \in [Threads -> 0..MaxPages] /\ handled \in [Threads -> 0..MaxCalls]

\* Each lock is held by the thread between taking it and giving it back, and
\* by nobody else.
LocksHeld ==
    \A t \in Threads :
        /\ pdfLock = t <=> phase[t] \in InPdfium
        /\ loadLock = t <=> phase[t] = "loading"
        /\ inferLock = t <=> t \in Readers /\ phase[t] \in InTurn

\* extract.py: PDFium is not thread-safe.  No two threads are inside it.
PdfiumAlone == \A t, u \in Threads : {phase[t], phase[u]} \subseteq InPdfium => t = u

\* What the record says while an upload's page is read is about that upload
\* and that page, whatever other uploads and the worker do meanwhile.
ProgressIsOwn ==
    \A t \in Uploads : phase[t] \in InTurn \ {"page"} =>
        /\ progress.filename = t
        /\ progress.page = index[t] + 1 /\ progress.total = doc[t].pages

\* API.md: active is false when no OCR is in flight.  It is somebody's, who
\* has still to switch it off.
ActiveMeansWork ==
    progress.active =>
        \E t \in Uploads : progress.filename = t /\ phase[t] \in InTurn \cup {"finally"}

\* What the browser polls is true: the document and the page named are those
\* being read, and something is (the progress record of extract_document).
ProgressIsTrue == ProgressIsOwn /\ ActiveMeansWork

\* Every document comes to an end: nobody waits for a lock held by one who
\* waits for him.
EveryCallEnds == <>[](\A t \in Threads : phase[t] = "idle")
=============================================================================
