# Arabic Documents: a TLA+ verification

This directory is a formal model of the application in `src/`: the complaint
register with its worker and its on-demand language model, where threads,
processes and failures meet, and the decisions the application takes about a
document: what kind it is, what stands in it, whether it is valid, how two of
them differ, what a complaint is about and who must answer it. Every definition
is translated from the source; `PROJECT.json` names the lines each one stands
for.

| module | models | proofs |
|---|---|---|
| `ComplaintQueue` | the work queue: rows, owner lock, worker, API calls on a complaint in work | `ComplaintQueueProofs` |
| `ComplaintFiles` | the originals on disk beside the rows: upload, delete, sweep, crash | `ComplaintProofs` |
| `ComplaintReview` | the review of one complaint: analyses, field reviews, verdicts | `ComplaintProofs` |
| `ModelLease` | ALLaM's server, its lease, the batch hold, everybody who uses it | `ModelLeaseProofs` |
| `SharedModel` | the abstract promise `ModelLease` implements | (the refinement is in `ModelLeaseProofs`) |
| `Ocr` | reading documents: recognizer, PDFium and progress record shared by threads | `ReadingProofs` |
| `WathqCatalog`, `WathqAnswer`, `WathqLookup` | paid lookups: the form and its cache key; what comes back; slot, caches, counter | `WathqLookupProofs` |
| `Taxonomy`, `Triage`, `Analysis` | the complaint pipeline: what the taxonomy file may say; the rules; one analysis from text to letter | `AnalysisProofs` |
| `Registry`, `Routing` | the template file and its load-time checks; the choice of a template | `ReadingProofs` |
| `Fidelity`, `Expiry`, `Structuring` | values against the page; the expiry scan; one `/structure` request | `DocumentProofs` |
| `Comparison` | `/comparison/run`: slot, stream, worker, and the report | `ComparisonProofs` |
| `MC*` | the small instances TLC runs, with the `.cfg` files | |

## 1. The system

A FastAPI app on one machine. A browser page uploads documents; OCR (Surya), a
resident Qwen model and an on-demand ALLaM model, each a child process behind a
port, do the reading; a SQLite register keeps complaints and a background
worker processes them.

| component | state | operations | talks to |
|---|---|---|---|
| Register (`complaints_store.Store`) | SQLite rows, events and feedback; originals in a directory; in memory: claims, owner lock handle, `_orphans` | create, claim, set_stage, save_text, save_analysis, fail, requeue, reset_interrupted, delete, sweep_orphans, add_feedback, review_field, set_status; lists, search, analytics; migration | called by the service and by request threads under one RLock; other processes through SQLite |
| Worker (`complaints_api.ComplaintService`) | thread, stop and wake events, `_unsettled`, `_used`, `owns_queue` | boot, start, stop, process_next, settle, release when idle, done_with | store, OCR, pipeline, provider |
| API routes (`complaints_api`) | insights slot | intake, reprocess, delete, feedback, field review, status, provider switch, insights | store, service, registry |
| Providers (`complaints_llm`) | lease per server (count, pending stop), batch flag, active provider | acquire, release, stop_when_idle, ensure_ready, chat_json, set_active | `llm.Server` |
| Model servers (`llm.Server`) | child process, status, load lock, inference lock | ensure_loaded, chat, stop | llama-server |
| Proofreading (`app.py`, `proofread.py`, `guard.py`) | none | hold the lease over all pages; guard each page | ALLaM |
| Complaint pipeline (`complaints.py`, `complaints_taxonomy.py`) | none | structure, classify, signals, priority, deadline | provider |
| OCR (`extract.py`) | predictor, locks, one progress record | extract_document, count pages | Surya |
| Document flow (`classify`, `structure`, `expiry`, `registry`) | parsed templates | classify, structure, validity | Qwen |
| Wathq (`wathq_api`, `wathq_client`, ...) | one slot, two TTL caches, counter of billed requests | lookup, query, suggest, compare | outside service |
| Comparison, export, QR, regulations, chat, provenance | slots only | one request each | models, outside services |
| Browser UI | timers, session list | polling, forms | the routes |

How they interact. A request thread puts a row in the register and wakes the
worker; the worker claims the oldest row, reads it, asks the model and writes
the result; meanwhile request threads look at the same row and change it. Two
app processes may run on one data directory: an OS lock lets one of them work
the queue. ALLaM is loaded by whoever needs it first and stopped by whoever
needs it last. The app's shutdown tells the worker to stop, waits five seconds
and stops the models.

What makes each of them correct:

* queue: one worker per register; a complaint in work shows as such; none is
  stuck in a processing stage; none is worked on forever; a request to read a
  scan again is honoured and costs no text; a failed write of a failure is
  retried but never overwrites what a person asked for since;
* files: every complaint has its original, whole; deletes leave nothing for
  good; the same bytes are one complaint; a path never changes its contents;
* review: the review flag agrees with what is open; what a person decided
  outlives re-analysis; corrections leave a consistent classification;
* model: nobody loses the model while using it; the memory is given back;
* OCR: no lock cycle, a truthful progress record; Wathq: one request at a
  time, no charge for a cached answer; pipeline: a priority raised by a rule is
  bounded and explained, and what a record says rests on what the letter says;
* documents: a template that loads can fire, a document gets one on its own
  words, every line read is kept and lands with its owner, a value marked as
  found stands on the page, and validity follows from the document's own date;
* comparison: one at a time, a slot that comes back, and a report that calls
  itself complete only when it is.

The behaviours that are hard to test, each at its line and with the properties
that cover it, are listed in `PROJECT.json` under `hazards`. They are of seven
kinds: a look and an act that are two transactions; a crash between two steps
that belong together; a failure while handling a failure; processes that share
only the database and the port; the order in which users of one resource leave;
a limit (characters, tokens, windows, cache entries) reached in the middle of
something; and rules that are each right and together decide wrongly, because
one reads what another wrote.

## 2. The modules and the code

### ComplaintQueue

Each `Store` method is a transaction under one lock and is one action. What is
not atomic in the code is not atomic here: `Look`, `is_busy` and
`Reprocess`/`Delete` are the three steps of `do_reprocess` and `delete`; the
worker is a program counter that follows `_run`, `process_next`, `_process`,
`_extract`, `_analyze` and `_settle`.

| code | model |
|---|---|
| columns `stage`, `text`, `reocr`; a file to read again | `stage`, `text` (`none`, `blank`, `some`), `reocr`, `scan` |
| the run of interrupted requeues in the event log | `interruptions` |
| `Store._claimed`, `ComplaintService._unsettled`, `_stop`, `owns_queue` | `claimed`, `unsettled`, `stopping`, `owns_queue` |
| the OS lock on `*.lock` | `owner` |
| process up or down, boot in two calls | `phase`, `Boot`, `reset_interrupted`, `Stop`, `Exit` |
| worker's place and locals | `pc`, `item`, `itemText`, `tries`, `settling` |
| a request between its look and its act | `call`, `callOp`, `callId`, `callProc` |
| `claim_next` with its read-back | `claim_next` (two outcomes) |
| exceptions of the database | `Refused`, `DeferredRefused`, the faults of `Boot`, `claim_next` |

`since`, `overtaken` and `budget` are history and bounds that no action of the
code reads. The pipeline's two stages and `_analyze`'s retry loop are kept
(`Structuring`, `Classifying`, `ModelFails`), its texts are not.

### ComplaintFiles

`create` is split where another process, or a crash, can come in: temp file,
INSERT (which takes SQLite's write lock), `os.replace`, COMMIT with the
read-back, cleanup. `delete` is two steps under the store lock. `sweep_orphans`
is the statement that reads the ids, the statement that reads the highest id
and lists the directory, and one step per removed file. `seq` is
`sqlite_sequence`; a rolled-back INSERT gives its id back. `want` and `content`
are the bytes (by hash). `Faults` names the calls that may fail.

### ComplaintReview

One complaint. `SaveAnalysis`, `ReviewField` and `add_feedback` are the store's
methods; `Decide` is `do_feedback` up to its call of the store, so another
verdict or an analysis may come between a decision and its write. The pending
count is the set `pending`; a subcategory is known by its category and a
deadline by the priority it was computed from. `judged`, `stale` and `spoiled`
are history: the reasons standing at the last verdict, the verdicts that were
decided on a complaint that has changed since, and whether one of those was
written. `_needs_review` and the coupling of place and category are operators
of their own (`NeedsReview`, `StillAgain`, `CleanSubcategory`, `CleanRegion`,
`CleanGovernorate`, `Rejected`).

### ModelLease and SharedModel

`holders`, `stop_pending` are `ServerLease`; `batch` is `LlamaServerProvider`'s
own hold; `server` is what is on the port (`slow`: started by somebody who gave
up waiting) and `own` whether `Server._proc` is that process; `loader` and
`slot` are the load and inference locks; `used` is the provider's membership of
`ComplaintService._used`. Every thread has a program counter through its calls:
the worker's items, an insights run, a provider switch, a proofread with its
pages. `stop` waits for a load to end, as the code does under `_load_lock`, and
`release` is one step because the lease calls the stop under its own lock.

`SharedModel` says what all this is for: a SET of users; the model is taken
down only by the last one to leave, or when the app no longer serves.
`ModelLease` implements it with `users` mapped to the threads between acquire
and release plus the batch, `loaded` to a server that answers.

### Ocr

`Step` follows one `extract_document`, one page count or one layout export from
call to `finally`: `_load_lock` around the recognizer's start, `_infer_lock`
around the pages of a document, `PDFIUM_LOCK` around each call of PDFium. Every
place a page, a file or a start can fail is a disjunct. `progress` is the one
record all of them share; only `Uploads` write it.

### WathqCatalog, WathqAnswer, WathqLookup

`WathqCatalog` is the validation of a form and the URL and key made of it.
`WathqAnswer` reads one reply: failures by whether they precede the request,
status codes, layers of compression and their label, what the first bytes of a
body look like, the size limit, error records inside a good status. `WathqLookup` is the request thread: slot, the
conversion of an old company number with its cache, the look in the cache, the
one or two requests, `calls_used`, and the answer put away. `given` is history:
when Wathq last answered each key.

### Taxonomy, Triage, Analysis

`Taxonomy` is the loader with every check that refuses a file. `Triage` has the
pure rules as operators: identifiers, places and what supports them, signals,
evidence, `resolve_priority`, the reasons for review. `Analysis` runs one
complaint: `_ask` with its retry, both steps, the look-up of repeats, the
insights batch, then a reviewer's correction and the letter. Texts are sequences
of words, sizes are tokens per word, and the model answers from sets that hold
an honest answer beside foreign places, foreign identifiers and values outside
the schema.

### Registry, Routing

`Registry` is the parsed file: normalisation, group expansion, gates and every
`RegistryError`. `Routing` is the server that caches one registry and one
`/classify` request: hits with their gates and an anchor's own distance to its
companions, families, scores in ten-thousandths, ties, the family stage and the template stage of the question to the model, and
what its confidence is worth.

### Fidelity, Expiry, Structuring

`Fidelity` finds a value on a page: the forms of its numbers, word boundaries,
the choice among several places, offsets in the page and in the browser's
units. `Expiry` is the scan for the date that is the document's own, by label
rank and distance. `Structuring` is the request: the generic pass over a list of
pieces that may be halved, alignment onto the template's fields and roles, the
record passes, the targeted passes, assembly, missing fields, and the expiry
verdict with the model's windows when the scan finds nothing. A piece is a range
of the text's words (`from`, `to`): `Cut` is where `_split_lines` halves it, at
the last line end before the middle, at the first after it when that one leaves
less than a quarter, or in the middle of a line; `ChunkLines` are the lines the
model is then shown, the first and the last as far as the piece has them.

### Comparison

`Refuse`, `Run`, `Start`, `Poll`, `Close` and `Leave` are the endpoint and its
stream; `Worker` is the thread: `Begin`, `Embed`, `Pair`, `Call`, `Answer`,
`Repair`, `RepairAnswer`, `Report`, `End`, `Release`, with the check of the
cancel event in each. Passages, alignment, citations, `_validated`,
`exact_value_findings` and the report are operators on lines of words; a word in
`_words` is numbered by its occurrences, so that a set of them is the code's
`Counter`.

## 3. What is checked

### Runs that pass

| run | instance | distinct states | properties |
|---|---|---|---|
| `QueueSafety` | 2 processes, 2 complaints, 1 request thread; a call, a stop, a crash, 2 refused database calls of any kind | 2.98 M | `OneWorker`, `NoLeakedClaim`, `DoneMeansReadAgain`, `NoStrandedRow`, `TextIsKept`, `QueuedLeavesByClaim` |
| `QueueLiveness` | 1 process, 2 complaints, a call, 3 crashes, 3 refused settles, a retried analysis, fair worker | 899 k | `GivesUpInTime`, `EveryComplaintSettles` |
| `Files` | 2 processes, 2 ids, 2 threads, 2 contents, a delete, a crash, a fault of any kind, fair threads | 243 k | `OneRowPerContent`, `NeverRewritten`, `LiveHasFile`, `LeftoversGo` |
| `Review` | 2 reviewers, 2 values, 2 analyses; categories, subcategories, priorities, places and field reviews | 4.46 M | `FlagIsRight`, `ConsistentUnlessSpoiled`, `VerdictsOutliveAnalyses`, `SettlingKeepsUnseen` |
| `Lease` | a proofread, an insights run, a switch, the worker; slow starts, killed apps; fair threads | 185 k | `SharedSpec`, `FreedAfterUse` |
| `WathqLookups` | 2 threads, 2 lookups, a clock of 2, caches of 2 entries, every failure, status and packing of a reply | 280 k | `CountIsRight`, `ShowsItsAnswer`, `CachesHold`, `SlotComesBack` |
| `OcrTogether` | 2 uploads, the worker, an export, documents of up to 2 pages | 1.6 M | `PdfiumAlone`, `ProgressIsTrue`, `EveryCallEnds` |
| `Analysis` | 8 letters, 4 taxonomy files, 2 context windows, every combination of the answers | 378 k | `VerdictHonest`, `OwnWordsOnly`, `RestsOnWhatWasSent`, `LetterFollowsRecord`, `Ends` |
| `Routing` | 15 registry files, 10 pages, 6 confidences at the thresholds, 2 edits of the file | 166 k | `NoDeadRule`, `VerdictIsEarned` |
| `Structuring` | a deed's template, 8 documents, 3 values the model may add, three ways an answer slips | 317 k | `NothingIsLost`, `RightOwner`, `FactsAreBacked`, `ValidityIsOwn` |
| `Comparison` | 2 browsers, 6 pairs of documents, 4 rows the model may write | 383 k | `OneAtATime`, `StreamsEndWithAVerdict`, `ReportIsHonest`, `RunsEnd` |

Every property of these runs has a mutant in `PROJECT.json`: a plausible bug of
the code, written beside the operator it would be in, that breaks it. The type
invariants of the concurrent modules are theorems (section 5); in the others an
ill-typed state would stop TLC where the next operator is applied to it.

Some properties are a conjunction of parts that have names of their own:

| property | parts |
|---|---|
| `CountIsRight` | `SentCoversBilled`, `CallsUsedIsOwn` |
| `ShowsItsAnswer` | `AnswersItsQuestion`, `GoodAnswersAreRead` |
| `CachesHold` | `PaidOnce`, `NeverStale`, and the size of each cache |
| `VerdictsOutliveAnalyses` | `HumanValuesStay`, `AcceptsGoStale` |
| `ProgressIsTrue` | `ProgressIsOwn`, `ActiveMeansWork` |
| `VerdictHonest` | `SubcategoryFits`, `PriorityHonest` |
| `OwnWordsOnly` | `OwnIdOnly`, `PlaceIsBacked`, `PlacesAreNoAlarm` |
| `RestsOnWhatWasSent` | `TruncationTold`, `SourcesWereSeen`, `RequestFits`, `CitedWereShown` |
| `NoDeadRule` | `EveryAnchorCanFire`, `RequiredStaysRequired`, `MarksDoNotMatter` |
| `VerdictIsEarned` | `QuotedIsNotOwn`, `ScoresCompare`, `NearZeroIsNoAgreement`, `AnswersFromOwnFamily` |
| `NothingIsLost` | `EveryLineIsRead`, `NothingDiscarded`, `LimitsAreTold`, `WindowsCover` |
| `FactsAreBacked` | `MissingHonest`, `UnverifiedNotFact`, `CitationsStand` |
| `RightOwner` | `OwnRoleOnly`, `RowsCitedTogether` |
| `ValidityIsOwn` | `OwnDateWins`, `StatusIsBacked` |
| `ReportIsHonest` | `CompleteIsHonest`, `QuotesComeFromOnePair`, `EditedNumbersAreTold` |

What the less obvious ones say. `NoStrandedRow` is about steps: only two
steps of the code leave a complaint shown as processing with nobody working on
it, a claim whose row cannot be read back and a boot whose reset is refused;
every other path, however many calls the database refuses on it, leaves the
complaint in hand or its failure kept. `SettlingKeepsUnseen` is the reason for
`review_field`'s odd condition: settling fields frees a complaint that was
flagged for its fields alone, never one a re-analysis sent back.
`ConsistentUnlessSpoiled` holds for every order of corrections, as long as none
is written on a complaint that has changed since `do_feedback` read it; the
history variable `spoiled` records that it was. `FreedAfterUse` needs that the
three ways a batch ends (idle pass, insights run, provider switch) never each
rely on another. `LiveHasFile` and `LeftoversGo` are conditional: the first on
one app at a time and no refused commit or read-back, the second on one app
that keeps the queue. `CallsUsedIsOwn` is true of a counter every request shares
only because of the slot. `PriorityHonest` ties the order of floor and cap in
the code to what both promise. `CompleteIsHonest` follows every line of both
documents into the passages that were reviewed. `NothingDiscarded` counts: a
value returned twice is in the result twice. `CitationsStand` reads a citation
as the browser does, from its offset back to the word. `RightOwner` speaks of
values read under their own heading in a piece that was not split.
`GoodAnswersAreRead` says exactly which replies are answers (`Readable`): packed
as the label or the first bytes tell, or not packed and beginning as an object or
a list does. `EveryLineIsRead` says where two pieces may meet (`Joint`): at a line
end, or inside one line that is itself three quarters of a splittable text long,
with at most one word torn between them. `EveryAnchorCanFire` lays out for each
anchor the page it asks for (`PageFor`) and names the anchors that the loader
takes though no page lets them fire (`Stifled`), and those that are a heading
themselves (`Shadowed`).

### Why the bounds are enough

The queue's methods look at one row, or at all rows of a stage; two rows show
that one complaint's trouble does not reach another, two processes are the
smallest number that can compete for the owner lock, and the third interruption
is the one that gives up (`MAX_INTERRUPTIONS` is the code's 3). In the files
model two ids suffice for an id to be given back and taken again, and for a
sweep to meet it. The review's methods handle each field alone; while one field
is settled another reason stands for the rest. A count of holders goes wrong
with the second holder; the instance has up to four. Two lookups show a
neighbour's request in the counter and an answer that expires between them; a
cache of two overflows with the third key. Two pages give a document a page
boundary at which another thread may come in. Budgets bound only calls, stops,
crashes and faults.

The data of the other models are chosen case by case, beside their definitions
in the `MC` modules: each letter, page, registry file and pair of documents
there tells one path of the code from another, with the limits (`WordChars`,
`INPUT_CAP`, `CHUNK_LINES`, `ALL_PAIRS`, ...) small enough that it lies on both sides of
them. Bounds with a name of their own: `MaySlip` lets only the first kept answer
of a `/structure` request slip; `FREE_PAIRS` lets the model choose its rows for
the first compared pair and answer nothing for the others; the second browser
sends identical documents only; an answer has at most two rows. Dates are a
table from a printed date to days (`DateDays`); scores are rounded to
ten-thousandths; a comparison's texts are lines, its offsets lines and words.
One `/structure`, `/classify` or analysis runs at a time: those requests
share nothing but the models, which `ModelLease` has.

### Fairness

`QueueLiveness`: weak fairness of the worker's next step and of
boot's reset: `_run` polls every 30 s whether or not it is woken, and each step
ends by itself or by a timeout. The OCR and the model may fail for ever; that
settles too, because the retries are bounded. `Files`: weak fairness
of a thread in a call; strong fairness of the start of a sweep, which competes
for the store lock with other threads every 30 s. `Lease`: weak fairness of a
thread inside a call (every wait has a timeout) and of the worker's idle pass.
`OcrTogether` and `WathqLookups`: weak fairness of each thread's next step; a
lock is given to some waiter, and `EveryCallEnds` shows that each gets its
turn with the bounded number of calls. `Analysis`: weak fairness of
the pipeline's steps: a call of the model ends in an answer or in its timeout.
`Comparison`: weak fairness of the worker thread, of the stream's poll (a timer)
and of the response being started. Nothing is assumed about people, browsers,
crashes or processes that start.

Deadlock is checked in the review, lease, analysis, structuring and comparison
runs. The others may come to rest with every bound used up and nothing to do,
or, in `Routing`, with a server that does not start on a broken file;
`EveryCallEnds` and `SlotComesBack` say there that nobody is left waiting.

### The run that finds a disagreement

`ExpiryParty` checks the sentence of `expiry.py:357-359` that a party's expiry
is never read as the instrument's. It is, when the instrument's own label is
printed with nothing after it and the party's card comes within reach: the scan
takes the first date that follows.

## 4. Other disagreements

The models also have the behaviours below. No run is spent on them; the passing
properties name the case they exclude. The names in brackets are the actions to
follow.

Queue, files, review and model:

* Three graceful stops on one complaint: each requeues it, the next start finds
  it queued, and `reset_interrupted` never gives it up
  (`complaints_store.py:968`; `complaints_api.py:78-79` promises it; `Stop`,
  `PutBack`, `reset_interrupted`).
* `do_reprocess` and `delete` look at the row in one transaction and change it
  in another. A worker that claims it in between is overtaken without the
  promised 409 (`Look`, `claim_next`, `Reprocess`; the variable `overtaken`).
* `_interruptions` ends its run at any other event: a status change, a verdict
  or a field review between two crashes starts the count again (`SetStatus`;
  the theorem on `NeverOvercounted` is an inequality for this reason).
* A crash after `os.replace` and before COMMIT: the file's id is above the
  highest committed one, so the takeover's sweep leaves it
  (`complaints_store.py:613`, against `complaints_store.py:568-569`), and no other sweep follows until a delete
  fails.
* A refused COMMIT gives the id back; another upload takes it and commits; the
  first upload's cleanup, outside the lock, removes the other's file
  (`CommitRefused`, `Insert`, `Commit`, `Cleanup`).
* When the read after the COMMIT fails, the same cleanup removes the file of a
  complaint that exists (`Commit`, `Cleanup`).
* Between a sweep's two reads another process commits: its new file looks
  orphaned and is removed (`SweepIds`, `Commit`, `SweepHighest`, `SweepRemove`).
* Two re-analyses with the same reason: the first sends the complaint back to
  review, the second takes it out (`complaints_store.py:901`, against
  `COMPLAINTS.md:470-472`; `SaveAnalysis` twice).
* A correction decided on a category, a place or a priority that another
  reviewer has replaced since leaves a foreign subcategory, a governorate
  outside its region, or one priority with the other's deadline (`Decide`,
  `Decide`, `add_feedback`, `add_feedback`; the variable `spoiled`).
* The worker is not done in the five seconds shutdown waits and loads ALLaM
  again after the handler stopped it (`app.py:134`, against `README.md:190-192`
  of the repository).
* A start that timed out goes on loading; the next start forgets it, finds the
  port answered in the end, and nobody stops that process (`LoadFails`,
  `BeginLoad`, `SlowStarts`; `FreedAfterUse` is about the process the app owns).

OCR and lookups:

* An upload that fails before its turn switches off `progress.active` of the one
  that is running, whose record is otherwise its own (`extract.py:245-247`,
  against `API.md:106`).
* A conversion that finds nothing is not cached: a struck-off company's repeat
  pays for the same 404 again (against `wathq_api.py:29-31`).
* An answer that `decode_answer` would read is refused when its label is wrong
  and its first byte is neither `{` nor `[`: a JSON string, or an object behind a
  byte order mark or in UTF-16, sent unpacked under `gzip`, `deflate` or an
  encoding the client does not know (`wathq_client.py:589`, `:611`, against
  `wathq_client.py:583-585`; `Plain`; `Readable` excludes the case).
* When a unified number finds nothing, the answer by the old number says
  `converted: false`; served from the cache, the same answer says
  `converted: true`.

Analysis and documents:

* A reviewer who corrects the region to "unknown" still gets a letter that
  forwards the complaint to the region the analysis named.
* A field's date that the page does not print in that form still gives a
  validity verdict; evidence the model gave for another template stays in a
  verdict the rules reached; a targeted pass may cut the text it is shown
  without telling.
* The loader takes rules that never fire. An anchor's own `within` may be any
  whole number (`registry.py:595-598`): one of 0, a negative one or one shorter
  than its companion leaves the companion no room (`classify.py:195-197`). A text,
  a heading or a `not_preceded_by` made only of characters the normaliser drops
  becomes empty: the first two match nothing, the third stands in every run-up
  (`classify.py:181`, `:192`, `:200`). These are `Stifled`. An anchor that is
  itself a heading, and not the one it asks for, stands under its own heading
  (`Shadowed`). `templates/ksa_deeds.yaml` has none of them: its own distances are
  60 and 120, its two anchors with a section gate are no headings.
* `_split_lines` is documented as a cut at the line break nearest the middle
  (`structure.py:455`) and at a line boundary (`structure.py:12-13`). It takes the
  last break before the middle however near the next one is, a later one only
  when that leaves less than a quarter, and where there is no break to take it
  cuts in the middle of a line (`structure.py:462-463`): a value there is read in
  two pieces, the second without its label, or not at all, and nothing tells
  (`output_capped` is false when both halves fit). The line must be three
  quarters of the text that is split, 900 characters at least (`Cut`, `Torn`,
  `ReadChunk`; `Joint` says so).
* After a split the second half has lost its heading: its values are aligned
  by their neighbours alone (`RightOwner` is stated of pieces that were not
  split).

Comparison:

* Two identical texts with different `page_count` are cut differently, `zip`
  drops the rest, and the report still says `complete: true` (against
  `API.md:584-585`; `SameCut` excludes the case).
* A repair that answers one row twice hides that another was left out
  (`RepairAnswer`).
* The slot is taken before the response's generator exists
  (`comparison_api.py:48`): a response that is never iterated keeps it. The
  model starts every accepted response.
* The worker puts its last event before it releases the slot: a client that
  asks again at once may be told 409 (`End`, `Refuse`, `Release`).

## 5. What is proved

With TLAPS, for every number of processes, threads, ids, fields, documents and
users, and every bound. The only assumptions are the named `ASSUME`s of each
module (`QueueAssumption`, `FilesAssumption`, `ReviewAssumption`,
`LeaseAssumption`, `OcrAssumption`, `LookupAssumption`, `ReplyAssumption`,
`CatalogAssumption`, `ComparisonAssumption`, `TaxonomiesAssumption`,
`TriageAssumption`, `AnalysisAssumption`, `DocumentAssumption`, `WindowAssumption`,
`TierAssumption`, `FileAssumption`, `FillerAssumption`, `LabelAssumption`, `TextAssumption`,
`LoadedAssumption`, `LimitAssumption`, `PlaceAssumption`): that the special values differ from
the others, that bounds are naturals (`MAX_INTERRUPTIONS` at least one), that
the kinds of threads are disjoint, for the review that the pipeline returns a
subcategory of its category and a governorate only with its region, for the
lookups that a request which reached Wathq did not fail before it was sent and
that the packings of an answer are among the four the client meets, and for the
analysis that the YAML parser returns lists and integer ranks (what is in them
is the loader's to check, and is proved from its checks), that texts, answers
and rows are lists, that a context window has at least `MIN_N_CTX` tokens
(4096, `complaints_llm.py:41`: the remote provider refuses less, the local
server has 4096 unless `PROOF_N_CTX` says otherwise, which nothing checks), that a word is longer than the mark of a clip,
that no name of a place in the taxonomy file holds a comma, and for the
comparison that documents, requests and the model's rows have the shape that
`Document.parse`, the endpoint and the answer's schema let through. For the
documents: pages, lines, values and the lists of a registry file are lists,
what the model answers in a targeted pass is not blank, windows and limits are
naturals (positive where the code divides or steps by them), weights, windows
and distances are whole numbers, some word is named by no registry file, the
thresholds of a
verdict are in order and a model's confidence is clamped to 0..1
(`classify.py`, `_as_float`), an expiry label has words and a rank from one to
three, and the process that answers `/structure` started, so its registry
loaded. The taxonomy's loader checks that names are not empty (`complaints_taxonomy.py:501-506`) but not the comma;
`templates/complaints_taxonomy.yaml` has none.

* **Queue**: `TypeCorrect`; `Inductive` for `IInv`, and from it `OneOwner`
  (`OneWorker`), `HeldShows` (`HeldIsProcessing`), `ClaimsEnd`
  (`NoLeakedClaim`), `ReadAgain` (`DoneMeansReadAgain`), `Counted`
  (`NeverOvercounted`). None of them is inductive alone: that a held
  complaint is in a processing stage needs that no other process has a worker
  (`OneWorker`), which needs that a booting process holds the lock; that a claim ends with
  the work needs where each label of the worker stands to its claim; that
  finished means read again needs that a worker past its OCR has a row with
  nothing to re-read. `IInv` collects these; the step lemma has one step per
  action. From `IInv` follow two action properties, `LeavesByClaim`
  (`QueuedLeavesByClaim`: a queued complaint is in nobody's hands, so only a
  claim or a delete moves it) and `NothingStranded` (`NoStrandedRow`: each path
  out of a worker's hands but the two named settles the row or keeps the
  failure). `TextCorrect` adds `TextAtHand` (a worker at its OCR has the text
  its row has) and that only rows that exist have a text; `TextStays`
  (`TextIsKept`) rests on it. `GaveUpInTime` (`GivesUpInTime`), for every limit,
  needs `StopsAreCounted`: a count may pass the limit only by a graceful stop,
  and at most one process that was stopped has something to put back.
* **Files**: `TypeCorrect`; `RowsCorrect` for `RowsInv`: a thread in its INSERT
  is alone with SQLite's write lock, has the next id, and no live row has its
  bytes; every row is numbered. From it `OneRow` and, as an action property,
  `PathsAreStable` (`NeverRewritten`). `LocksCorrect` says where a thread or a
  sweep that holds its store's lock is, and `FilesStay` (`LiveHasFile`) rests on
  `FilesKept`, inductive for as long as one app runs and nothing is cleaned up:
  a file is in place before its row, an unlink is of a deleted row, and what a
  sweep is about to remove is nobody's because it has seen every row there is.
* **Review**: `TypeCorrect`, with the fact that what `do_feedback` makes of a
  request the store can take; `FlagCorrect`; `ConsistentCorrect`, whose
  invariant says of each decided verdict that is not stale that writing it now
  would leave the classification consistent; and two action properties,
  `VerdictsOutlive` (`VerdictsOutliveAnalyses`) from what `save_analysis` carries
  over, and `SettlingKeeps` (`SettlingKeepsUnseen`) from the flag's invariant.
* **Lease**: `TypeCorrect`; `Inductive` for `IInv` (the count equals the set of
  holders, a pending stop has a holder, a batch is remembered, and which label
  belongs to whom); `HoldersCorrect`, `BatchKnown`; `NeverUnder`
  (`StoppedOnlyWhenFree`) and `Refinement` (`SharedSpec`), both of which turn
  "the count is zero" into "the set is empty" by finite-set theorems.
* **OCR**: `TypeCorrect`; `LocksCorrect` for `LocksHeld` (each lock is held by
  exactly the thread whose place in the code is inside it), from it
  `AloneInPdfium` (`PdfiumAlone`), and `RecordIsTrue` (`ProgressIsTrue`). That the
  record is the running document's own needs that whoever is at a page holds
  the inference lock, so no other upload has begun since.
* **Wathq**: `TypeCorrect`; `CountCorrect` for `CountIsRight`. Its invariant has
  the slot with the one lookup in work, every request that reached Wathq covered
  by the count or about to be, and the difference of the counter known from the
  place in the code (none, the conversion, or both). `CachesCorrect` says of
  both stores and of every answer given which request it was fetched with: two
  forms with one key have one wire request, which is what `cache_key` is for
  and needs that a form's values are in the order of its endpoint's inputs.
  From it `ShownIsAsked` (`ShowsItsAnswer`; the other half, that what can be read
  is never taken for a failure, is a case analysis of `_decompress` over every
  stack of packings) and, as an action property, `NothingPaidTwice`
  (`CachesHold`): an answer that was fetched is in its cache or past its time,
  which evicting the oldest entry keeps only because it is the oldest.
* **Comparison**: `TypeCorrect`; `SlotIsHeldOnce` (`OneAtATime`): of the
  accepted comparison, its stream and its worker, exactly one has the slot to
  give back; `StreamsAreAnswered` (`StreamsEndWithAVerdict`), whose invariant
  follows the queue: its end comes after a verdict or is not read by
  anybody; `LateCallsAreBounded` (`AtMostOneLateCall`): after a client is given
  up its worker begins at most one more call. What the worker computes is left
  out of these four by the lemma `WorkControl`.
  `JobsAreHonest` and, from it, `ReportsAreHonest` (`ReportIsHonest`) are about
  what it computes, for every text, size of passage, list of rows and score.
  `HInv` says of each place of the worker what is so of its job (`Progressed`):
  the pairs leave no passage out, each pair passed was reviewed or failed, its
  changed numbers are told, each finding stands in the pair it came from, and a
  row that is lost is counted as rejected. None of the three parts is inductive
  alone: that numbers are told survives a failed answer only because they are
  told before the model is asked (`Told` at every place in the pair). Under it
  lie lemmas about documents: every readable line is in a passage, by the least
  multiple of the passage's size beyond it (`LineHasPassage`); a list made by
  rank leaves no member out (`RankedIs`, for passages and for pairs); the best
  of any scores is one of them (`BestIs`), so each passage has a nearest pair
  (`NearestAre`); the words from a line on end the words of its passage
  (`OnwardEnds`), so what is cited stands there (`CitationStands`) and each line
  can be cited from its own passage (`LineIsCited`). A step of the worker either
  adds findings of the pair at hand (`Grows`) or passes it (`Passes`); the
  lemmas about `Kept`, `Repaired`, `Compared` and `Agreed` compose these two.
  The recursive function `Onward`, the least counterexamples and `Max` rest on
  the well-foundedness of `<` (`LeastNumber`), no induction over data.
* **Analysis**: `VerdictCorrect` (`VerdictHonest`), for every taxonomy, letter
  and answer. The invariant keeps what is left of the loader's checks in the
  taxonomy (`TaxOK`): ids are unique because a list has as many ids as entries,
  ranks fall from any entry to any later one, a second priority exists. From
  these: a signal's floor is reached, only the cap of a suspicious text lowers
  a priority, and the subcategory is the category's.
  `LetterCorrect` (`LetterFollowsRecord`)
  adds who may still ask for a letter and what `outside_jurisdiction` in the
  reasons implies. `OwnWordsCount` (`OwnWordsOnly`), for every letter: what is
  kept of a list are entries of it (`OnlyIs`, by the least index at which it
  would fail), a name found in two values joined by a comma is in one of them
  (`InOneOf`), a name found in the text with the address blanked out stands in
  the text outside the address (`Backs`), of the hits of a search one is beaten
  by none, so that what it comes to is the rule of a name found (`Unbeaten`,
  `Found`), and from these `Resolves`: a governorate comes with the home region
  and only from the letter's own words. `OwnInv` keeps these facts from step 1
  to the end. `RestsOnRequests` (`RestsOnWhatWasSent`), for every window, letter
  and number of tokens: `ClipIs` says that a clip keeps to its limit and,
  without a tail, is the first words; `LimitFits` that rounding 1.5 characters
  a token, there and back, takes no request over its window. `SentInv` says
  of the request in flight that it fits, of what was sent that it is such a
  clip, and of an unmarked verdict that all but the closing block was sent.
* **Documents, routing**: `VerdictEarned` (`VerdictIsEarned`), for every registry
  file, page and answer. `RInv` says which registry is in use (one of a file that
  loads), and of a verdict by which stage it was reached. A score is a number of
  points, and the lemmas about it compare sets of points, so that no sum over a
  list is needed; that the first of a ranking is beaten by none is `RankedIs`,
  by a least counterexample. `NoRuleIsDead`
  (`NoDeadRule`) holds for every registry file, with no assumption on what the
  loader lets pass: `Checked` is what the loader sees to in an anchor, that its
  headings are declared and its numbers whole; of an anchor that is stifled `StifledIsSilent` shows that none of its gates can be met on any
  page; of any other `FiresUnless` takes the page laid out for it, whose run-up of
  `Filler` holds no marker and leaves the heading above the anchor, and finds it
  to fire.
* **Documents, expiry**: `ValidityIsItsOwn` (`ValidityIsOwn`), for every page and
  set of labels. A label's candidate is the first date it reaches, one rank lower
  when that is on another line; a candidate of the best rank with the earliest
  date wins. The proof shows that some candidate is best, that a date on the line
  of a label of rank three is of the best rank there is, and that no candidate of
  that rank stands before the first such date. `ExpiryInv` says that the
  verdict of a result is backed (`Backed`): by the scan when its basis is a label,
  by a day, and by the page when its date is the model's.
* **Documents, facts**: `FactsAreShown` (`FactsAreBacked`). `DataInv` types all
  that a request carries. `FactsInv` says of every cell that what it claims is so
  (`Claims`): found means found outside the markers, with each number in its form.
  `TracedInv` is about citations. Its parts: `OffsetBack`, that the browser's
  offset of a word, in which some words count twice, leads back to that word and
  no other; `FindIs` and `LocateIs`, that the place chosen among several is one
  of them, and one on the line of the row's anchor when there is one there;
  `AnchorIs`, that a row whose values are printed has an anchor; and
  `OwnColumns`, that a row holds only keys of its own section, so the columns
  shown leave nothing of it out. Hence `RowIsTogether`: all that the anchor's line
  prints of a row is cited on that line.
* **Documents, losses**: `NothingLost` (`NothingIsLost`), for every page, limit
  and template. `ReadInv` follows the generic pass: the pieces read and those
  still to do tile the text sent (`Tiles`), and a budget says how many calls may
  be left (`InBudget`: a piece costs at most what its remaining depth allows),
  from which the seven calls follow. That a halving keeps the tiling is
  `SplitKeeps`, from `SplitIs` (the cut lies inside the piece, at a line end or in
  a line that spans it) and `LongLine` (a line that spans the cut has three
  quarters of the piece); the sums `Ends` are typed by a least counterexample
  (`EndsAre`). `HeldInv` counts: for each
  value at least as many places of the answer hold it as items returned it.
  Without a template the places are the extras, section by section. With one,
  each item goes to a field, to a cell of a row or to the rest; each step adds a place
  (`Grows`) and leaves the others (`Holds`), a record pass displaces nothing
  because a table is asked for only while it is open, and each place has a spot
  of its own in the answer (an injection, `Matched`). `FoldExists`, `FlattenIs` and
  `KeptIs` replace the inductions over lists by least counterexamples. That
  windows miss no pair of neighbouring lines rests on their overlap by one line.

Proved and not run: the type invariants, `IInv`, `HeldIsProcessing`,
`NeverOvercounted`, `TextAtHand`, `StopsAreCounted`, `RowsInv`, `LocksHeld` and
`FilesKept` of the files, `HoldersAreCounted`, `BatchIsRemembered`,
`StoppedOnlyWhenFree`, `LocksHeld` of the OCR, `AtMostOneLateCall`, the parts of
`CachesOK` and `AnswersOK`, `OwnInv`, `SentInv`, `HInv`, `RInv`, `ExpiryInv`,
`DataInv`, `FactsInv`, `TracedInv`, `ReadInv` and `HeldInv`. TLC has checked each of
them on the instances of section 3, those that quantify over every value
(`DataInv`, `HeldInv`) for the values of the instance.

Only model-checked: all liveness (`EveryComplaintSettles`, `LeftoversGo`,
`FreedAfterUse`, `SlotComesBack`, `EveryCallEnds`, `Ends`, `RunsEnd`), which with
fairness and ENABLED is beyond the prover, and `RightOwner`. The latter is not
true of every page: whose value a line holds is known only to whoever wrote the
page (`of`, in the run's documents), and a page that names two roles in one
heading may be read either way; and a row's longest value, by which the row is
anchored, may be printed on an earlier line than the row
itself. What holds of every page is in `CitationsStand`: a row is cited together
on a line that prints part of it.

## 6. What is not modelled, and why

* In the queue: the time until a poll, `notify`, and OCR and model contents;
  the wake is only a matter of when, and the 30 s poll makes it a matter of
  fairness. SQLite itself is taken to be serialisable.
* In the files: half-written temp files and their age limit; Windows' refusal
  to unlink an open file is the `unlink` fault.
* In the review: the ministry (nothing is coupled to it), the `model_*` columns
  and the history tables, which these methods only write. More than one
  complaint: no method here reads a second one.
* In the lease: two app processes, each with a lease of its own on one port;
  Qwen, which is never released; the HTTP provider, which has no server. The
  fault of a refused stop is in the model and the theorems, not in the run.
* In the OCR: image preparation and the layout of a page; the recognizer's
  start is one step.
* In the lookups: the `/suggest` and `/compare` routes and the views, which
  only shape an answer or ask the local model about it.
* In the analysis: deadlines (a table of hours), the wording of prompts and
  letters, the text of the insights.
* In the documents: the parsing of dates and calendars, prompts, the order of
  printing within a line beyond words.
* Where a definition is narrower than its code:
  - a requeue whose read after the COMMIT fails (`complaints_store.py:958`) is
    retried in the code and may count one interruption twice; `Refused` leaves the
    row and its events as they were;
  - a value is compared with an enumeration as it is written, without the folding
    of the article (`registry.py:278-284`);
  - the heading above a word is found by its exact words (`Routing._section_at`);
  - the scalar fields of a result stand required first, not in the template's
    sections (`structure.py:1044-1054`): this matters only to which of two expiry
    fields is taken;
  - two windows of the expiry scan share a line, not 400 characters
    (`expiry.py:541-556`);
  - a page marker's number is no token a value may be backed by, where the code
    counts one of three digits or more (`structure.py:349`);
  - passages of a comparison end at line ends, so a line is never longer than a
    passage (`comparison.py:94-103`); a word stands for the four letters
    that `comparison.py:308` asks for.
* The components with status `not_modelled` in `PROJECT.json`, with the reason
  there: shaping of data, geometry, single requests to outside services, the
  browser's pages, the schema migration.

## 7. Running it

    tlc -workers 2 -config QueueSafety.cfg MCComplaintQueue
    tlapm ModelLeaseProofs.tla

`PROJECT.json` names the `MC` module of each `.cfg`. The longest runs take
two to three minutes; `DocumentProofs`, which
extends `ReadingProofs` for its facts about lists and templates, takes about ten.
