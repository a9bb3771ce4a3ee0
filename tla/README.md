# Formal models of Wakeel

Wakeel is a Laravel application with Filament panels for an expert-witness and
legal office: matters, employees, payroll, properties, mail, and a set of PDF
tools that run in the browser. This directory holds TLA+ specifications of the
parts of it in which several actors share state over many steps, the TLC
configurations that check them on small instances, and proofs checked by TLAPS
for every value of the constants. Paths below are relative to the repository;
`MMS/` stands for `app/Services/MMS/`, `js/` for `resources/js/`.

## Contents

| file | what it is |
|---|---|
| `Payroll.tla` | runs, payslips, loans, tickets; requests that decide on what they read earlier |
| `PayrollTransactions.tla` | the same when generations of payslips overlap as database transactions |
| `UpdateProgress.tla` | what the updater promises of an update (abstract) |
| `Updater.tla` | the steps, lock, settings and maintenance mode of the updater (detailed) |
| `Splitting.tla` | a PDF split into parts under a size, or of so many pages |
| `Compressor.tla` | the pictures of a PDF redrawn by workers, several at once |
| `PictureReading.tla` | which pictures the compressor reads itself, and how |
| `PngFilters.tla` | the filters of a picture's rows, undone when it is read |
| `PdfObjects.tla` | a PDF's objects kept once, repointed, collected, and cut apart by page |
| `MergePage.tla` | the Merge PDF page and the OneDrive picker |
| `ToolPage.tla` | the Compress PDF and Split PDF pages around their work |
| `PdfTools.tla` | composes the two: one browser tab going from tool to tool, and another tab |
| `Signer.tla` | the Sign PDF page |
| `RichText.tla` | the rich text fields of a form |
| `WordLists.tla` | lists pasted from Word |
| `Nothing.tla` | the value `None`, shared by the browser modules |
| `MC*.tla` | instances for TLC |
| `*Proofs.tla` | theorems and proofs |
| `*.cfg` | one per run |
| `PROJECT.json` | components, runs, mutants, map from definitions to source lines, findings, hazards, theorems |

    tlc -workers 2 -config payroll_months.cfg MCPayroll
    tlapm PayrollProofs.tla

## 1. Inventory

### The system's parts

| component | state it keeps | operations | who else touches it |
|---|---|---|---|
| Payroll runs and payslips (`MMS/PayrollRunService`, `MMS/PayrollService`, `app/Filament/Mms/Resources/PayrollRuns`) | run status and approvals; payslips with figures computed and typed by hand; gratuity accruals | create, generate, adjust, delete; submit, HR approve, Finance approve, disburse, return to draft | tickets regenerate payslips; loans' instalments point at payslips |
| Flight tickets (`MMS/FlightTicketService`) | ticket's run, payslip, how it was paid | create, choose for a run, add to a run, mark paid, pay in advance, settle with a run | payroll runs, employee requests |
| Salary advances (`MMS/LoanScheduleService`, `EmployeeLoan`) | loan status, instalments and the payslip that took each | create, rebuild the schedule, delete, recover, close | payslips, employee requests |
| System updater (`app/Services/Updater`) | `updater_state`, `updater_previous_offline`, `app_offline`, `storage/framework/down`, the step lock, the live log | start, next step, retry, give up | web cron, System Updates page, every request that reads a setting |
| Web cron (`app/Services/CronWebhookRunner`) | run lock, task mutexes | run scheduled tasks, continue an update | updater, bulk mail |
| Settings (`app/Models/Setting`) | rows, a shared cache entry, each request's copy | get, set, forget | everything |
| Bulk mail (`app/Jobs/SendBulkMailBatch`) | recipients' status and attempts, campaign status, daily count | send a batch, pause, resume | scheduler and page |
| Leave requests and balances (`MMS/LeaveRequestService`, `LeaveBalanceService`) | request status, absence ledger, entitlement counters | decide in the panel or by e-mail link, reclassify, end early, cancel | payroll reads unpaid leave |
| Employee requests (`MMS/EmployeeRequestService`) | request status | approve, pay | creates loans and ticket payments |
| Matter requests (`MMS/Requests/BaseRequestService`) | status | review, resubmit, approve, reject | matters |
| Leases (`app/Services/PMS/LeaseService`) | lease status, units' occupancy | draft, attest, renew, expire, terminate | units |
| Incoming mail, OneDrive, calendars, chat, push, templates, backup, installer, licence | rows and remote state | I/O around one row at a time | - |

| Split PDF (`js/pdf-splitter.js`, `js/pdf-splitter/`) | the document, what its pages need, the parts made, the zip | open, split by size or pages, cancel, download | OneDrive, the hand-over |
| Compress PDF (`js/pdf-compressor.js`, `js/pdf-compressor/`) | the objects of the PDF, a pool of workers with their loads, the drawer, each picture's outcome | open, compress, cancel, preview, discard | workers, pdf.js, OneDrive, the hand-over |
| Merge PDF (`js/pdf-merger.js`, `js/pdf-merger/`) | the list of files, the merged PDF | add, drop, reorder, take out, merge, cancel | OneDrive, the hand-over |
| OneDrive picker (`js/pdf/onedrive-picker.js`) | the folder open, what is listed | open, browse, search, choose | the server, answering late |
| Hand-over (`js/pdf/handoff.js`) | one PDF in the browser's IndexedDB, with the time | keep, take out | every tab of the browser |
| Sign PDF (`js/pdf-signer.js`) | the PDF, the items on its pages, the history, the lines of its text | open, place, drag, copy to every page, undo, change a line, sign | pdf.js, reading and drawing late |
| Rich text field (`js/rich-text-field.js`) | TinyMCE's script, an editor per field, the value last sent | draw, remove, type, send, upload | Livewire, the server, other fields |

The browser's code is single-threaded: between two `await`s nothing else runs,
and that stretch is one action of a model. Everything hard there happens at the
`await`s.

The rest of the JavaScript passes on one value or one event each
(`signature-pad-field.js`, `echo.js`, `push-sw.js`, the pop-up), or is published by
packages: the FullCalendar bundle alone
(`public/js/saade/filament-fullcalendar/components/filament-fullcalendar-alpine.js`)
is three quarters of the repository's JavaScript lines, and TipTap, TinyMCE and
Filament's assets are third-party as well. They are left aside, like `vendor/`.

Employee profiles, the gratuity formula, incentives, fees and payments complete
the list in `PROJECT.json`, each with its status.

### How they interact

Every action of a page is one HTTP request. The panels are configured with
`->databaseTransactions()` (`app/Providers/Filament/SharesPanelConfiguration.php:148`),
so the action's writes are one transaction; but the record it acts on was read
when the request started, before it. There is no `lockForUpdate` in the payroll
code, and MySQL runs at its default isolation, REPEATABLE READ. Guards such as
`assertStatus()` therefore look at a copy. Updater and cron talk through
settings and one cache lock; each request answers `Setting::get()` from a copy
of all settings taken when the request first read one.

### What is hard here

* **Guards on a copy.** Two people press two buttons on the same run; each
  request passes its guard on what it read.
* **Derived facts in two places.** A payslip is a sum; which instalments are in
  it is recorded elsewhere, as the instalments' `payslip_id`. Regenerating,
  deleting, returning and closing must keep the two the same over months.
* **Employees move** between companies while the month's runs of both are open.
* **Overlapping transactions** that read a snapshot and write by key.
* **A request killed half-way**, which leaves a lock taken and a sequence of
  settings half-written; a request only *thought* dead because it is silent.
* **A memo of the settings** that is older than the lock the request just got.
* **Answers that come late** in the browser: a folder listed, a PDF opened, a
  preview drawn, a picture uploaded, lines read, for something no longer there.
* **Workers and turns**: pictures handed out between awaits, a pool balanced by
  counts of jobs that fail, one drawer that serves a few at a time.
* **Estimates** of what a part of a PDF will come to, that may be off by anything.
* **A graph rewritten in place**: objects merged, repointed and removed must leave
  every page as it looked.
* **Undo, and gestures, that outlive** the document they began on.

What each component should guarantee:

* payroll: nobody is paid twice for a month; an instalment or a ticket is in the
  figures exactly when it is recorded so, once; figures stand still once HR has
  them; approvals belong to the figures; figures typed by hand survive a
  regeneration; a closed loan was recovered; the gratuity ledger follows what
  was disbursed.
* updater: one step at a time, in order, each once; the update ends; the site is
  left as it was found, whatever fails.
* PDF tools: no page lost, doubled or over the limit for no reason; a picture done
  once; Cancel heeded; the work ends; what is shown and offered is of what is open.
* Sign PDF: all that is placed, now and after any undo, can be written.
* rich text: only the user's changes are sent; the editor shows the form's value.
* bulk mail: each recipient once, the daily limit, a paused campaign stays so.
* leave: ledger and counters agree with the approved requests, each written once.
* leases: a unit is occupied by one lease; it is free when none holds it.

## 2. Plan

Most important first; what is done is marked.

1. `Payroll` - one action per button, requests with copies. **Done.**
2. `PayrollProofs`, in three parts: any number of overlapping requests; overlapping
   requests that write on current copies; overlapping transactions. **Done.**
3. `PayrollTransactions` composes `Payroll` with generations in two parts.
   **Done.**
4. `UpdateProgress` (abstract) and `Updater` (implements it), `UpdaterProofs`. **Done.**
5. `Splitting` and `SplittingProofs`; `Compressor` and `CompressorProofs`;
   `PdfObjects` and `PdfObjectsProofs`; `PictureReading`, `PngFilters`. **Done.**
6. `MergePage`, `ToolPage`, and `PdfTools`, which composes them with the
   hand-over; `PdfToolsProofs`. **Done.**
7. `Signer` and `SignerProofs`; `RichText` and `RichTextProofs`, `WordLists`.
   **Done.**
8. `Leave`: requests against the absence ledger and the counters; abstract
   specification: the ledger is a function of the approved requests.
9. `BulkMail`: two batches, a limit of two, one crash, pause and resume; theorem:
   nobody is mailed twice while only one batch runs and none is killed.
10. `SettingsCache`: rows, the shared entry, request copies, the refill at
   `Setting.php:104`; `Updater` then refines its copy.
11. `LoanSchedule`: `LoanScheduleService::plan()` as a function, checked against
   "the instalments add up to the advance, each at most the ceiling".
12. `MatterRequests` and `Leases`, smaller.
13. More proofs: that what `PngFilters` undoes is what it did, for rows of any
    length, that `PictureReading` reads every picture as meant, and that `WordLists`
    keeps the lists of any text: by the least counterexample, as in `MergedListed`
    (section 8). **Done.** With them every safety and action property of the passing
    runs is a theorem; what is left to prove is of modules not yet written (8-12).

## 3. Payroll

### State

| variable | in the database |
|---|---|
| `status` | `payroll_runs.status`; `"none"` before creation, `"deleted"` after |
| `hrApproved`, `financeApproved` | runs whose `hr_approved_by`, `finance_approved_by` is set |
| `slips[r][e]` | the row of `payslips` of run `r` and employee `e`: the instalments and tickets its figures sum, and the deduction typed by hand |
| `taken[i]` | `loan_installments.payslip_id`, as the run of that payslip |
| `loan[l]` | `employee_loans.status`, or absent, or deleted |
| `ticketRun`, `ticketSlip`, `paid` | `flight_tickets.payroll_run_id`, `payslip_id`, and which of `paid_at` and the direct payment marks it paid |
| `company` | `employee_profiles.company_id` |
| `accrued` | rows of `eosg_accruals`, unique per employee and month, of employees whose profile has a date of joining (`Joined`) |
| `seen[q]` | what request `q` read when it started: the record and the columns its action decides on |

### Actions

`OpenRun`, `OpenPayslip`, `OpenLoan` and `OpenTicket` are the start of a request;
their guards are the buttons' visibility. The other half of each request is one
action named after the service method: `Generate` (`PayrollService::generate`
with `clear`, `readForRun`, `buildPayslip`), `SubmitForReview`, `HrApprove`,
`FinanceApprove`, `Disburse`, `ReturnToDraft` (`PayrollRunService`),
`AdjustPayslip`, `DeleteRun`, `SetTickets`, `AddToRun`, `MarkPaid`
(`FlightTicketService`), `RebuildSchedule`, `DeleteLoan`. `Refuse` is a request
that fails, or is refused by a guard: its transaction is undone. `CreateRun`,
`CreateTicket`, `PayInAdvance`, `CreateLoan` and `MoveEmployee` read and write in
one transaction and are single steps.

Three things the code does and a reader may not expect are modelled as they are:

* `save()` writes only the columns in which the record differs from the copy:
  `ReturnToDraft` clears an approval only if the copy has it, `AdjustPayslip`
  writes nothing if the copy already says so.
* Generation deletes payslips and makes new ones, so a request that holds an old
  payslip has no row left to write to (`AnswerAndDiscard`).
* `SetTickets` and `AddToRun` regenerate the payslips, with the tickets as just
  set, in the same transaction.

### What is abstracted

Basic salary, allowances, unpaid leave, incentive and rounding are one number,
`Salary`; it and the fines are in units of one instalment or ticket, so `Net` can
be negative. One figure typed by hand stands for all of them. Every approver is
a different person (the code asks only for the permission). A loan's
`WRITTEN_OFF` is never set by the code. Employees have joined before the months
modelled, with the date on their profile or not, and stay employed. Journal
vouchers and forms only read.

### Current copies

`OnCurrent` says of a step that a request which writes does so on a copy that is
still current: the run on the rung and with the approvals it read, a payslip's run
still a draft, a ticket still unpaid and in no run. Requests may overlap in any
other way. The code does not see to it (section 9); what is shown under
`[][OnCurrent]_vars` is what a lock for update, or a version column, would be enough
for.

### Overlapping transactions

In `Payroll` a transaction is one step. `PayrollTransactions` lifts that for the
long one: `ReadForRun` computes the payslips of a run from the snapshot its
transaction reads, `Commit` writes them by key over whatever was committed
meanwhile (`WriteBuilding`: `clear()` deletes nothing when it saw no payslips, and an
instalment deleted since is marked nowhere), `RollBack` covers a refused unique index,
a deadlock victim and a dead process. The other requests of the ladder, creation, moves,
new loans, schedules built again and loans deleted (`DropInstalments`) happen between. It
leaves out tickets, and generation at a run's creation, which is the same code on a run
nobody else sees yet.

`crossed` is a history variable: a generation was written that no longer follows from
what is stored (`Late`). `PaidOnceUnlessCrossed` and `DeductedOnceUnlessCrossed` speak of
the time until then, since the code breaks both after (section 9); everything else may
overlap in them, with stale copies. `TakenIsDeducted` holds always.

## 4. Updater

| variable | in the code |
|---|---|
| `state` | setting `updater_state`: version, number of completed steps, failed or not |
| `prev` | setting `updater_previous_offline` with the `was_down` beside it |
| `offline`, `down` | setting `app_offline`; `storage/framework/down` |
| `locks`, `lock` | whether the cache store has locks; the owner of the cache lock `updater:step` |
| `quiet` | the live log has not grown for `STALE_AFTER` (600) seconds |
| `pc`, `copy` | where each runner's request is, and its copy of the settings |
| `page` | what each open System Updates page last showed |
| `before` | history: how the site stood before any update |
| `deaths` | requests killed, bounded by `MaxDeaths` |
| `stranded` | history: one of them after the record was forgotten and before the framework's maintenance mode was left |

A *runner* is the web cron (`CronWebhookRunner::continueUpdate`) or the loop of an
open page (`SystemUpdates::runNextStep`). `Ask` takes the copy; `Acquire`, `Busy`,
`FindDead` and `ForceRelease` are `runNextStepIfIdle()`; `BeginStep` to `Forget` are
`runNextStep()`, with the two steps that change the site - maintenance and finish -
taken apart into their writes (`RecordOffline`, `SwitchOffline`, `PutBack`,
`ForgetPrevious`). `Fail` is an exception, `Die` a killed request, whose lock stays;
`AbandonDies` is giving up killed between two of its writes. A cache store without
locks (`Updater.php:114-116`) lets every request on (`Acquire`). `GoSilent` and
`Expire` are time. `Start`, `Retry`, `Abandon` are the buttons, which go by what the
page last showed. What the other seven steps do to code, packages and database is
not modelled: each completes or fails.

`UpdateProgress` is the abstract specification: begin, advance, stop, resume, end.
`Updater` implements it with `progress <- state` (property `Promised`).

Left out: settings changed by hand during an update; `latestIsNewer()`, i.e.
a release to update to is always there; the scheduled tasks of the cron.

**Fairness** (`FairSpec`): weak fairness of each runner's own progress, `Work(p)`, and
of time, `GoSilent`. The cron is called every minute and asks while an update is
under way; a page asks again as soon as it is answered; `ignore_user_abort` lets
PHP finish when the browser has gone. Nothing is assumed of people: no button
need ever be pressed. Weak fairness is enough because each runner's next move
stays possible until it makes it, or another runner's answer replaces it.

## 5. The PDF tools

### Splitting

| variable | in the code |
|---|---|
| `doc`, `analysed` | the document and `analysis`: what each page needs (`pdf-splitter.js:150`) |
| `ask` | the form: parts under a size, or of so many pages |
| `stage`, `first`, `last`, `estimate`, `bytes`, `repack` | where `splitBySize`/`splitByPages` is, and the part in its hands |
| `made`, `saved`, `estimated` | the parts finished; the sums the estimates are scaled by |
| `cancelled`, `shown`, `zip` | Cancel; what the page lists; what is downloaded |

`Split` to `Zip` follow `split.js` between its `await`s: `Analyse`, `Pack` (by
estimates, clamped), `Count`, `Copy`, `Write` (a file of *any* size of `FileSizes`),
`Repack` (once, when the first part came out far from its limit), `Trim` (pages
moved on until it fits), `Finish`, `List`. `Throw` is a failure or a Cancel noticed.
A file's real size is nondeterministic: nothing may depend on estimates being good.

### Compressor

| variable | in the code |
|---|---|
| `phase` | where `compressPdf` is, from loading to saving |
| `plan`, `outcome`, `next` | each picture's way (kept, read directly, drawn by pdf.js), what became of it, the shared index of `atOnce` |
| `pool`, `load` | the worker pool, or the page itself; jobs counted for each worker |
| `pc`, `at`, `on`, `mine` | each runner: where, its picture, the worker with its job, its drawer |
| `drawer`, `drawing`, `waiting`, `pdfWorker` | `draw-image.js`: who draws, who waits, and the pdf.js worker |

There are twice as many runners as workers. A runner's stretch from `await` to
`await` is an action: `Take`, sending to the least loaded worker, entering and
leaving the drawer (`Leave` wakes the next), `GoOn`; `ImportFails` is a drawer whose
script does not load. `WorkerError` is the worker's error event, `Notice` a Cancel
or failure a runner meets.

### PdfObjects, PictureReading and PngFilters

Objects are numbered and refer to each other by keys; of their contents only whether
they are alike is told apart. `Strip`, `KeepOnce` (twins merged, in two rounds),
`Redraw`, `CollectAgain` follow `compressPdf`; `AnalysePage` follows
`analyse`/`reach` in `split.js`, where a page is cut off from the links to the
others. The page tree may be of any depth, and a page has the resources of the
nearest node above it (`Inherited`). Garbage is what neither the catalog nor the
document's information reaches. `ShowsTheSame` says what may go: thumbnails and
private data of pages, and of a redrawn picture its colour space and what is never
shown of it; keys that led nowhere may go on doing so. It sets apart redrawn
pictures that had a `Mask` or a layer, which the code does lose (`LostMask`, section
9). `PngFilters` is `encode-image.js`'s five filters and the predictor a reader
undoes, on samples modulo `Levels` - 256 in the code, 3 in the run, which is the
least with a sign and a wrap-around. `Samplings` are the rows, filters and channels
that may be met.

`PictureReading` is the choice `compress.js` makes before that: a picture is left
(`Keep`), drawn by pdf.js (`Draw`), or read in steps - inflated, unpredicted, taken
as samples or as a JPEG. `ReadAsMeant` compares the steps with what the picture's
filters and parameters mean by the PDF standard, for every dictionary in `Images`
and for those the compressor writes itself. It leaves out the pictures the
code does read otherwise (section 9): parameters in an array or behind a reference, and
predicted rows whose `Columns` is left out. What the two modules say is of one picture;
`Compressor` EXTENDS them, and its `PicturesComeBack` says it of all of `Images` and
`Samplings` in one of its initial states.

### MergePage, ToolPage, PdfTools

`MergePage` keeps the list of files, the picker (the folder open, `trail`; the words
in its search box, `search`, and whether they are still to be asked for, `due`; what
was asked for and not answered, `asked`; what is listed, `items`), the merge under
way (`job`) and what it made (`merged`, with the bookmarks as linked entries).
`ToolPage` is what the Compress and Split pages have in common: opening (`opens`),
one `busy` flag, the work under way (`works`, one step here), its `result`, the
split's `analysis`, and previews on their way. `PdfTools` lets one tab go from merge
to compress to split through `store`, the place in IndexedDB; `OtherTab` and
`HourPasses` are another tab and time, `TakeFails` a storage that fails. A PDF
without pages is saved with an empty one (`WithAPage`).

`Browse` changes `trail` when it asks; `Type` changes the search box and nothing else, and
`Find` asks half a second later, leaving `trail`. In between, the picker goes on showing
what it showed: `ListsWhatIsOpen` sets that half second (`due`) apart (section 9).

Two history variables bound what the properties speak of, since the code does
otherwise there (section 9): `dropped` (a file dropped on the page while it
merges) and `late` (a PDF opened or discarded during another's opening or work).

### Signer

An item is `[id, page, line, found]`: the page it is on, the line of the PDF's text
it replaces and the PDF that line was found in. `loads` are PDFs being opened, `pdf`
what pdf.js has, `original` the bytes written into, `shown` the pages laid out;
`history` is for undo; `reads` and `edits` are readings of lines and lines being
drawn, which go on while another PDF is opened; `gesture` is what the pointer
holds. One action per handler: `Open`/`Opened`/`NotOpened`, `Arm`, `Place`, `Change`
(turn, or text entered), `EveryPage`, `Delete`, `Deselect`, `Undo`, `Press`/`Move`/`Drop`,
`ToggleEdit`/`ReadLines`, `ClickLine`/`Sampled`, `Sign`/`SignEnds`. The overlay that says
the page is busy can be scrolled past (`sign-pdf.blade.php:166,173`), so pages can be
clicked meanwhile (`Reachable`). `crossed` records that a PDF was opened while another's
lines were read or drawn.

**Fairness.** `Splitting`, `Compressor` and `PdfTools` state weak fairness of the
page's own steps: JavaScript goes on by itself, a worker answers or says it
failed, a request is answered or fails, a promise settles. Nobody has to click
anything, Cancel included. That a worker can also die without a word is a
limit of this assumption (section 9). `Signer` and `RichText` state no liveness.

## 6. Rich text fields

| variable | in the code |
|---|---|
| `script`, `editors` | `loadTinyMce()`'s one promise; how many editors TinyMCE holds for each field |
| `phase` | of each field: gone, waiting for the script, failed, starting, ready |
| `old` | editors still starting for the field as it was drawn before |
| `state`, `sent` | the entangled value; `this.sent` |
| `shown`, `content` | the editor's text when it last agreed with the form; now |
| `focused`, `timer`, `uploading` | the cursor, the 400 ms timer, a picture on its way |
| `typed`, `missed` | history: changed by the user since the server's last value; a value set while the cursor was in the text |

TinyMCE writes HTML its own way, so a text the server stored and the same text read
back from the editor are different strings: values are `[text, form]`, and "is this
a change" is the question the model is about. Actions: `Draw`, `ScriptEnds`,
`Started`, `NotStarted`, `OldEnds`, `Destroy`, `Focus`, `Blur`, `SentSoon` (the
timer), `Type`, `Uploaded`, `ServerSets`.

`WordLists` is `wordLists()`, run on what is pasted from Word: a function of how
many paragraphs were gone over, whose state is the stack of lists still open
(`OpenAt`, `Deepened`). A list is known by the paragraph it was put before, an item
by its number in each list around it. `ListsKept` says what the result must be
without the stack: depth and order kept, one list for what stood together, each item
inside the last one less deep. `RichText` EXTENDS it: `PastedListsKept` says
`ListsKept` of every text in `Pastes` before the first field is drawn.

## 7. Runs

| run | instance | distinct states | what it shows |
|---|---|---|---|
| `payroll_months` | two months of one company, one employee who may move to another and back, a loan of two instalments, a ticket, fines 0 and 2 against a salary of 1; two requests that overlap and write on current copies (`SpecCurrent`) | 342,540 | a ticket is paid once (`TicketPaidOnce`); the gratuity ledger follows (`AccruedWhenDisbursed`); figures stand (`FiguresMoveOnlyInDraft`, `HandEnteredKept`); in whichever order the months are worked |
| `tx_overlap` | one month of two companies, two generations at once, a move, a loan built again or deleted, stale copies; one of the runs climbs past HR | 804,032 | an instalment that reads as recovered is in a payslip's figures (`TakenIsDeducted`); nobody is paid twice and each instalment is deducted where it points, until a generation is written late (`PaidOnceUnlessCrossed`, `DeductedOnceUnlessCrossed`) |
| `updater_killed` | one requester and a page, with locks and without, two versions, failures, time, up to two requests killed | 16,812 | the site is as before, or what it was is on record (`OfflineAccountedFor`, `RecordIsOfBefore`, `BackAsBefore`); the steps get done with nobody watching (`StepsGetDone`); refinement (`Promised`) |
| `updater_two` | cron and an open page both asking, never silent, none killed | 446,109 | `OneStepAtATime`, `UpdateEnds` |
| `splitting` | documents of one to three pages sharing a font and a picture in every way; limits 4 and 8, or two pages; files of 3, 5 or 9 | 69,172 | no page lost or doubled, none over but alone, what pages share counted once; Cancel heeded; it ends |
| `compress` | three pictures, two workers, four runners, a drawer for one at a time; errors, a drawer that does not load, Cancel | 609,255 | each picture once, loads are jobs pending, nobody left asleep, Cancel heeded, it ends; pictures are read as meant, and filtered samples come back (`PicturesComeBack`) |
| `pdf_objects` | PDFs of about ten objects: twins, masks and colour profiles shared in every way, information on the document; two pages, one a node deeper, linking to each other, the tree and a form field | 45,738 | the catalog and the information show the same, nothing unused is left, what is alike is kept once; pages keep apart and only links are cut |
| `pdf_mask` | the same | - | a counterexample, section 9 |
| `pdf_tools` | a PDF of two pages, an empty one, one of one page; two OneDrive folders and one search; two runs of the work; another tab; a storage that fails | 509,681 | what is merged is what is listed; nothing stale is shown; what is handed on is what was made; pages get free |
| `signer` | a PDF of two pages and one of one; two items, one change to undo, one PDF opened and one line read or drawn at a time | 5,399,219 | everything placed can be written, now and after undo; lines are of the PDF |
| `rich_text` | two fields, each removed up to twice while its editor starts, two texts; pasted texts of up to five paragraphs | 245,548 | only the user's changes are sent, the editor shows the form's value, no editor outlives its field; pasted lists are kept (`PastedListsKept`) |
| `payroll_two_months_open` | two months of one company, the next generated before this one is disbursed | - | a counterexample, section 9 |

### Bounds and why they are enough

* Two months: the hazards relate a draft of one month to a disbursement of another;
  a third adds no new relation. Two runs of one month are the least between which an
  employee can be paid twice or an instalment deducted twice. A run's identity is
  used once (ids are), so a deleted run stays deleted; creation can happen in any
  order.
* `Term = 2` is the least with an instalment taken and one outstanding; between the two
  runs of one month one instalment is enough.
* One employee: nothing in the code relates two employees of a run except that
  HR's approval looks at all payslips and the ladder asks for at least one; the
  theorems are for any number.
* Two requests: every hazard found is one request between the read and the write
  of another. Requests are symmetric.
* `OneRunClimbs` in `tx_overlap` keeps one of the runs at HR's rung or below. The
  theorems about its three properties are without that bound.
* `MaxDeaths = 2` lets the retry of a killed step be killed as well, or giving it up.
* `SilentSteps = {}` in the runs of the updater: a step prints often enough (see the
  disagreements for when it does not).
* `splitting`: three pages are the least with a part, one trimmed and one after it;
  file sizes lie below, between and above the limits whatever was estimated.
* `compress`: two workers and three pictures leave a runner without a picture, one
  waiting for another and one that takes a second; `AtOnce = 1` makes waiting
  happen at once. The theorems are for any number.
* Pasted texts: four paragraphs of two lists and two levels, or five of one list
  and three levels, the least that opens a level, leaves two and opens one again.
* Pictures (`SmallImages`, `SmallSamplings`): one or two filters, every kind of
  predictor, `Columns` given or not, 1, 8 or 16 bits; two rows of two samples of one
  or two channels. Both and the pasted texts are of any size in the theorems.
* `pdf_tools`: `MaxFiles = 3` allows a file taken out between two others; `MaxAsked = 2`
  an answer of a folder left, or of a search cleared (files listed and requests not
  answered are bounded together); `MaxRuns = 2` a work after a work.
* `signer`: `MaxItems = 2` is the least with an item on each page, one removed and one
  undone; `MaxHistory = 1` makes the history overflow at the second change. The theorems
  are for any of these bounds.
* `rich_text`: `MaxOld = 2` is the least with one editor of a field drawn before still
  starting when another of it is removed.
* Deadlock is checked in the updater's runs. Elsewhere the system may stop: the
  stock of runs, loans and tickets is used up, the work is done, nobody clicks.

Every property of a passing run has a mutant of the code's definition, next to it
in the module, that violates it: the other runs of a month not looked at, a
disbursed run reopened, `clear()` that does not release, a lock taken without
asking, a runner that leaves without waking the next, a page analysed with what is
near it, ids that start again with each PDF, and so on.

## 8. Proofs

For any constants that meet the assumptions in the modules:

* functions have the right shape, and `None` is none of the values it stands beside:
  no number in `Signer` and `MergePage`;
* `Splitting` and `PdfObjects`: a document has finitely many objects;
* `PdfObjects` (`PdfAssumption`): a page itself refers to the tree and to other pages by
  `Parent` only, and what pages inherit is none of the tree; the links written in a page
  are modelled as objects of their own. The tree may be of any depth;
* `MergePage`: the PDFs there are stand in an order, by name, and a search is told apart
  from a folder;
* `PngFilters` (`SamplingsAssumption`): a picture's rows are of one length, their
  samples below `Levels`, their filters PNG's five, a pixel has a sample or more;
* `PictureReading` (`ImagesAssumption`): numbers are naturals, and parameters stand
  only beside a filter;
* `WordLists` (`PastesAssumption`): a level is a natural.

| theorem | statement | argument |
|---|---|---|
| `TypeCorrect` | `Spec => []TypeOK` | by action, not a property of a run; needed by all that follow, because Eloquent's partial writes (`EXCEPT`) say something only of functions |
| `PaidOnce` | `[]PaidOncePerPeriod`, any number of overlapping requests, transactions in turn | inductive with `TypeOK`. Payslips are made only by `Written` of `Built`, which asks the *rows* of the other runs, not a copy: this is why it survives stale requests |
| `DeductedExactly` | `[]DeductedOnce`, likewise | inductive with `TypeOK`; lemma `GeneratedDeducts` says what `clear` and `generate` do together; `RebuildSchedule` needs the count the service makes in its transaction |
| `FiguresOfHandKept` | `HandEnteredKept`, likewise | an action property of `Built` and `AdjustPayslip` |
| `CurrentLadder`, `CurrentApprovals` | `ActsOnCurrent => ...` the ladder's properties, any number of overlapping requests | a request that writes has read what is stored (`Acting`), so each step of a run is one of the seven in `LadderStep`, from which the properties follow. Without `ActsOnCurrent` they are false (section 9): it says exactly what the code lacks |
| `CurrentAccruals` | `ActsOnCurrent => []AccruedWhenDisbursed` | inductive: only `Disburse` reaches or leaves that rung or writes the ledger (`BooksNothing`), and it books the rows (`RowsOf`) of payslips that stand still from then on |
| `CurrentTickets` | `ActsOnCurrent => []TicketPaidOnce` | strengthening `TicketInv`: a ticket points at a payslip exactly when that one has it in its figures (`Carries`), of the run it was put in, and payroll has paid it exactly when that run is disbursed |
| `TypeCorrectTx`, `NothingWrittenOff` | `[]TakenIsDeducted` with any number of overlapping generations | strengthening `OwnInstalments`: a generation in progress holds instalments of its own employees only |
| `PaidOnceTx`, `DeductedOnceTx` | `[]PaidOnceUnlessCrossed`, `[]DeductedOnceUnlessCrossed`, any number of overlapping generations and requests | as long as none was written late, each `Commit` does what `Generate` does in one transaction (`CommitGenerates`), and the steps are those of `PaidOnce` and `DeductedExactly` (`StepsInTurn`) |
| `TypeCorrect` (updater) | `Spec => []TypeOK` | strengthening `Holding`: only requests under way hold a copy, and within a step one is left to do |
| `OneStepWhileHeard` | `[]OneStepAtATime` for any number of runners, requests killed at any point, no silence, a store with locks | strengthening `Exclusive`: past the lock means holding it, and nobody takes it over; a killed request's lock stays taken |
| `KeepsPromises` | `ActsOnCurrent => Promised`: every step of the updater is a step or stutter of `UpdateProgress`, for any number of runners and pages, with failures, deaths, silence, locks or none | strengthening `InStepWithState`: one runner at most is inside a step, and nobody moves the state under it. `ActsOnCurrent`: a step begins on settings still current with no other running (`BeginsOnCurrent`), and buttons fit what they are pressed on (`PressedOnCurrent`). Where the code does not see to either is in section 9 |
| `RecordIsTrue`, `SiteComesBack` | `ActsOnCurrent => []RecordIsOfBefore`, `... []BackAsBefore`: any number of runners, pages and deaths | strengthening `Site`, which says at each point of a step what is on record and what is switched, until a death leaves the site `stranded` |
| `OfflineNeverLost` | `ActsOnCurrent => []OfflineAccountedFor`: any number of runners, pages and deaths, wherever they fall | strengthening `Accounted` |
| `TypesHold`, `NoPageIsLost`, `OverIsAlone` (splitting) | `[]NoPageLost`, `[]OverOnlyAlone`: any document, limits, file sizes | `IInv`: the parts made follow on each other and the one in hand begins where they end (`Reached`); what is shown is `made`, whole (`Shown`) |
| `CancelIsAlwaysHeeded` (splitting) | `CancelIsHeeded`: no zip after Cancel; parts may still be listed | an action property of `Step` from the types |
| `ObjectsOnce` (splitting) | `[]EachObjectOnce`: any document | strengthening `AsPacked`: the estimate in hand is the sum of what the pages from `first` to `last` need together. A sum over a finite set does not depend on the order it is taken in; a page added counts what the pages before it do not need, and one moved on takes away what the others do not |
| `PicturesOnce` | `[]EveryPictureOnce`: any number of workers, pictures, drawn at once | `IInv`: a picture at work is its runner's own and not done (`OwnPictures`), none taken is forgotten (`Claimed`), there is a picture for each runner about to take one (`Turns`), who waits for the drawer waits once (`Awaited`), runners are off outside their phase (`Stages`). `Turns` is what makes `Take` safe: the code reads `items[next++]` without asking again |
| `CancelIsAlwaysHeeded` (compressor) | `CancelIsHeeded` | `Heeded`: after Cancel only a runner that has had no picture may take one |
| `LoadsArePending` | `[]LoadIsPending`: any number of workers | the load of a worker and the set of runners with a job on it change together: also when the worker fails, or the pool is left for the page |
| `WaitingIsForSomebody` | `[]NobodyLeftWaiting`: any number of runners | strengthening `Rooms`: `drawing` counts the runners that draw, and while somebody waits, they and the woken ones together fill the drawer |
| `FilteredSamplesComeBack` | rows filtered by any of PNG's five, each by its own, and rows the compressor filtered, are read back as they were: any number of rows of any length, any number of channels and of levels | what is taken from a sample modulo `Levels` is what is added to it again (`AddedAgain`), if what was predicted is the same: the neighbours are known already (`RowComesBack`, by the least sample that were not; `RowsComeBack`, by the least row). `PredictsAsPng`: the code's three comparisons take the neighbour PNG chooses |
| `PicturesReadAsMeant`, `PicturesAlwaysComeBack` | `ReadAsMeant` of any picture whose parameters are in one dictionary, with `Columns` where rows are predicted; `[]PicturesComeBack` | by what `Plan` leaves to be read: no filter, Flate, JPEG, a JPEG in Flate; the steps of at most two filters, joined (`MeantOfFew`) |
| `ShowsSame` | `[]ShowsTheSame`: any document | strengthening `PdfInv`. There is a relation between the objects before and now, `Shows`: related objects have the same contents (`Like`) and lead by the same keys to related ones (`Leads`), save for what goes (`Goes`) and for redrawn pictures that lost a mask or a layer (`LostMask`). Each step - stripping, repointing to a twin kept, dropping, redrawing - keeps one. `MasksKept`: no mask is redrawn |
| `NothingUnusedSaved`, `StreamsKeptOnce` | `[]NothingUnused`, `[]KeptOnce`: any document | from `PdfInv`: after one round what refers to nothing is there once (`EndsOnce`), after two what refers to such (`UsedOnce`), and the sweep leaves only what is used (`AllOnce`). What is reached is the least closed set: lemmas say so of the counted steps of `Reached` |
| `PagesApart`, `LinksOnly` | `[]PagesKeepApart`, `[]OnlyLinksCut`: any document | strengthening `Analysing`: the document is the original with keys into the page tree cut in some objects (`PartlyCut`), whichever pages were analysed, and the tree itself and what is inherited stay as they are; what a page is found to need is what it reaches when all are cut (`FoundIn`) |
| `ToolTypes` | `[]ToolTypeOK` | not a property of a run; with it the rest of `PdfToolsProofs` |
| `HandedOn` | `[]HandedIsWhatWasSent` | strengthening `Handing`: what is kept and what was taken out is what this tab sent, as long as no other tab was there |
| `FolderShown`, `NothingStale` | `[]NothingStaleShown` | `FolderShown` is `[]ListsWhatIsOpen`. Strengthening `Browsing`: unless the search box is to be asked for, what was asked for last is what is open, and answers keep their order; `ToolInv`: work, analysis and result are of the document open unless one came late (`Working`), no two results are the same (`RunsApart`), the Compress page is busy with one thing at a time (`OneThing`), and a preview of the result there is opened the document there is (`Previewing`) |
| `MergedListed` | `[]MergedIsListed`: any PDFs, any number of files | strengthening `MergeInv`: the files listed have ids of their own (`Apart`), up to `lastId` (`Listing`); the merge under way has the pages and bookmarks of the files so far (`UnderWay`), and they are the files listed, fetched or not, unless one was dropped. That a bookmark's page is the first of its file takes the ids: pages are told apart by them. `Flattened` says what `FlattenSeq` makes of any number of files |
| `PlacedCanBeWritten`, `OwnLines` | `[]EverythingCanBeWritten`, `[]LinesAreOfPdf`: any PDFs, any history | strengthening `SignerInv`: the items and each list in `history` can be placed on the PDF written (`Undoable`: pages there are, ids of their own, lines found in it), and so can what a gesture would put back, or its item was of a PDF closed since (`Held`); lines read, offered and clicked are the PDF's unless `crossed` (`Looked`) |
| `OnlyChangesAreSent`, `EditorShowsValue`, `NoEditorIsLeft` | the three properties of `RichText`: any number of fields and texts | `IInv`: what was sent is the form's value unless one was missed (`Remembered`), and a text that differs from it has its timer (`ChangesArePending`). `EditorShowsValue` is about what was not set under the cursor (`missed`) |
| `ListsAlwaysKept`, `PastedListsAlwaysKept` | `ListsKept` of any text, of any number of paragraphs, lists and levels; `[]PastedListsKept` | what a paragraph does to the lists of the one before it (`WithOneMore`, `Chain`), from one to the next: the outermost list stays as long as they stand together (`Tops`), an item comes before the next, in the order of the item numbers from the outermost list inwards, which is transitive (`InOrder`), and no step of deeper ones touches the numbers of the lists above (`InsideLast`) |

The properties themselves are checked by TLC in the runs, and the strengthenings
were before they were proved.

The theorems of the library that stand for induction take an operator as their
parameter, which the installed provers cannot instantiate. Where a proof goes over
the pages of a part, the files of a merge, the paragraphs of a text or the ways
through a document, it
takes the least counterexample instead: `WFMin` for naturals (`LeastNatural`,
`UpFromZero`) and for finite sets (`UpFromEmpty`), with what is to be shown for each
element as a set. A module of proofs has its own copy of the lemmas it needs.

**Model-checked only:** liveness (`UpdateEnds`, `StepsGetDone`, `SplitEnds`,
`CompressEnds`, `PagesGetFree`), which under fairness is out of the prover's reach.
Every other property of the passing runs is a theorem too.

## 9. Disagreements between the code and what it says

With a run that finds the counterexample:

* **`pdf_mask`** - a picture drawn by pdf.js is "drawn opaque, its mask kept by the
  caller" (`draw-image.js:9`); the caller copies `SMask`, `Interpolate` and `Intent`, not
  `Mask` (`compress.js:245`), so a picture with a stencil mask loses it
  (as it does the layer it is shown with, `OC`).
* **`payroll_two_months_open`** - disbursing a month closes each loan whose
  instalments all *point at a payslip*, a draft's of the next month included
  (`MMS/PayrollRunService.php:172`). That draft regenerated, the instalment is
  outstanding on a closed loan, which generation no longer reads
  (`MMS/PayrollService.php:163`). It is never deducted.

Seen with the same modules, a line or two of a configuration away. Payroll:

* `payroll_two_months_open` with `SpecInOrder` of `MCPayroll` and `SettledLoansAreRepaid`
  holds: worked in order, the months close only loans that were recovered;
* `Spec` of `Payroll` in the place of `SpecCurrent` in `payroll_months`, and
  `DisbursedIsFinal`: a return to draft that read the run as
  approved reopens it after the disbursement, although "A disbursed run cannot be
  reopened.";
* `Spec`, and `TicketPaidOnce`: a ticket marked paid by a request that read it
  due, while another adds it to a run, is paid twice, although "This ticket is in a
  payroll run; take it out of the run first." (`MMS/FlightTicketService.php:177-178`);
* `Spec`, and `ApprovalsMatchRung`: a return to draft that read the run
  before an approval leaves that name on the draft (`MMS/PayrollRunService.php:95,105`);
* `Spec`, and `FiguresMoveOnlyInDraft`: a generation that read a draft
  rebuilds a run already at HR's (`MMS/PayrollService.php:60,69`);
* `SpecTx` with `DeductedOnce`: two months generated at the same time both deduct an
  instalment "that nothing has yet recovered";
* `SpecTx` with `PaidOncePerPeriod` and two companies: an employee who moves between
  the two snapshots is paid by both (`MMS/PayrollService.php:91-94`);
* `SpecTx` with `DeductedOnce` and a schedule built again between a generation's reads and
  its writes: the instalments it deducts have new rows by then, so none is marked
  (`MMS/PayrollService.php:471-473`), and they are deducted once more. `generateFor()`
  counts those deducted without a lock (`LoanScheduleService.php:84`);
* `SpecTx` with `HandEnteredKept`: a fine typed while the payslips are rebuilt is
  lost (`MMS/PayrollService.php:76-79`);
* "Only an untouched draft may be removed. Anything HR has seen is a record of a
  review": Delete is offered for every draft, also one returned after a review
  (`PayrollRunsTable.php:51-53`).

Updater:

* two runners with `StartsNextStep`: "it must never start the same step twice". A
  request that waited for the lock reads the state from its older copy of the
  settings and starts the step just done;
* `BackAsBefore` freed of its `~stranded`: the record of how the site stood is forgotten
  before the framework's maintenance mode is left (`Updater.php:516-519`). Killed in
  between, at the last step or when giving up, the retry finds no record and the site
  stays down; the next update takes that for how it stood;
* two runners with `RecordIsOfBefore`: the maintenance step run twice records the
  updater's own maintenance mode (`Updater.php:252-254`);
* `SilentSteps = {"database"}` with `OneStepAtATime`: a migration that prints nothing
  for ten minutes is taken for dead and another step starts beside it;
* `Silences = TRUE` and two runners, none silent inside a step and none killed, with
  `OneStepAtATime`: a request finds the lock taken and the log of the step before older
  than `STALE_AFTER`, since the holder has the lock and has not begun its log yet; it
  releases the lock and takes it (`Updater.php:100-110`), although "it must never start
  the same step twice";
* `Stores = {FALSE}` and two runners, with `OneStepAtATime`: without locks nothing keeps
  two requests apart (`Updater.php:114-116`);
* `UpdateEnds` with `MaxDeaths = 1`: killed between saving the finished state and
  forgetting it, the update is under way for ever with no step left
  (`Updater.php:169-172`) - hence `StepsGetDone`;
* two pages: an update retried on one and given up on the other is saved again
  when its step ends (`Updater.php:169,193`); an update where there was none.

PDF tools:

* `compress` with `FewDrawnAtOnce`: `drawer ??= (await import(...))` (`compress.js:74`)
  lets two runners that meet it at once make a drawer each; twice `AT_ONCE`
  pictures are drawn (`draw-image.js:12`), and one pdf.js worker is not destroyed;
* `compress` with `ReadAsMeant` of every `form`: "TIFF's predictor, or one that
  does not match the picture: pdf.js draws it." (`compress.js:198`), but `DecodeParms`
  in an array, as a PDF may give them beside `Filter` in an array, or behind a
  reference, are not looked into (`compress.js:179,195`): the picture's predicted rows
  are read as its samples;
* `compress` with `ReadAsMeant` freed of its `columns = 0`: predicted rows without
  `Columns` are one pixel wide by the PDF standard, and the picture's width in the
  code (`compress.js:201`);
* `signer` with `LineStaysCovered`: "A changed line of the PDF belongs to its own
  page." (`pdf-signer.js:463`), which is why it is not put on every page; but a drag
  moves it to any (`pdf-signer.js:435-440`), and the old line is no longer covered;
* `pdf_tools` without `~due`: the search box cleared, its results stay listed for the half
  second before anything is asked (`onedrive-picker.blade.php:16`) and until it is
  shown that the folder loads, while "Add every PDF in this folder" offers them
  (`onedrive-picker.blade.php:32-35`), and adds PDFs that may be of other folders;
* `pdf_tools` without `~late`: a handed PDF is opened whatever goes on, replaces the
  document and frees the page under the work (`pdf-splitter.js:85-88,150`);
* without `~other`: two tabs read the handed PDF before either takes it out
  (`handoff.js:45-46`);
* without `~dropped`: a file dropped while merging is listed and not in what is
  offered (`pdf-merger.js:187,192`).

Rich text: without `~missed`, a value the server sets while the cursor is in the
text is not shown, and what is typed next overwrites it.

Read in the code while modelling, and below what the models tell apart:

* two previews opened at once: the documents of the first are not destroyed
  (`pdf-compressor.js:140`), one that fails late closes the newer (`:144`), and an older
  page drawn late may replace a newer (`js/pdf/preview.js:15-17`);
* a worker that dies without an error event answers nothing, and the compression
  waits until it is cancelled (`image-pool.js:56`);
* undo does not mark the PDF as changed (`pdf-signer.js:618-628`); a change made while
  it is saved counts as saved;
* a double click on a line while its page is drawn makes two items
  (`pdf-signer.js:550-557`);
* a field removed within 400 ms of the last key drops what was typed
  (`rich-text-field.js:597-602`).

The passing runs and the theorems say under which conditions the properties hold
all the same: requests that write on current copies (`OnCurrent`, of payroll and of the
updater); generations not written late (`crossed`); steps that are heard, on a store with
locks; no kill that strands the site (`stranded`); one tab, one PDF at a time (`other`,
`late`, `dropped`, `crossed`), and a search box that has been asked for (`due`).

## 10. Not modelled

Section 2 lists what is planned. Beyond it, of the server: the cron's run lock,
shorter (120 s) than a step may take, and its shutdown handler, which drops a
task's mutex without asking whose it is (`CronWebhookRunner.php:70-89`); adjusting
two different figures of one payslip at once, whose totals are computed from the
older copy (`PayslipsRelationManager.php:291-306`); the refill of the shared
settings cache (`Setting.php:104`).

Of the browser: how pictures are made smaller and encoded (`encode-image.js`: sizes,
colours, JPEG quality), the byte layout of the zip, geometry and drawing on the Sign
PDF page, its saved signatures, what is stripped from pasted Word text besides its
lists, and the toolbar of the rich text field: computations of one caller on its own
data. The bundles of FullCalendar, TipTap, TinyMCE and Filament are third-party
code, and most of the repository's JavaScript lines.

The components that are I/O, formatting or arithmetic over one row are listed
in `PROJECT.json` with the reason for each.
