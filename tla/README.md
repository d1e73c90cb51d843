# Verification of cosmic-pass

TLA+ models of cosmic-pass, the COSMIC launcher for Proton Pass, with the TLC
configurations that check them on small instances and TLAPS proofs of what they
promise for every instance. Paths are relative to the repository, which is found
under `src/`; the program's own source is in `src/src/`.

    tlc -workers 2 -config Session.cfg Session.tla     # one run, of those listed below
    tlapm SessionProofs.tla                            # the proofs of one module

## 1. The system

cosmic-pass is one resident process with a popup. It has no access to Proton Pass of
its own: it runs `pass-cli` for everything, one process per call. Its core is a
reducer, `Model::update` in `core/state.rs`: every key, every answer and every timer
is a message, handled whole and one at a time, and the handler returns effects. The
runtime (`runtime.rs`) runs each effect as a task of its own and sends its answer back
as a message. So no two handlers interleave, but answers come in any order, late, for
things that are no longer asked, and a cancelled call may still deliver a value.

| Component | State it keeps | Operations | Talks to |
|---|---|---|---|
| Session and data (`core/state.rs`) | `session`, `data_account`, `data` | probe, sign-in, refresh, cache load, and what an error of any call says of the session | runner (effects and answers), cache store (save, load, delete) |
| Field list and reveal (`core/state.rs`, `actions.rs`, `totp.rs`) | `view.mode`, `view.revealed`, two cancellation tokens | open, move, reveal, mask, tick; what a new listing does to them | runner (fetch and cancel), session (listings) |
| Copy flow (`core/state.rs`) | `view.pending`, `view.copying`, `view.notice` | copy, cancel, hand over, confirm, notices | runner, clipboard helper, timers |
| Search, results, recent use (`core/search.rs`, `usage.rs`) | query, selection, usage records | type, move, record, prune | session, copy flow |
| Items (`pass/parse.rs`, `core/actions.rs`, `model.rs`) | a summary per item: names of fields, no values | list, build the rows, resolve a row | session, field list, copy flow |
| Sign-in (`pass/runner.rs`, `runtime.rs`, `view/status.rs`) | a process, two pipes, a channel, a stream; the link on show | start, read, forward, time out, finish | session |
| Preferences (`config.rs`, `core/state.rs`, `app/keys.rs`) | `prefs`, the row that is rebound | step, rebind, reset, load | the configuration files and their watcher |
| pass-cli runner (`pass/runner.rs`, `pass/backend.rs`) | permits, the warm-up guard | run, cancel, time out, list all vaults | `pass-cli` processes |
| Cache store (`cache/store.rs`, `keystore.rs`) | a queue of one snapshot; `cache.bin`; the key in the keyring | debounced save, load, delete | file system, Secret Service |
| Clipboard helper (`clipboard/mod.rs`, `serve.rs`) | the current job; a process for each copy | copy, watch, expire | the compositor's selection |
| Popup surface (`app/surface.rs`, `app/mod.rs`) | `surface.visible`, the time of the last hide | show, hide, toggle, focus | compositor, D-Bus |

What is hard about it: answers that outlive what they were asked for (an account
switch, a masked row, a closed window, an edited item); flags that say a call is under
way and must neither be lowered by another call's answer nor stay up; values matched
to requests by less than their identity; tasks that overlap across awaits (saves and
deletions, copies, preference files); processes that hang, fail or outlive the app;
permits held over awaits that can be cancelled; timers that race answers.

What makes each part correct:

- *Session*: nobody sees another account's items; a spinner has a call behind it;
  signed in, the list is filled, being filled, or says why not.
- *Field list*: a value stands beside the label it belongs to or nowhere; nothing is
  uncovered but by the user; a row does not wait for ever.
- *Copy flow*: busy means a live fetch; a closed window copies nothing; notices go.
- *Runner*: the limit does not shrink, cold starts are serial, every call ends.
- *Store*: a readable cache stays readable; what is signed out is not written again.
- *Clipboard*: a secret is gone in time whatever dies; what is no secret stays.
- *Surface*: reducer and compositor agree; one press does one thing.
- *Preferences*: what is in force is what is stored; one change changes one thing.
- *Results*: the highlight stays on its item under a listing; what is listed is what
  matches; the window opens on a fresh list.
- *Items*: a row copies the field it shows, and a namesake hides nothing but namesakes.
- *Sign-in*: no line is skipped, none is lost but to a failed read or the timeout, the
  end comes last, and it comes.

## 2. The modules

| Module | Models | Proofs |
|---|---|---|
| `Session` | the session half of the reducer | `SessionProofs` |
| `Login` | a sign-in in full, around `Session` | `LoginProofs` |
| `ItemKeys` | the item keys the two halves of the window share | |
| `FieldList`, `MCFieldList` | the field list, its reveal and its codes | `ViewProofs` |
| `CopyFlow` | copies, hand-offs and notices of the window | `ViewProofs` |
| `View`, `MCView` | the window: `FieldList` and `CopyFlow` in one | `ViewProofs` |
| `Items`, `MCItems` | from an item to its rows, and from a row to its value | `LauncherProofs` |
| `Results` | search, results, selection and recent use | `LauncherProofs` |
| `Surface` | the popup, its requests and its focus | `LauncherProofs` |
| `Launcher`, `MCLauncher` | the popup with the list in it: `Surface` and `Results` in one | `LauncherProofs` |
| `CacheStore` | the cache file, its key and the queue of saves | `CacheStoreProofs` |
| `Clipboard` | copies, their helpers and their watchers | `ClipboardProofs` |
| `Runner` | pass-cli's permits, guard and timeouts; a listing | `RunnerProofs` |
| `Preferences`, `MCPreferences` | preferences, editor, files, watcher | `PreferencesProofs` |

A call in flight is an element of a set (`probes`, `reveals`, `fetches`, `saves`, ...)
or a counter; an answer takes one out, any one, so all orders are covered. An action
is one handler of `Model::update`, whole, with the helpers it calls; in the modules of
async code (`CacheStore`, `Clipboard`, `Runner`) it is what runs between two awaits.
Variables and actions carry the names of the source where they have one. Operators
marked `mutant` in a comment are what a plausible mistake would make of the definition
after them; each property of a passing run fails under one of them.

**Session.** Items are reduced to the account they were listed for, the cache file to
the account it names. What pass-cli answers is free, since the user may sign in or out
in a terminal at any moment. Errors are grouped by what the reducer does about them.
`asker` is history: for whom the refresh in flight was asked. A deletion or a save of
the cache takes effect with its handler; their own steps are in `CacheStore`.

**Login** takes the two steps of `Session`'s sign-in apart. `pass-cli login` prints to
two pipes, either of which a browser it has opened may go on holding; one task reads
both (`run_streaming_inner`) and waits when its channel is full; the stream
(`login_stream`) chains the result after the last line. A line that cannot be read ends
the reading of its pipe, open though it is (`ReadFails`), and the timeout may come at any
moment of the reading or the wait, with lines in the pipes and one being sent, all of
which it drops. It instantiates `Session` with
`logins <- inFlight` and keeps the rest of its steps as they are, so the safety half of
`SessionKept`, `Session`'s whole specification, holds by construction. Its point is the
fairness: what `Session` takes for granted, that a sign-in is answered, is shown of the
pipes and the timeout. `Panel` has `Checking` stand in for the list whether or not there
are items, which is the harder case: there it has no button. A line is its number in its
pipe; the link is chosen where the reducer looks for one. F5 and copies are
left out here: their errors are those of the listing a probe asks for.

**FieldList.** A field is its `FieldRef`, an item the sequence of its fields and codes,
which field its kind prefers, and its edit time, so that renaming, reordering and
editing are distinguishable. A plaintext is the field of the item it was fetched for.
`RevealTarget` is modelled in full (generation, key, index, field, modified), because
its comparison decides what is shown. Codes last `Period` seconds of a clock.

**CopyFlow.** `StartCopy` to `CopyFinished`. Fetches get an id that the code does not
have, used by properties only. The session half's errors are here only as notices.
Its definitions begin with `Copy` where `FieldList` has the same (`CopyNext`, `CopySpec`).

**View** extends both and joins them handler by handler: one `hide` resets both,
Escape goes pending copy, list, window; a copied row is a row of the open item. Every
action is written as a step of a half, or none, beside one of the other, so what is proved
of the halves holds in the composition (`ViewStepOfTheList` and `ViewStepOfTheCopy` in
`ViewProofs`) and only what needs both is stated here.
Escape out of a rebinding is in `Preferences`.

**Items.** The user builds an item, the app lists it, a row is copied; the answer is
compared with the entry of the item its row was made of. Both sides are the code's: the
names `parse.rs` gives on listing, with `qualified` and `dedupe_selectors`, and the
names `ItemView` and `pick_totp` answer to on copying. A name is the sequence of its
dot-separated parts. `ItemView` matches names without regard to case, as `parse.rs:502`
says `pass-cli` does, while the parser compares bytes: `LowerCase` tells how a part is
folded, and nothing is asked of it. A custom field is hidden, a code, or neither. The entries of an item
are a set; `Earlier` is the order in which `fill` pushes them, and `InOrder` lists what
`KeepLast` leaves of them. Trashed items, and an item edited after it was listed, are
left out: the latter is `FieldList`'s.

**Results** and **Launcher.** Rows are positions in the item list and the selection a
position in the rows, as in the code; so is the index, built from a list of its own.
The score of an atom against a text is a table (the matcher is a library's), the rest of
`score_entry` and the ordering are modelled. `last` is history: the item copied last.
`Launcher` joins the list with `Surface`: keys reach it while the popup is up, whatever
closes the popup starts it anew, and listings, sign-outs and preferences arrive either way.

**CacheStore.** `load`, `save` and `delete_all` take no lock while they await; each is
a record with its step. A file is the snapshot in it and the key that sealed it; it is
readable if the keyring holds that key. The keyring comes and goes, and the process may
die between any two steps. A removal the disk refuses is left out.

**Clipboard.** Seconds pass only when no timer is due, so a timer fires in its second.
A copy may be secret or not; a helper reads its value, arms the watchdog, takes the
selection and writes its line, and may fail or stall between; it may also fail while it
serves (`serve.rs:112`), and what it served goes with it. The app may quit, which
kills its helpers, or die, which does not. `WATCHDOG_MARGIN` is 1 and the watchdog is
for secrets alone, as in the code (`contracts/cli.md:12` has another margin, and has every
helper end by itself, that of a plain value too).

**Runner.** The semaphore and the mutex queue first come, first served, as tokio's do.
A listing asks for all vaults at once and falls with the first that fails (`try_join_all`).
The vault list that comes before it counts as a single call. `run_streaming` (sign-in)
takes neither permit nor guard.

**Surface.** Effects carry `view.visible` to `surface.visible` and may be refused for
100 ms after a hide. Messages on their way to the app are handled in any order, one of
a kind at a time; events of a destroyed surface may still arrive. A popup the compositor
closes by itself is not modelled.

**Preferences.** An action is its position in `Action::ALL`, a chord its normalized
form (matching without regard to the case of non-ASCII letters is left out). Every
change is applied at once and written by a job of its own, one file per value; the
watcher sends back what a file holds. The watcher is a library's (`app/mod.rs:514`); of it
is assumed that it looks at the file after a write and then sends all of it, also when it
is what was sent last. Without that a failed write, or an older one that came last, would
leave the program with what is not in the file, and `SettledIsStored` would not hold.
`refresh_stale_secs` and `max_results` are changed by no
handler and left out.

## 3. The runs

| Run | Configuration | What it shows |
|---|---|---|
| `session` | `Session.cfg`: two accounts, two user calls, one cache read | flags match calls (`RefreshingMatchesCalls`), no saved items of another (`CachedItemsAreTheirs`), signed in is served (`SignedInIsServed`), waiting ends (`WaitingEnds`) |
| `login` | `Login.cfg`: one sign-in, two lines, a pipe and a channel of one | no line is skipped, and which are left behind (`LinesAreTold`); the panel is no dead end (`PanelIsAlive`); every sign-in is answered (`SessionKept`) |
| `field_list` | `FieldList.cfg`: two items, five listings, two fetches of each kind | `ValueUnderItsLabel`, `WaitingHasItsFetch`, `CodeOfTheOpenItem`, `MaskedStaysMasked`, `CodeDoesNotBlink`; fetches of both kinds settle (`RevealSettles`) |
| `copy_flow` | `CopyFlow.cfg`: two items, two copies, three openings | `BusyHasItsFetch`, a notice stays its own time (`NoticeKeepsItsTime`), `BusyAndNoticesEnd` |
| `copy_flow_mark` | `CopyFlowMark.cfg` | violated: `SecretsAreMarked`, see section 6 |
| `view` | `View.cfg`: one item, one copy, two openings | however the window closes it is masked and copies nothing (`ClosedWindowIsMasked`) |
| `items` | `Items.cfg`: eight kinds, four custom names, two of them alike but for case, three titlings | `ReadableIsOffered`, `CopyReachesItsOwn`, `ShortcutsCopyTheirRow` |
| `launcher` | `Launcher.cfg`: three items, two listings, one usage record, prompt activations | `ResultsAreTheMatches`, `SelectionSurvivesListings`, `OpensFresh`, `ReducerKnowsSurface`, `PressCloses` |
| `cache_store` | `CacheStore.cfg`: three snapshots, a load, a sign-out, a crash | `PendingHasItsTask`, `ClearedIsNotWritten`, `ReadableStays` |
| `clipboard` | `Clipboard.cfg`: two copies, a timeout of two seconds | `SecretExpires`, `HelpersAreWatched`, `PlainValueStays`, `CopiesSettle` |
| `runner` | `Runner.cfg`: a listing of two vaults, a call, two permits | `PermitsAreConserved`, `ColdRunsAlone`, `WaitsForThoseBefore`, `CallsEnd` |
| `preferences` | `Preferences.cfg`: three actions, two changes | `SettledIsStored`; a change takes one row and no other (`KeymapIsKept`) |

The modules state a few more properties that no listed run checks. Proved, so that a
run would add nothing: the type invariants of `FieldList`, `CopyFlow`, `View`,
`CacheStore`, `Surface` and `Preferences`; `WaitingForAnAnswer`, `SignedInOwnsData` and
`LoadedHasSnapshot` of `Session`; `OpenListFetches` of `FieldList`; `ClosedWindowIsIdle`,
`OnlyCopyingWindowsClose`, `NothingCopiedAfterClosing` and `NoticeHasItsTimer` of `CopyFlow`; `OwnerServes`
of `Clipboard`; `MeasuresThisOpening` of `Surface`; `ListingFallsWhole` of `Runner`.
Following from those that are checked: `QueueDrains` of `CacheStore` (the pending task
wakes) and `PrefsSettle` of `Preferences`. TLC confirms each when it is added to its
module's configuration.

**Why these bounds.** Every hazard listed for a module needs at most two calls of a
kind: the stale one and the one it is taken for. `session` has two accounts, the old
and the new, and two user calls besides the refresh and the load, of which the code
lets at most one be in flight. `field_list` has five listings that differ from the
first in one way each: edited without visible change, secret replaced, fields and codes
reordered, item gone, another preferred row; a period and a clock of one second let one
code expire. Since the safety properties of every run are also proved for all bounds,
the runs matter for the liveness properties and for finding mistakes before proving.
`cache_store` takes three
snapshots, so one can be written, one be under way and one wait. `runner` has
`MAX_CONCURRENT` at two where the code has four: what matters is that calls outnumber
permits and that a call waits behind a listing. `clipboard` has two copies, because a
third meets only what the second left; the timeout of two seconds is shorter than
`READY_TIMEOUT`, so the two can race. `preferences` starts from the file this version
writes, from one with a duplicate, and from one that gives a default away; two changes,
in the editor or to the file, are what reordering needs.
`items` gives three entries to the kinds where only custom fields, or only members, can
meet, and two to the others, where what differs is the layout; two is what a clash
takes and the third tells the last namesake from the first. The names meet a member,
each other, each other but for case, the alias of a login's code, and a qualified name. `launcher` has three items of which a query finds two,
in another order than their titles; a limit that cuts them off and one that does not; a
listing that loses one and reorders the rest. One usage record is what eviction takes.
`login` has one sign-in, since `MaxCalls` lets no second be started beside it, and two
lines: with a pipe and a channel of one, two lines are enough to have each of process,
task and stream wait for the next.
`View` stops when its bounds are used up, so its run does not check for deadlock.

## 4. Fairness

- `Session`, `FieldList`, `CopyFlow`: answers arrive. Every effect runs in a task of its
  own with a timeout: 5 s for a probe, 20 s per listing call, 300 s for a sign-in, 10 s
  for a field. Which call is answered next is not said, and a user step never has to
  happen. `CopyFlow` also has its notice timers. A hand-off need not be confirmed.
  Reading the cache has no fairness: the keyring may ask its user.
- `Login`: the task runs, the stream is polled, the timeout comes, probes and listings
  are answered. Nothing is asked of `pass-cli`: it may hang, print or not, or leave its
  pipes open; nor does a read have to fail. The timeout may come at any moment of the
  reading and the wait, and comes if they last. `Session`'s fairness of sign-ins follows from this.
- `CacheStore`: a sleeping debounce task wakes; saves and loads need not get on.
- `Clipboard`: the app's tasks and the helper's watchdog run when due, and time passes.
  Nothing is asked of a helper otherwise, nor of other clients.
- `Runner`: a call that can go on does, and time passes; no process ever has to answer.
- `Preferences`: jobs, the watcher and the update loop run; nobody has to press a key.
- `Surface`, `Launcher`, `View`, `Results` and `Items` have none; they have no
  liveness property.

All of it is weak fairness. `Clipboard` and `Runner` let no second pass while a step is
due: timers are taken to be late by less than a second.

## 5. The proofs

TLAPS proves, for every value of the constants (under the assumptions the modules
name), that `Spec` implies the following.

**`SessionProofs`**: `TypeOK`, `RefreshingMatchesCalls`, `WaitingForAnAnswer`,
`CachedItemsAreTheirs` with `SignedInOwnsData`, `SignedInIsServed`, `LoadedHasSnapshot`.
All rest on `SessionInv`, the conjunction of those with `SourceNamesTheTime`: at most
one of `fetched` and `cached` is set and `source` says which, which `LoadedHasSnapshot`
cannot do without. The proof goes handler by handler; what an error does is one lemma,
as it is one function in the code.

**`ViewProofs`** has the two halves of the window and then the window.

Of the field list: `TypeOK`, `ValueUnderItsLabel`, `WaitingHasItsFetch`,
`OpenListFetches`, `CodeOfTheOpenItem`, `MaskedStaysMasked`, `CodeDoesNotBlink`. The
argument: a generation is never given twice (`RevealNumbers`), so at most one fetch in
flight carries the target's; that fetch is for the field the target names (`RevealInv`);
and a target is dropped as soon as the listing no longer describes it. Cancelling
through the one stored token stops every live fetch because there is at most one.
`TotpInv` says the same of codes, which have no generation: what is not cancelled holds
the stored token and is for the open item, though not always for the row (section 6).

Of the copy flow: `BusyHasItsFetch`, `ClosedWindowIsIdle`, `OnlyCopyingWindowsClose`,
`NothingCopiedAfterClosing`, and the action property `NoticeKeepsItsTime`. What has to be
added is `PendingNamesItsItem`: the fetch that `pending` waits for is for the pending item,
so an answer dropped for naming another item is never the awaited one. For the notices it
is `NoticeHasItsTimer`, and that the timer of a notice takes only that one away.

Of the window: `ClosedWindowIsMasked`. A case for each handler
shows which step of either half it is, with the same item and the same row's secrecy
(`ViewStepOfTheList`, `ViewStepOfTheCopy`), so both invariants above hold of the window
too, and `ViewInv` adds to them that a closed window has no list open, which every way to close it leaves behind
(`ClosedStaysMasked`) and nothing that arrives later undoes.

**`CacheStoreProofs`**: `TypeOK`, `PendingHasItsTask`, `ClearedIsNotWritten`,
`ReadableStays`. `QueueInv` orders snapshots: what waits is newer than what any save
holds. `KeyInv` says keys are never made twice, so a file once judged unreadable stays
so until it is written again.

**`LauncherProofs`** has the popup, the popup with its list, and the items in it.

Of `Surface`: `ReducerKnowsSurface`, `MeasuresThisOpening`, and, assuming `Prompt`,
`PressCloses`. `Closing` is the case analysis behind the last: while the popup that is
owed closed is up, the message that closes it is on its way; once it is down, an
activation still on its way will find it hidden just now.

Of `Launcher`: `ResultsAreTheMatches`, `SelectionSurvivesListings`, `OpensFresh`; what is
proved of `Surface` is carried over by a lemma (`LauncherIsSurface`). The invariant has three parts. `Listing`: the
rows are what `Search` gives for the items, the query, the usage and the limit at hand,
so every handler that changes one of them also computes the rows again. `Remembered`:
of the usage records the one of the item copied last is the latest, and eviction keeps
it (`EvictKeeps`). `ClosedAfresh`: a closed window has an empty query and no copy under
way. What `Search` computes is characterised once (`SearchRanks`, `SearchFindsMatches`):
the order of `score_entry` is total and transitive (`OrderIsWhole`), so ranking a finite
set by it numbers its members from 1 without a gap, and the cut to the limit drops only
what comes after everything kept. The score of a query is a sum over its atoms, which
`Approximation` and `ScoreIsInt` show to exist for every finite query.

Of `Items`: `ReadableIsOffered`, `CopyReachesItsOwn`, `ShortcutsCopyTheirRow`, for every
set of names, titles and members and every folding of case. `CopyReachesItsOwn` is about
fields whose name no other bears in any case, and codes told from others by bytes,
which is how `pick_totp` compares. The invariant is that what is held is the summary of
the item as it is (`ItemsInvariant`). The layouts of all kinds are taken apart once
(`SlotGroups`, `LayoutIsLaid`): what a slot holds can be told from its place, only a
login has websites, and its custom fields come after them (`WebsitesComeFirst`). So the
order of the entries is strict, and `InOrder` is the ranking of `Launcher` again. An entry
alone in its name is the last of it (`AloneKeepsItsName`), where a website is the case that
takes work: its row's name is made up, and is no member's, which `ItemsAssumption` says.
`AllActionsAre` gives the list of copies by position, from which it follows that no row
is lost or doubled when the primary is moved to the front.

**`ClipboardProofs`**: `SecretExpires`, `OwnerServes`, `HelpersAreWatched`, and the action
property `PlainValueStays`. That one says by what alone a plain value goes: a newer copy,
the end of the app, a copy given up before its ready line, or a helper that fails, which
no timer has made it do: a plain copy has none (`PlainUnlimited`). `ClipInv` adds three
more facts: a number not yet asked for has
neither job nor helper (`Untouched`), so a new copy starts clean; no watchdog runs past
its limit (`WatchdogInTime`), whether or not an app is left; and while the app runs, a
helper that lives has a job that knows it (`LivesWatched`), which is what the steps
between spawning and watching, and a quit among them, could break.

**`RunnerProofs`**: `PermitsAreConserved`, `ColdRunsAlone`, that the calls' processes are
never more than `MAX_CONCURRENT` (`CallsWithinLimit`), `WaitsForThoseBefore` and
`ListingFallsWhole`, for any set of calls. Permits are counted as the cardinality of
those that hold one. `GuardIsUsed` is what `ColdRunsAlone` needs: the guard is nobody's
or that of a call whose process runs. `WaitsForThoseBefore` says how long a call may be
kept waiting. Its invariant, `LineInv`, weighs what is left to do before a call is over:
`Work` has one element for every second that those in front of it, and it itself, may
still run. Waited and left to do come to no more than `Patience` (`InTime`); every
second takes one off, since while a call waits one in front of it runs (`SomeoneRuns`,
`SecondInLine`), and who asks later gets in front of nobody (`AskInLine`).

**`PreferencesProofs`**: `TypeOK`, `SettledIsStored` and `KeymapIsKept`. `PrefsInv` has
three parts beside the types: the map in use gives every action its default or a chord
no earlier one has (`Fits`), which is to say it is its own validation (`FittingIsKept`);
when nothing is under way and no write failed, what is in use is the validated file; and
while the watcher has no event to read, the last load on its way is of the file as it is
(`Settling`). `validated` goes through the actions in order, each against those already
given a chord: `OneSolution` shows this recursion to have one solution, and
`ChordsInOrderIs` that the model's function is it.

**`LoginProofs`**: `PanelIsAlive` and `LinesAreTold`. `LoginInv` counts: the sign-ins that
are not over are as many as `inFlight` says, which is what the link and `LoggingIn` rest
on. `LinesInv` follows the lines: what was told of a pipe is 1, 2, 3 and on, what the pipe
holds are the last that were printed, and those between are in the channel or being sent,
in order (`InOrder`); of a pipe that could not be read to its end only what was taken
before is spoken of. `Settled` says that a phase past the reading has nothing left to
read. It needs a channel with room for a line, which `LoginAssumption` names.

**Checked by TLC alone**: liveness, which TLAPS does not reach (nor `ENABLED`), and
`SessionKept`, which is fairness in the main. Induction over data is done where it is
needed (the sum over a query, the recursion of `validated`, the ranks of a finite set)
in first-order form, on the set of the numbers that fail (`LeastNumber`, `SetInduction`),
because the library's induction theorems take an operator as parameter, which the
provers cannot instantiate.

## 6. What the code does not keep

One run shows a statement of the repository that the code violates; `PROJECT.json`
quotes it. `copy_flow_mark`, `SecretsAreMarked`: a password is copied, then, before its
answer, the user name of the same item. The password's answer, resolved before it was
cancelled, names the same item and is handed over with the user name's mark: not
secret, so neither hinted as sensitive nor cleared.

The modules state more of these in a section at their end. Each is violated; to see how,
put its name in the place of the properties of the module's configuration.

| Property | Source | How |
|---|---|---|
| `ListedItemsAreTheirs` (`Session`) | `core/state.rs:796` | a refresh is asked for by one account, the user switches in a terminal, a probe notices and clears the data; the old listing then arrives and is shown and saved as the new account's, until the next refresh |
| `LoadedItemsHaveAnOwner` (`Session`) | `core/state.rs:478` | a listing lands after a sign-out and is loaded without an owner; the next sign-in of another is then not seen as a switch |
| `OnlyLoginEndsLogin` (`Session`) | `core/state.rs:557` | a probe asked for earlier answers during a sign-in and ends `LoggingIn`, where `data-model.md:113` has only the login's own end |
| `ForeignCacheIsDeleted` (`Session`) | `core/state.rs:777` | the file is read after the first listing and dropped before its account is compared, where `cache-format.md:42` has it deleted |
| `CodeFetchIsMarked` (`FieldList`) | `core/state.rs:667` | reveal, mask, reveal a code: the first fetch's answer lowers the flag of the second |
| `CodeIsCurrent` (`FieldList`) | `core/totp.rs:19` | a code made in one period lands in the next and is counted down as if it were the new one |
| `CodeIsOfTheRowAskedFor` (`FieldList`) | `core/state.rs:675` | a refresh reorders the codes of an item while one is fetched |
| `EscapedIsNotCopied` (`CopyFlow`) | `core/state.rs:1046` | the cause of `SecretsAreMarked`, with Escape between the two copies |
| `FreshWindowUndisturbed` (`CopyFlow`) | `core/state.rs:1083` | the confirmation for a closed window finds the next one's own hand-off under way and closes it |
| `CopyingWaitsForHelper` (`CopyFlow`) | `core/state.rs:715` | the helper fails and `copying` stays up |
| `EveryLineArrives` (`Login`) | `pass/runner.rs:208`, `216`, `225` | a line that is not UTF-8, or a read that fails, is taken for the end of its pipe, and what follows is not read; the 300 s drop what is still under way |
| `CaseTellsApart` (`Items`) | `pass/parse.rs:501` | `PIN` and `pin` both keep a row, and `pass-cli` answers both copies with the same one; the comment there says so |
| `DeletedStaysDeleted` (`CacheStore`) | `cache/store.rs:177` | a save that has left the queue is not stopped by a sign-out, and renames its file into place after the deletion |
| `WebsiteRowsCopyTheirOwn` (`Items`) | `core/state.rs:1014` | every copy is fetched by name, that of a website as `url`, `url2`, ..., names the app makes up (`pass/parse.rs:546`) and `pass-cli` does not have (`contracts/pass-cli.md:97`); `data-model.md:56` has each row copy the URL stored with it |
| `OnlyUnreadableRemoved` (`CacheStore`) | `cache/store.rs:193` | a load judges one file and removes the readable one a save has put there since |
| `NewestCopyStays` (`Clipboard`) | `clipboard/mod.rs:126` | a copy made while the first waits for its helper finds no job to kill; the first then takes the selection last |
| `LimitHolds` (`Runner`) | `pass/runner.rs:171` | a sign-in runs beside a full set of calls |
| `AnsweredInTime` (`Runner`) | `pass/runner.rs:116` | a call waits for its permit before its timeout starts |
| `PressCloses` with `Prompt = FALSE` (`Surface`) | `app/surface.rs:53` | the activation takes longer than the debounce and opens the popup whose focus it took |
| `ShowShows` (`Surface`) | `app/mod.rs:253` | `cosmic-pass show` within 100 ms of a hide is refused |
| `ChordsDiffer` (`Preferences`) | `config.rs:264` | a file without an entry for an action gives that action's default to an earlier one; both then have it |
| `RowsAreReached` (`Preferences`) | `app/keys.rs:61` | a row bound to `+`, `-` or Ctrl+Shift+Delete is not reached by its chord (`keyboard.md:73`) |

Some more was met in reading and is left out of the properties, each of which says so:

- `dedupe_selectors` runs when the fields that cannot be read have been dropped, so an
  extra field of text named `password` does not drop the row of the built-in, though
  `pass-cli` resolves the name to the extra field (`pass/parse.rs:482` has the survivor be
  the one `pass-cli` resolves). Of namesakes in one section the app keeps the last and
  `pass-cli` answers the first (`pass/parse.rs:492` has that case not reach here).
  `CopyReachesItsOwn` speaks of entries no other can be taken for.
- A custom code of a login that is named `totp` has the name under which `pass-cli` may
  answer the login's own (`pick_totp` looks for both), so copying the row of the one may
  bring the other; such codes are not told apart by `AloneAmongCodes`.
- `apply_prefs` (`core/state.rs:740`) computes the rows again and keeps the position of
  the selection, not its item; a use recorded since may have moved it.
  `SelectionSurvivesListings` is about listings.
- A press on a row selects by the row's number (`app/mod.rs:234`): a listing between the
  drawing and the press puts another item there.
- A browser that holds `pass-cli`'s pipes makes a successful sign-in end as a timeout
  after 300 s; Try again then finds the session.
- The late failure of an old sign-in ends a newer session (`core/state.rs:586`).

Of the preferences it is also to be said that nothing orders the jobs that write two
changes (`runtime.rs:158`): the older may write last, and the watcher brings it back.
`SettledIsStored` is what is left: whichever it is, file and program agree on it.

## 7. What is not modelled, and the plan

Not modelled: the widgets (`app/view`, but for the status panel and the rows of the
field list), pure functions of the model; the JSON of `pass-cli` and the classification
of its errors (`pass/error.rs`), a pure table whose every outcome the reducer modules
admit; the fuzzy matcher, which is a library's; encryption, which is the key a file was
sealed with; the table of `map_key`; the version check, the command line, logging and
start-up. `testing.rs` is the tests' own.

The order was: the session, because everything else is cleared by it; the field list and
the copy flow, which handle secrets; the window that joins them; then the tasks that run
beside the reducer, store, clipboard and runner; then surface and preferences; then the
items and their rows, the results and the popup they stand in, and the sign-in. What
could come next:

1. An abstract `Clipboard` (one value, present until a deadline) and an abstract cache
   (a file that is some snapshot or none), with `Clipboard` and `CacheStore` shown to
   implement them.
2. An item that is edited between its listing and a copy: `Items` with `FieldList`.
