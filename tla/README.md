# VCW in TLA+

A verification project for VCW, the Vinyl Capture Workstation. VCW records a
side of vinyl from an audio device into a project file (SQLite), survives being
killed while it does, plays a side back from the blocks it stored, finds the
tracks in it and fetches their names. This directory has TLA+ modules for the
parts of it in which several threads, a crash or a failed transaction meet, TLC
configurations that check them, and TLAPS proofs.

Quotations are from the code's own comments. Paths below are relative to
`crates/`.

## 1. The system

| part | state it keeps | operations | talks to |
|---|---|---|---|
| capture ring and callback (`audio/src/buffers.rs`, `capture.rs`) | an SPSC byte ring, four atomic counters, the taps of the Tee | `Sink::on_data`, `RingWriter::push`, `RingReader::read`, `Tee::read`, `Capture::start_on`, `stop` | the driver's thread calls `on_data`; the writer thread reads |
| capture writer (`project/src/persistence.rs`) | pending bytes, a batch of blocks, sequence and frame counters; the atomics `stop`, `pause`, the mutex `result` shared with the `Handle` | the loop in `spawn_on`; `Handle::set_result`, `note`, `pause`, `resume`, `stop` | reads the ring, commits to the project |
| session row (`project/src/session.rs`) | one row of `captures` and its diagnostics | `begin`, `advance`, `record`, `finish`, `record_verification`, `unfinished` | written by the writer and by its owner |
| engine and transport (`core/src/engine.rs`, `state.rs`, `commands.rs`) | the phase, the `Recorder` deck | the commands; `open`, `halt`, `finish`, `abandon`, the command loop | owns device and `Handle`; publishes on the bus |
| meters and detectors (`core/src/metering.rs`, `detection.rs`), bus (`events.rs`) | tap rings, a running flag each, the subscribers | the workers' loops, `publish` | fed by the writer's reads, joined by the engine |
| `vcw capture` (`cli/src/capture.rs`) | none of its own | `run` | the other owner of a device and a `Handle` |
| recovery (`project/src/recovery.rs`, `cli/src/recover.rs`) | none; reads and writes the project | `survey`, `assess_record`, `walk`, `recover` | runs after a kill, in another process |
| validation (`project/src/validate.rs`) | none | `check_*` | reads the project |
| chunk queue (`audio/src/chunks.rs`) | a fixed pool of buffers in two SPSC rings and a spare stack | `take`, `send`, `give_back`, `hold_back`, `release_reserve`; `next_chunk`, `recycle` | between feeder and callback |
| playback (`audio/src/playback.rs`, `core/src/playback.rs`) | the `Cursor`'s six atomics, the chunk in hand, the feeder's position | `Player::play` ... `stop`, `feeding`, `step`, `Source::on_data`, `render` | three threads over the cursor and the queue |
| edit model (`project/src/track.rs`, `side.rs`, `disc.rs`, `release.rs`; `cli/src/tracks.rs`) | the rows of `tracks`, `track_boundaries`, `sides`; the release | add, split, merge, remove, move, lock, reassign, renumber, attach | the verbs of `vcw tracks`, adoption |
| adoption (`core/src/adopt.rs`, `signal/src/resolve.rs`) | none; reads and writes boundaries and tracks | `observations`, `resolve`, `adopt_decisions`, `pair` | the detectors, the edit model |
| metadata client (`metadata/src/client.rs`, `policy.rs`, `cache.rs`, `agent.rs`) | the limiter's next free instant, the cache files, each call's attempt | `Client::body`, `uncached`, `send`, `nap`; `Limiter::reserve`, `release`; `Retry::after`; `Disk::load`, `store`, `purge` | the providers, other processes through the directory |
| metadata providers (`discogs.rs`, `musicbrainz.rs`, `positions.rs`, `genres.rs`, `artwork.rs`, `query.rs`, `provider.rs`) | none | `search`, `fetch`, reading of an answer, `search_all` | the client |
| block reader (`project/src/pcm.rs`) | a cursor and one loaded block | `open`, `seek`, `fill` | the feeder, analysis |
| signal analysis (`signal/`) | the trace of windows, the live pass's state | features, `scan`, regions, `viterbi`, resolve | the detectors, adoption |
| waveforms (`types/src/summary.rs`, `project/src/waveform.rs`, `signal/src/waveform.rs`) | the pyramids stored with the blocks | `read`, `draw` | the user interface |
| devices and formats (`audio/src/devices.rs`, `probe.rs`, `selection.rs`, `verify.rs`, `convert.rs`) | none | `find`, `suggest`, `choose`, `verify`, `Converter` | the operating system |
| project file (`project/src/sqlite.rs`, `schema.rs`, `migrate.rs`, `meta.rs`) | the database: `application_id`, `user_version`, the tables, the keys of `meta` | `create`, `open`, `open_read_only`, `identify`, `apply`, `close` | opened by everything above, from several processes |
| export, fingerprint, identify | stubs | | |

What is hard in it:

* **Interleaving.** The audio callbacks take no lock. Capture relies on two
  flags, a mutex and a ring; playback on six atomics, four of which a seek
  writes one after the other while two other threads read and write them.
* **Failure.** Any transaction may fail, also the one that would record that the
  one before failed.
* **Crash.** A kill falls between any two transactions; the other process that
  repairs the project works from an assessment that may be old. An edit of the
  track list is several transactions, and a kill leaves the first of them.
* **Bounds.** The ring refuses whole callbacks, the pool of chunks is fixed, a
  batch bounds what a kill may take.
* **Waiting.** The owner joins the writer, the engine joins its workers before the
  writer, `stop` joins the feeder, a request waits for its slot in slices, and the
  writer waits without limit for an owner that has not spoken.
* **Algorithms.** What a detector, a reader, a chart or a provider's tracklist comes
  to is a pure function with many small cases.

The full list, each at its line, with the properties that cover it, is
`hazards` in `PROJECT.json`.

## 2. Modules

```
CaptureWriter --- CaptureAnyOwner
      |---------- CaptureCli (which extends ProjectFile as well)
      '---------- CaptureEngine --- CaptureRecovery --> Archive (refinement)
                        |               |
                        |               '--- RecoveryWalk --- RecoveryDamaged
                        '---------- EngineEvents
ChunkQueue --- Playback --- PlaybackRender
Topology --.
Resolver --'-- TrackEdits --- MCTracks
                    '-------- Reanalysis
RateLimiter --- MetadataClient --- MCMetadata
Vinyl --- ReleaseReading --- MCAlgorithms, which also instantiates GenreTable,
          ProviderSearch, CoverArt, TrackDetector, MusicPath, BlockReader,
          WaveformDrawing and AudioPath

CaptureProofs (CaptureAnyOwner) --- CliProofs     (CaptureCli, ProjectFile)
      '---------------------------- EngineProofs  (EngineEvents, CaptureRecovery, Archive)
DamagedProofs (RecoveryDamaged), TrackProofs (TrackEdits), PlaybackProofs (PlaybackRender),
MetadataProofs (MetadataClient), AlgorithmProofs (MCAlgorithms)
```

(A line joins a module to those that extend it; behind a module of proofs is what it
is about.) Where a module has a variation that
a property must be able to refute, it stands before the definition it varies as a
definition marked `Mutant:`; nothing else uses it. A property of several parts has
several of them.

**CaptureWriter** has the device callback and the writer thread; what the owner
does with the Handle is left to the modules that extend it. Frames are numbers in
the order the converter produced them, so a block carries its audio and a lost,
repeated or reordered frame is visible. `wpc` is where the thread is in the loop
of `spawn_on`; an action is the code between two accesses to something shared
(the ring, a flag, the mutex, a transaction). `FlushBy` is `Writer::flush` with
where the loop goes next; it is the flush of a pause, of a vanished producer and
of `finish`, and failing in `finish` is what ends in `dead`. The timer
(`PersistDiagnostics`) may fire on any turn. A transaction happens or fails as a
whole.

| variable | code |
|---|---|
| `ring`, `produced`, `sink`, `lost` | the ring, what the converter made, `Sink`, the counters as one number |
| `stop`, `pause`, `result`, `holding` | the Handle's atomics and mutex, `Progress::paused` |
| `pending`, `batch`, `sequence`, `startFrame`, `frames`, `noted` | the fields of `Writer` (`noted` is `diagnostics`) |
| `paused`, `wasPaused`, `wpc` | the locals of the loop |
| `blocks`, `row` | the rows of `capture_blocks` (one for all channels), the row of `captures` |

**CaptureAnyOwner** adds an owner that uses the Handle in any order and may lose the
device at any moment. What holds there holds for every program built on the Handle.
**CaptureEngine** adds the engine: phases, commands and the steps of `halt`, `finish`
and `abandon` in `call`.

**ProjectFile** is a project coming to be and being opened, by any number of processes
at once: `place` is where each is between two statements, `todo` what `pending` told it,
`due` the keys it has still to set. `file` keeps what is decided from: whether it is
there, its mark, its journal mode, its version, the tables and audit rows of each
migration, the keys set. A process built before the last migration is in `Older`. `Break`
is a statement that fails or a kill, which leave the same file; `TakeAway` is an operator
who moves the file while nobody is connected. A verb looks whether there is a project
(`Open`) and connects in a later step; the reopen at the end of a capture does not look
(`OpenAgain`). `Connect` makes a file that is not there, and `ApplyPragmas` writes the
journal mode into whatever was connected to, before `Identify` asks what it is. What SQLite
does of this is external: connecting for writing creates the file, the header of a new one
is written with the first pragma that is kept in it, and of a file without its header any
pragma fails. **CaptureCli** composes it with
CaptureWriter into `vcw capture --project`: the device delivers while the project is
opened, nobody reads the ring before the session row is there, and at the end the
project is opened once more to note the verification. A refusal ends the verb and drops
the device.

**EngineEvents** puts the command loop around the engine, the meter's and the
detector's worker on the taps of the Tee, and the bus they publish on. `publish` holds
one lock over all subscribers, so what a subscriber believes is a function of the order
of events: `heard` is that function and takes the place of the queues. `stray` is the
second `Recorder` that an Arm opens before it asks whether it may. Audio of the meter
is only news or none; the detector's tap holds frames, because where a boundary is told
depends on what was dropped.

**Archive** is the promise of the project in three variables: the audio, its
declared length and its status. Audio is only ever added, later than what is
there; the declared length is right at every instant; a recording is closed once
and never touched again. **CaptureRecovery** composes CaptureEngine with a kill
at any instant and with `vcw recover`, and implements Archive under
`stored <- all frames in the blocks, declared <- row.frames, status <- row.state`.

**RecoveryWalk** has `walk` and `assess_record` as operators on the rows of a
capture; CaptureRecovery uses them on what a kill leaves, **RecoveryDamaged** on
captures something else has edited (the damage the tests of `validate` do with
SQL), and judges the result with `check_timeline` and `check_coverage`.
`Reach` there is what the walk should compute, stated without a walk.

**ChunkQueue** is the pool and its two rings. **Playback** has the three threads;
an action is one atomic access with the thread-local work around it. Samples are
not modelled, only which frames they are; `aimed` (the frame each epoch's seek
asked for) and `heard` (the last piece the device got) are history.
**PlaybackRender** drives the same feeder and callback in turns from one thread,
which is what `render` does.

**Topology** has the queries and computations over the rows of a project: listings,
numbering, what bounds what, and the part of `check_topology` that compares tracks.
**Resolver** has `resolve` (chained clusters, user boundaries as anchors, the safe
direction) and the policy of adoption. **TrackEdits** is the edit model on them. Nothing
in `track.rs` is one transaction: a verb reads and checks, then its statements are
committed one by one. `todo` holds the statements still to come, `Statement` does one,
`CutShort` drops the rest, which is a kill or a statement that fails; a statement that
would break a UNIQUE constraint is not enabled, so only `CutShort` is left to it. The
rows a behaviour starts with are `Starts`, what earlier verbs left; `StartsAssumption`
says that they keep to the schema (`RowsOK`), and `PassesAssumption` that a detector
reports frames of the side. `before` and `unsettled` are history. **Reanalysis** is an
operator who only presses the analyse button.

| variable | code |
|---|---|
| `boundaries`, `tracks` | the rows of `track_boundaries` and `tracks`, by id |
| `capture` | `sides.capture_id`, or none |
| `todo`, `verb` | where the verb under way is between two statements |
| `before` | which audio was in tracks, and whether they were disjoint, when it began |
| `unsettled` | sides on which a move or a verb cut short may have left the numbers wrong |

**RateLimiter** is the limiter's arithmetic and **MetadataClient** the calls over it.
A call is one thread; its `pc` names every place where another thread, the clock or a
cancellation can come between: after the clock is read and before the slot is
reserved, between two slices of a nap, between the bytes of a cache entry and the age
of its file, between any two system calls of a store. A disk entry is its key line and
two halves, so that two writers that share a `.part` can be seen to mix. Any file may be
there already, since the directory outlives the process. What a provider answers is one
of four classes, with or without a Retry-After.

| variable | code |
|---|---|
| `nextFree`, `slot`, `spent` | `Limiter::next_free`; the reservation a caller holds; history of the requests |
| `call` | the locals of `body`, `send` and `nap`, by field |
| `cancelled` | the `Cancel` flag, and whether it rose while the call waited |
| `entry`, `part`, `writing` | the entries by path or key, the `.part` files, what each writer's handle points at |
| `setup` | the transport, the cache, and which calls go through `uncached()` |

The algorithm modules have no variables; **MCAlgorithms** evaluates them. A state
there is one input of one subject, before and after. **Vinyl**, **ReleaseReading**,
**GenreTable**, **ProviderSearch** and **CoverArt** are what the providers do with a
query and an answer: which criteria reach which provider and what its failures come to,
how a tracklist becomes media and positions, the genre table, the size a cover says it
has. **TrackDetector** is the windowing and everything after the classification of a
window: runs, gaps filled, short tracks dropped, padding, the live pass that announces a
boundary, and the pass of `refine()` over the whole side, which alone flushes a short last
window. **MusicPath** is Viterbi over integers. **BlockReader** is
`pcm::Reader`. **WaveformDrawing** is the pyramid, the choice of a resolution, and the
folding of what is read into columns. **AudioPath** follows a stream: finding the device,
choosing a configuration, comparing what the system reports with what was asked,
the verdict, and the conversion that playback applies.

Abstractions, and why they are sound for what is checked:

* Frames are whole: a callback is whole frames, so a ring of bytes that refuses
  callbacks whole never holds a part of one.
* The four counters are one number; the code only asks whether all are zero.
* Checkpoints and the write-ahead log have no effect a transaction shows.
* Floating point does not appear: scores, levels and lengths are small integers, and a
  float is what is done to it (stored whole, clipped, rounded to fewer bits). What
  depends on rounding is not claimed.
* One capture per behaviour: the reset to a second one starts from scratch.
* `frames` also stands for `Progress::frames`, stored in the same call.
* `row.state` is written from `result` when the row is closed; `Handle::stop`
  consumes the Handle, so nothing changes it after the writer took it.
* `CallbackCopy` merges the stores of `frame` and `delivered` and the return of a
  used chunk: no other thread acts on the order of these three.
* The branch of `take_chunk` for an empty chunk and the failure of `send` cannot
  be taken: the feeder never sends an empty chunk, and `PoolConserved` shows the
  ring always has a slot.
* Ids of rows are reused in the model, never in the database (AUTOINCREMENT); nothing
  keeps the id of a deleted row.
* The confidence of an observation only decides which provenance is recorded: a pass
  has one detector that is most sure. Evidence is not modelled, and of the sources
  of a decision only their number is used, as in the code (a row read back counts
  as its own provenance alone, which is what `as_observation` returns).
* A pass reports one of a few sets of boundaries (`Passes`); what a detector makes of
  the audio is not modelled.
* Sides exist from the start; `ensure` has no effect on a side that is there.
* The cues of a render come in any order at any frame; `after_frames` picks one of
  these orders. Its ceiling on the frames rendered is not modelled.

## 3. What is checked

Passing runs (every property has a mutant of the code that breaks it, in
`PROJECT.json`):

| run | shows |
|---|---|
| MCCapture | TimelineInv, ClosedHoldsAll, PauseRisksNothing, LossWithinGranularity: timeline, completeness, pauses and the bound on uncommitted audio, under any owner; StopEnds: a writer told to stop ends |
| MCEngine | OnlyAnEmptyRowGoes, StoppedAgreesWithRow: what is removed and what is reported; StreamTellsTheTransport, StreamEndsOnce: what a subscriber can believe, and that a side finishes once with nothing of its workers after; ShutdownCloses |
| MCCli | FramesAccounted: every frame is held or counted and gaps are whole callbacks; RowIsHonest: a finalised row is clean; ProjectIsSound: whoever opens, creates or migrates the file beside the verb, and wherever one is cut short, it has the tables of exactly its version, its writer has all its build expects, and a file that is not a project gets no table, version or stamp (its journal mode it does get) |
| MCRecovery | ImplementsArchive: capture with recovery is an append-only recording, a kill at any instant included; KilledIsSettled: recovery settles every kill |
| MCDamaged | WalkMeasures, RecoveredValidates, AgreedAudioKept: the walk measures what every channel holds, recovery's result validates, repair keeps the agreed audio |
| MCPlayback | PoolConserved, HoleIsNeverHeard, EpochContiguous: no buffer is lost, a frame the project does not hold is never heard, what is heard is contiguous inside an epoch and epochs only advance; SeekJoins: while the transport plays and the feeder lives, a seek no other overtakes is joined or found without audio by a callback of its own epoch (the late end that stops the transport is excused, see below); StopCloses: a stop closes the player |
| MCRender | StarvesOncePerSeek: one period per seek and none at the start; RenderEnds: exact joins, and the render plays out and returns |
| MCTracks | EditKeepsTracks: split, merge and removal keep the audio of the tracks, leave no overlap even when cut short, never stop half way on a constraint, numbering is restored, and `check_topology` finds every overlap; AdoptionKeepsOut: adoption starts nothing inside a track; LockedStays |
| MCMetadata | SlotsApart, InterruptedSendsNothing, RetriesAreConservative: the limiter, cancellation and retries; HitIsOwnKey: a hit is the caller's own answer |
| MCAlgorithms | ReleaseIsRead (TracklistIsKept and GenresAreSettled), RequestsAreConstrained, CoverSizeIsItsFrames, TracksAreSettled, ViterbiIsBest, SpanIsExact, ClickIsDrawn, ClaimsAreEarned: each algorithm against a definition that does not use it, over every bounded input |

**Bounds.** `MaxCallbacks` 2 to 4 with blocks of one to three frames and a ring of
two to five: enough for a full block, a short one, an overrun with audio on both
sides of it, and a pause in each. `MaxFailures` 2: a failure and the failure of its
repair; MCEngine, whose other processes already multiply the states, has one. MCCli has
callbacks of two frames, blocks of three and a ring of five, so that none divides
another, and a ring that overflows while the project is opened; the other process there
is of an older build, both may find no file, a foreign one (not SQLite's, or a database
with either journal), or a project of any version up to one too new, and one attempt may
be broken off or the file be taken away once (`MaxBroken`): enough for each to meet the
other between any two of its statements. MCRecovery has callbacks of two frames so that
two of them fill one block and leave a short one. `MaxDetected` 1 and `TapFrames` 2: one boundary that is told, and a
tap that overflows. `MaxSeeks` 1 in MCPlayback: the races are between one seek and what
was under way; the render has three. `Depth` 3 is the smallest pool with a reserve. The
hole of MCPlayback lies behind two whole chunks and before the last frame: playing on
meets it and a seek past it plays to the end. MCDamaged has every way of cutting up to
three blocks a channel and two rows damaged on two channels. MCTracks has two sides, two
takes, five positions, six boundary rows and three tracks; two verbs, each cut short
after any of its statements or not, from an empty side, from two tracks that meet with
an end the operator placed, and from a merged track with a locked boundary inside it.
That is enough for any two verbs to meet, and for an adoption before or after each.
MCMetadata has two calls for one URL, one of which may be for a cover, a second key with
the same CRC that may be in the directory already, three attempts, a clock of five
instants with an interval and a time to live of two, and a Retry-After that is obeyed
and one that is too long. Two calls are enough for a slot to be handed back while a
later one is out and for two writers to share a `.part`.

MCAlgorithms enumerates: tracklists of up to three rows of every kind, with sides on the
same disc and on another; every lettering of fourteen discs; tables of two rows over two
words and two spellings; every search the command line can ask, with every outcome of
both providers; JPEG files of up to three segments; sides of four to seven windows at
three levels, the last window a frame short or not, in pieces that do and do not divide a window,
under three configurations; paths of four windows; captures of three blocks on two
channels with one row lost, moved, cut or short of samples, every span and seeks to
inside, the end and past it; one loud frame anywhere in two lengths of side at every
zoom; devices that share an id, a name or a part of one, and formats that lose and that
do not.

**Deadlock** is checked in MCCapture, MCCli, MCRecovery, MCDamaged, MCPlayback, MCRender
and MCTracks; the ends that are meant are stuttering actions (`Over`, `Rest`, `Closed`,
`RenderOver`). It is not checked where the system really stops: an engine that was shut
down, calls that have all returned with the clock at its bound, an input evaluated.

**Fairness.** The writer's loop, the workers and the feeder are threads that are
scheduled (WF); a callback that started finishes and a device that is open keeps calling
(WF); the timer fires again and again but only at one place of the loop (SF); a
command runs to its end (WF). No operator has to press anything, no transaction
has to succeed, no device has to deliver. MCMetadata, MCTracks and MCAlgorithms claim
safety only and assume none.

### Where the code does not do what it says

Two are runs that TLC finds violated; `findings` in `PROJECT.json` quotes the text.

| run | property | what happens |
|---|---|---|
| MCTwice | TwiceChangesNothing | the policy turns down the end of one track and the start of a later one: the first pass leaves the start and the end around the track between them free, the second pairs them, and the new track lies over the old one |
| MCDetected | DetectedIsWhereItWas | the detector counts frames from arming, paused or not; the boundary it tells is not at that frame of the capture |

The models show these as well, and no run of this project claims them either way:

*Capture.* `ending()` looks at the counters, the meters are joined, and `halt` reads
them again (`core/src/engine.rs:745`): a capture may be finalised although its row counts
an overrun, which the comment at line 743 excludes. A callback may land between the read
that found nothing and the test of `stop` (`project/src/persistence.rs:1079`): the writer
then stops with audio in the ring, where line 949 and `types/src/capture.rs:257` have it
drained. Counters reach the row only at the stop, because nothing calls `Handle::note`
and the timer persists the zeroes of the start; a writer that failed leaves the transport
recording until it is stopped; a second failure leaves the row in state recording, for
recovery to settle; recovery run beside a live capture closes a row that then disagrees
with its blocks. An Arm while armed opens a second recorder before it is refused, and
events of workers may follow `closed`. A stop that failed leaves the engine idle, where
`Refused` says the transport did not move.

*Project file.* `create` is a dozen transactions. Killed between connecting and setting
`application_id` it leaves a file that exists, so `create` refuses it, and that is not a
project, so `open` does (`project/src/sqlite.rs:86-90`). Killed before its last key, or
overtaken by a process that opens the project half made, it leaves one without its
creation keys: `open` never sets them and does not look, although `schema.rs:245` has
them "checked on open", and `validate` reports them from then on. `open` sets
`journal_mode=WAL`, which is kept in the file, before `identify` has refused it
(`sqlite.rs:115-116`): a database of another program is refused and yet left in WAL.
`Connection::open` creates what is not there (114), and only the callers look first: a
project moved away before the reopen at the end of a capture (`cli/src/capture.rs:208`,
`core/src/engine.rs:403`) leaves an empty database in its place, which `open` refuses as
not a project and `create` as already there. `open` also stamps the
file before `vcw recover` has decided anything: `cli/src/recover.rs:45` says that "A dry
run writes nothing to the *database*", and the stamp in `meta` is the exception
(`project/src/recovery.rs:992` knows of it).

*Recovery.* RecoveredValidates makes one exception, `Straddling`: a `frame_count` made
shorter on one channel moves the agreed end into a block of another, which
`assess_record()` says cannot be.

*Playback.* A callback of the old epoch may store its playhead over the frame a seek has
just stored (`audio/src/playback.rs:474`, against line 359): the transport shows, and a
later seek resumes at, the old position. A callback that found the old epoch drained
stores `ended` after a seek cleared it (458-459); the next tick takes that for the end of
the new one and stops the transport, and the seek is lost. A refusal followed by a seek leaves the new epoch
without a drained mark. The reserve lapses as soon as the pool exceeds it, so a seek that
finds one buffer beside it may still cost a period.

*Editing.* A split cut short has shortened the track; a reassignment cut short leaves a
track whose boundaries are on another side, which `check_topology` does not see; a
boundary a person placed and unlocked keeps its provenance and is locked again by the
next pass (`project/src/track.rs:224`); a split of one of two overlapping tracks may meet
a UNIQUE constraint half way. Two processes that read and write the release row lose one
of the writes.

*Metadata.* The agent builds the response of an error status without its headers
(`metadata/src/agent.rs:105`), so the Retry-After that `policy.rs:54` reads never arrives;
the model has that as `Arrived`. Two writers of one key share a `.part`, and the rename of
the first can publish half of the second's entry (`cache.rs:272`, against 264-265):
HitIsOwnKey therefore allows a body that was cut short, and only that. Two keys with
the same CRC-32, stored at the same time, share that file too: the one can publish its
key line over the other's body, and a later hit then serves it, where `cache.rs:55-60`
has it that "collisions cannot serve the wrong answer". The check of the key line does
make a collision harmless as long as the keys that collide are not stored at once, and
that is what HitsAreOwn proves. The bytes of an
entry are read before the age of its file, so an expired body may be served when another
call stores in between. The limiter is one per process. A query with nothing but a
release id sends the format filter alone. `search_all` is an error when one provider found
nothing and the other failed (`provider.rs:119-138`). `on_disc` overflows for a medium
position near the width of its type.

*Signals and drawing.* Where the least sound is not a whole number of windows, an
announced start can be retracted (`signal/src/silence.rs:88-92`, 179-184), and padding
wider than the shortest silence can move an announced end. The adaptive live pass accepts
a position `<= 0`; positions are told apart by frame alone. Between `column_of` and
`frame_of` a frame's weight can fall into the next column
(`signal/src/waveform.rs:386-396`, against 314-318). A float side spread over more
channels clips and no loss is named (`audio/src/convert.rs:98-107`, 150). `hw_params` are
those of substream 0, which may be another's stream (`audio/src/verify.rs:255-261`).

## 4. What is proved

Every theorem holds for every value of the constants its assumptions allow; each is of
the form `Spec => []Inv` or `Spec => [][A]_vars`, and what carries it is an inductive
invariant, because what a reader wants to know is seldom inductive. TLC evaluates every
assumption in the run of the module that has it. `PROJECT.json` names the theorems a
reader should know and the property of a run each one states.

**The pipeline.** The first half of `CaptureProofs` has the lemmas about the steps of
CaptureWriter, one for each operator that builds a sequence (`CutType`, `FlushType`,
`PrepareType`, ...) and then one per action, against any owner: a step is the writer's or
leaves the writer's state aside (`Aside`). CliProofs and EngineProofs use them for theirs.

* `TimelineInv`. "Blocks tile" is not inductive: whether the next committed block fits
  depends on the blocks still waiting, and on `sequence` and `startFrame`, which a
  failed transaction leaves ahead of what is stored. The invariant is about `Timeline ==
  blocks \o batch`: it is tiled, `sequence` and `startFrame` are where it goes on,
  `frames` and the row are how far it is committed (`TiledAppend`, `TiledPrefix`).
* `ThreadInv` is what the thread holds at each place of its loop.
* `LossInv` counts what is held while the loop turns: `startFrame = frames + BlockFrames
  * Len(batch)`, a batch below its bound except right before a commit.

The second half of **CaptureProofs** (`OwnerSpec`, any owner of the Handle): `TypeCorrect`,
`TimelineHolds`, `BlocksAlwaysTile`, `ThreadHolds`, `ClosedIsComplete`, `PauseIsSafe`,
`LossIsBounded`, and of every step `ClosedStaysClosed` and `HoldingIsQuiet`. Assumed is
`CaptureAssumption`: sizes are natural numbers, a block and a callback at least a frame.

**EngineProofs** has two parts. About `LiveSpec` of EngineEvents: `EngineInv` adds to the pipeline where the
command under way stands (`CommandInv`), what the writer has done by then (`WriterInv`),
and that a deck that was never recording has written nothing (`Untouched`); `RowInv` puts
them together with the row. From it `AbandonIsClean` and `ReportIsTheRow`. `LiveInv` adds
what a subscriber has heard against what is so, and that the workers are gone before the
end is told (`HeardInv`): `StreamIsTrue`, `StreamIsFinite`. Assumed are
`EngineAssumption` (the engine opens its writer paused, as `engine.rs` does) and
`LiveAssumption` (sizes).

Its second part is about `RecoverySpec`: `CaptureIsArchive`, the refinement of Archive,
with kills and recovery. The mapping flattens the blocks by a fold. Induction over data needs
a theorem with an operator for a parameter, which no backend instantiates; it is
possible over a *set* of numbers (`SetInduction`, from the well-foundedness of `<`), and
`Lays` gives the fold as a function one can say that of (`AudioLaid`,
`AudioOfOneMore`). `OrderInv` says that everything held is in the order it was produced,
so a commit, which moves a prefix of it into the blocks, is one `AddAudio`. `Durable`
is what the project says of itself with no regard for the process, which is all a kill
leaves; `RecoveryInv` is EngineInv while the process lives and Durable always. That
recovery's walk ends where the blocks do (`UsableIsAll`) is a count: the rows of a
channel are as many as the blocks, and the walk goes on through them all
(`RowsAreCounted`, `WalkGoesOn`, `WalkEnds`).

**CliProofs** has two parts. About `FileSpec` of ProjectFile, for any number of
processes, versions and broken attempts, `ProjectStaysSound`: whether a migration puts
the version back depends on a list that was read before and outside its transaction, so
`FileInv` is about that list: of the versions a process supports, those the file lacks
are in it (`Knows`), and a key of the stamp that is not set is still due (`SetOrDue`).
The first version of the list either has its tables already, and then the step fails, or
is the next one of the file (`ApplyKeeps`). It also says that whoever is past the pragmas
has the file in WAL, and that the file is taken away only while nobody is on the way
(`TakeAwayKeeps`). About `Spec` of CaptureCli:
`RowSaysHowItEnded` from `RowTold` (what the verb has decided by each of its steps, and
what the writer makes of it), `NothingGoesMissing` from `HeldInv` (this owner never
pauses, so that what is held, what is lost and a callback just refused add up, in order
and in whole callbacks), and `CaptureKeepsProjectSound`, because each step of the
composition is a step of ProjectFile or leaves the file alone (`CaptureUsesTheFile`).
Assumed are `CliAssumption` (the verb takes the default `start_paused: false`, and is
one of the openers) and `ProjectAssumption` (there is a migration to be behind of).

**DamagedProofs** (`Spec` of RecoveryDamaged, where no count of blocks is to be had).
`WalkMeasuresRuns`, `RecoveryValidates` and `RecoveryKeepsAudio` are about any set of rows
the table allows (`Sound`), which no damage leaves (`DamageKeepsSound`). The rows of a
channel are listed by counting those before each; every rank is taken once
(`RankIsTaken`), so the list has each row once and in order (`Ordered`). What the walk has
seen of that list is the run it started with and the rest (`Shape`, `ShapeGrows`), and so
it ends at the end of a run that no row goes on from (`WalkIsRun`). A run's first j rows
hold as many frames as the j-th end says (`RunFrames`), for which the sum over a set of
rows has to be taken apart at any of them (`AddsAny`); and j rows numbered below j leave
no number out (`NoneMissing`), so no longer run exists (`ReachIsWalk`). What recovery
leaves of a channel is the part of its run that starts before the agreed end
(`SurplusIs`), again a run, and one that reaches that end (`Straight`, `LeftIsStraight`):
with that as the invariant of a closed capture, `check_timeline` finds each row where the
one before ends, and `check_coverage` the declared length on every channel
(`StraightIsTiled`, `StraightIsWhole`). Assumed is `DamagedAssumption` (at least one
channel).

**PlaybackProofs**. About `Spec` of Playback, for every interleaving of the three
threads: `PoolStaysWhole`, `RingsHaveRoom`, `HolesStaySilent`, `EpochsJoin`. The idea is
the *line* the callback is served from: the queue, the chunk in the feeder's hand, and
the place the feeder reads on from, as a chunk of no length. Along it epochs never go
back and within one every piece starts where the one before stops (`Tidy`), and it goes
on from what the callback has in hand (`GoesOn`); a feeder that has taken up a seek and
not loaded its frame has no such place, which is exactly the window in which the two
stores of a seek can be seen torn. `EpochInv` says epochs only travel downstream,
`SolidInv` that no hole is on its way. About `RenderSpec` of PlaybackRender,
`StarvesOnce`: an epoch is settled once it has starved (`Settled`), a settled one has
nothing stale in the queue and, at the callback's turn, a whole chunk ready (`Ready`),
because a feeder that filled every buffer in one epoch has a chunk behind the first
(`FullIsReady`). `RenderIsExact` is the safety half of RenderEnds: until an epoch's first
piece is heard it starts where its seek aimed (`AimInv`), and the drained mark of the
present epoch means its span is read out (`DrainInv`). Assumed are `QueueAssumption` (a
pool of at least two), `PlaybackAssumption` (sizes; the holes are inside the span) and
`RenderAssumption` (a render holds nothing back and a period is a chunk, as `render()`
sets up).

**MetadataProofs** (`Spec` of MetadataClient, any calls, interval, retry policy and map of
keys to files): `ClientTypes`; `SlotsStayApart`, which by itself is not inductive, since a
slot handed back twice, or spent by a call that had handed it back, would break it:
`SlotsAreHeld` says that a call holds a slot exactly while it queues or is about to
send, and a release is safe because the next free instant is one interval behind the
released slot only when that slot is the last; `CancelledCallsAreSilent`; `RetriesWait`,
whose invariant `RetriesAreDue` carries what a retry waited for through the slices of the
nap, the reading of the clock, the queue and the send (`AfterSays` is what
`Retry::after` promises); and `HitsAreOwn`: no file that a call writes, or that names its
key, has a byte of another key (`FilesAreClean`). That one has the hypothesis
`KeysApart`: keys asked for at the same time do not share a file. MCMetadata satisfies
it; without it the property is false (see above). Assumed are `ClientAssumption` and
`LimiterAssumption` (numbers are natural, the interval and the slice at least one).

**TrackProofs** (`Spec` of TrackEdits). `RowsStaySound`: TypeOK is not inductive, because
a verb decides its statements from rows that the statements before it change. What is
known of those to come is `Ready`: a row to be put is there under its id or nowhere, no
two of them are for one place or have one id, what an insertion or an extension names is
there or put before it, nothing is named once a statement may take a boundary away, and
the pairing is last. For an adoption the second rests on the resolver: two
clusters with an observation of one edge in one place are one cluster (`ClustersMeet`),
and a cluster makes one decision, or one for each place a user put a boundary
(`OneDecision`). `InOrder` picks the i-th of a
set by counting those before it; that it lists each once and in order is `Listed`, from
`RankTaken` and `RankGrows`, and the length follows. From the same invariant `LockedKept`,
one case for each statement and each verb of one statement; and, with `PairingInv` (each
track still to be inserted is clear of those that are there and ends before the next
begins, and a `put` is never behind an insertion), `AdoptionIsClear`.
`EditsKeepTracks` has five parts and two more invariants. `NumberInv`: a side that is not
known to be unsettled is in order, or a statement that renumbers it is still to come, and
each statement that may change the order of a side has such a one behind it (`Caught`);
that renumbering makes it so is `RankGiven`. `WayInv` says where each verb stands, against
what the tracks were like when it began: a split is `Uncut` (the two ends still to be put
lie inside the track), `Halved` (the audio cut off is the insertion's) or `AsItWas`; a
merge is `ToDelete`, `ToExtend` or `Joined`, and while it is the second the stretch the
left track will reach over is clear; an adoption's insertions are clear of each other. From
these follow that audio is kept, that tracks that did not overlap never do, at any
statement a kill may come after, and that no insertion meets a boundary that is taken,
which would stop a verb half way. That `check_topology`, which compares neighbours only,
finds every overlap is `NeighboursSuffice`: in order of their starts, two tracks overlap
only if two next to each other do. Assumed are
`TrackAssumption` and `ResolverAssumption` (ids are numbers, finitely many),
`StartsAssumption` and `PassesAssumption`.

**AlgorithmProofs** (`Spec` of MCAlgorithms). `OutputsAreEvaluated` says a state is an
input, alone or with what its algorithm makes of it; a theorem carries a property from
there to a lemma about the algorithm, which bounds no input:

* `SearchesAreConstrained` (`RunSearchIsConstrained`: any criteria, limit and answers) and
  `CoversAreMeasured` (`SizeIsItsFrames`: a file of any number of segments).
* `PathsAreLikeliest` (`PathIsBest`: sides of any length, any emissions, transitions and
  bias). That a recursive function is what its equation says needs a function that
  satisfies it, and that is an induction, over a set of numbers (`SetInduction`): with
  `StepByStep` the scores are their steps (`ScoresAreSteps`), a path's likelihood is a sum
  along it (`LikelihoodIsSum`), the decoded path is the one the scores were taken from
  (`PathIsTraced`), and no sum along a path is above the score it ends in
  (`TracedIsBest`).
* `ClaimsAreProved`. A device that is found is the only one the query names
  (`FoundIsNamed`), what is called agreed is what the system reported
  (`AgreedIsReported`, `ConfirmedIsEarned`), and a conversion that names no loss
  loses nothing of any frame (`LosslessIsHeard`).
* `SpansAreExact` (`ReadingIsExact`: captures, spans, seeks and fills of any size). What is
  assumed of a capture is `Readable`: one row for a channel and a number, no two blocks of
  channel 0 that start at one frame; rows may be missing, moved, cut or short. What a
  block in hand tells is right for every frame it covers (`LoadTells`), so between
  two turns a reader has its cursor in the span and either nothing in hand or a block that
  covers the cursor (`Reader`, kept by `SeekReads`, `CopyGives` and `TurnKeeps`). A refusal
  has its reason, because a frame that some whole block holds is located and can be loaded
  (`HeldIsFound`); and each turn gives a frame or ends the fill (`FillGives`), each fill
  a frame or the span (`FillsGiveAll`).
* `ClicksAreDrawn` (`ReadingShows`: any blocks, levels and requests, any number of clicks
  one way). A column's frames and a frame's column are rounded down (`ColumnAround`,
  `ShareShows`, `ShareReaches`); a run of frames marks the columns it touches, so after a
  set of runs a column is marked exactly when one of them reaches it (`AddPaints`,
  `ReadPaints`); the runs of a block tell of it and cover it (`RunsTell`), and a level that
  is coarse enough leaves no column without a run (`ChoiceFits`).
* `ReleasesAreRead` (`TracklistKept`: tracklists of any length on any number of discs;
  `LetteredOnDisc`: any medium; `NormalisedAll` and `LookupMeans`: any table and names). A
  track is told by its row, and what is picked of a list keeps its order
  (`ThoseArePicked`); a disc gets the tracks that are on it (`OnTheDisc`), every track's
  disc is listed and none twice (`MediaAreDiscs`), so all of them together are the rows,
  each once (`TracksSoFar`). Each name that is pushed adds its word or is there
  (`PushedOnce`), and what is looked up is the last row of the spelling
  (`ExactIsLast`) or of the first spelling that folds to it (`SpellingIsFirst`).

**Model-checked only**, and why:

* Liveness (StopEnds, ShutdownCloses, KilledIsSettled, SeekJoins, StopCloses, and the
  half of RenderEnds that says it returns) is out of the prover's reach, as is everything
  with ENABLED.
* TracksAreSettled of MCAlgorithms. It compares the scan of a side heard so far with the
  scan of all of it, through two merges, a selection and a split of overlaps, each a fold
  over spans; what is stable under a longer trace is a statement about every pair of folds,
  and it holds only where the lag is longer than a window. TLC tries it on
  every trace of four to seven windows of three levels.

## 5. Not modelled

* Enumerating and probing devices, the JSON and the wording of queries, printing, option
  parsing, the load generator: no state, or state nothing else reads.
* Features of a window, the fit of the hidden Markov model, the adaptive floor,
  posteriors, confidence and the meter's ballistics: floating point, about which a model
  over small integers would say nothing.
* SQLite itself: a transaction is atomic and durable, which is what the code relies on. The
  text of the DDL, the pragmas but the journal mode, and the generated schema document are
  data.
* Of `refine()`, which reads a stored capture through BlockReader into TrackDetector and
  adds no state, the collecting of observations for the resolver; the audition scopes of the player; the sidecar report of recovery; the checks
  of `validate` that count over tables the models do not have.
* Export, fingerprint and identify are stubs. The spikes are programs nothing uses.

## 6. Plan

Done: the capture core, the project file, recovery, playback, the edit model and
adoption, the engine with its workers and the bus, the metadata client, the algorithms;
and proofs of every safety property the runs check but those named in section 4. Left,
in this order:

1. The proof of TracksAreSettled: the spans of a prefix of a trace are those of the whole
   one but for the last, a merge keeps that, and behind the lag nothing is last.
2. The remaining checks of `validate` and the loop of `recover_all`.
