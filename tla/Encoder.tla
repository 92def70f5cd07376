------------------------------- MODULE Encoder -------------------------------
(***************************************************************************)
(* The ffmpeg commands of one job: which command an attempt starts after   *)
(* which, which of them a watchdog waits for, what becomes of a command    *)
(* that nobody waits for any more, and which of the files they write the   *)
(* attempt lists as its output.                                            *)
(*                                                                         *)
(* An attempt is the encoding and the previews of one call of process().   *)
(* A retry begins one after another; two executions of a job have two at   *)
(* once, in the same directories.  A file stands for all that one command  *)
(* writes, the chunks and the playlist of a variant for instance.          *)
(***************************************************************************)
EXTENDS Naturals, Sequences, FiniteSets, Functions

CONSTANTS
    MaxAttempts,  \* bound: attempts, numbered in the order they begin
    Inputs,       \* inputs the job may have: [width, height, audio]
    Ladder,       \* the quality ladder: a sequence of [name, width, height]
    Bitrates,     \* the audio bitrates
    Thumbnails,   \* names of the thumbnails
    Extras,       \* the previews made last: "sprite" and "clip"
    MaxFaults     \* bound: removals and overlapping attempts, together

Attempts  == 1..MaxAttempts
Names(s)  == [i \in DOMAIN s |-> s[i].name]
Qualities == {q.name : q \in Range(Ladder)}
Previews  == Range(Thumbnails) \cup {"palette", "gif"} \cup Range(Extras)
Others    == {"raw", "processed", "master"} \cup Range(Bitrates) \cup Previews
Files     == Qualities \cup Others

ASSUME EncoderAssumption ==
    /\ MaxAttempts \in Nat \ {0} /\ MaxFaults \in Nat
    /\ Ladder # << >> /\ Thumbnails # << >>
    /\ \A s \in {Ladder, Bitrates, Thumbnails, Extras} : s \in Seq(Range(s))
    /\ \A in \in Inputs : in.width \in Nat /\ in.height \in Nat /\ in.audio \in BOOLEAN

\* No two commands of an attempt write the same file.
ASSUME FilesAssumption ==
    LET kinds == <<Names(Ladder), Bitrates, Thumbnails, Extras,
                   <<"raw", "processed", "master", "palette", "gif">> >>
    IN  \A i, j \in DOMAIN kinds :
            /\ IsInjective(kinds[i])
            /\ i # j => Range(kinds[i]) \cap Range(kinds[j]) = {}

VARIABLES
    input,     \* what ffprobe says of the input, at each attempt the same
    complete,  \* state.json: the qualities named as completed
    content,   \* each file: absent, in part, or whole
    faults,    \* history: removals of the files, attempts begun beside another
    pc,        \* per attempt: where it is
    at,        \* per attempt: the index of its task
    known,     \* per attempt: the completed qualities in its copy of the state
    failed,    \* per attempt: the qualities that failed
    listed,    \* per attempt: the files in its result
    exit,      \* per attempt and file: its ffmpeg process, until Run returns
    done,      \* per attempt and quality: what Watch received, "ok" for good
    late,      \* the <<attempt, file>> the watchdog has given up
    hurt       \* per attempt: the running commands that cannot do their work,
               \* as another writes their file or one they read, or it is gone

disk    == <<complete, content>>
attempt == <<pc, at, known, failed, listed>>
command == <<exit, done, late, hurt>>
vars    == <<input, disk, faults, attempt, command>>

-----------------------------------------------------------------------------
(* The tasks of an attempt.                                                *)

\* The names of the rungs at these places, in the order of the ladder.
InOrder(S) ==
    LET place == CHOOSE f \in [1..Cardinality(S) -> S] :
                     \A i, j \in DOMAIN f : i < j => f[i] < f[j]
    IN  [i \in DOMAIN place |-> Ladder[place[i]].name]

\* By height, and at least the lowest; with audio, by both, and maybe none.
SelectVariants(in) ==
    LET fitting == {i \in DOMAIN Ladder : Ladder[i].height <= in.height}
    IN  IF fitting = {} THEN <<Ladder[1].name>> ELSE InOrder(fitting)
selectQualities(in) ==
    InOrder({i \in DOMAIN Ladder :
                Ladder[i].width <= in.width /\ Ladder[i].height <= in.height})

EncodeSeparateAV(in) == <<"raw", "processed">> \o Bitrates \o selectQualities(in)
generatePreviews     == Thumbnails \o <<"palette", "gif">> \o Extras

Scripts == [in \in Inputs |->
    (IF in.audio THEN EncodeSeparateAV(in) ELSE SelectVariants(in))
    \o <<"master">> \o generatePreviews]

Script  == Scripts[input]
Task(a) == Script[at[a]]

\* The file a command reads that another command of the job has written.
Source(f) == CASE f = "processed"          -> {"raw"}
               [] f \in Range(Bitrates) -> {"processed"}
               [] f = "gif"                -> {"palette"}
               [] OTHER                    -> {}

\* EncodeQuality alone uses a watchdog; ffprobe runs before three commands.
Watched(f) == f \in Qualities /\ ~input.audio
Probed(f)  == Watched(f) \/ f = Thumbnails[1] \/ f = "sprite"

Running(a, f) == exit[a][f] = "running"
Inside(a, q)  == Watched(q) /\ exit[a][q] # "none"
Ended(a)      == pc[a] \in {"done", "failed"}
Busy(a)       == pc[a] # "idle" /\ ~Ended(a)

Elsewhere(a, f) == \E b \in Attempts \ {a} : Running(b, f)

\* The state is saved with this set of completed qualities.
Save(a, K) == known' = [known EXCEPT ![a] = K] /\ complete' = K

Init ==
    /\ input \in Inputs
    /\ complete = {} /\ content = [f \in Files |-> "absent"]
    /\ faults = 0
    /\ pc = [a \in Attempts |-> "idle"] /\ at = [a \in Attempts |-> 1]
    /\ known = [a \in Attempts |-> {}] /\ failed = known /\ listed = known
    /\ exit = [a \in Attempts |-> [f \in Files |-> "none"]]
    /\ done = [a \in Attempts |-> [q \in Qualities |-> "empty"]]
    /\ late = {} /\ hurt = known

-----------------------------------------------------------------------------
(* An attempt.                                                             *)

Fault == faults < MaxFaults /\ faults' = faults + 1

\* A retry, a resumed job, or a second execution while one is at work.
Begin(a) ==
    /\ pc[a] = "idle" /\ \A b \in 1..a-1 : pc[b] # "idle"
    /\ pc' = [pc EXCEPT ![a] = "run"]
    /\ known' = [known EXCEPT ![a] = complete]
    /\ IF \E b \in Attempts : Busy(b) THEN Fault ELSE UNCHANGED faults
    /\ UNCHANGED <<input, disk, at, failed, listed, command>>

\* loadExistingQuality: what the state names is listed if its directory exists.
SkipVariant(a) ==
    /\ pc[a] = "run" /\ at[a] <= Len(Script)
    /\ Watched(Task(a)) /\ Task(a) \in known[a]
    /\ at' = [at EXCEPT ![a] = @ + 1]
    /\ listed' = IF content[Task(a)] = "absent" THEN listed
                 ELSE [listed EXCEPT ![a] = @ \cup {Task(a)}]
    /\ UNCHANGED <<input, disk, faults, pc, known, failed, command>>

\* EnsureDir, then ffprobe for the duration: it has no watchdog.
ProbeInput(a) ==
    /\ pc[a] = "run" /\ at[a] <= Len(Script) /\ Probed(Task(a))
    /\ Task(a) \notin known[a]
    /\ pc' = [pc EXCEPT ![a] = "probe"]
    /\ IF Watched(Task(a))
       THEN /\ complete' = known[a]
            /\ content' = [content EXCEPT ![Task(a)] = IF @ = "absent" THEN "part" ELSE @]
       ELSE UNCHANGED <<complete, content>>
    /\ UNCHANGED <<input, faults, at, known, failed, listed, command>>

\* A command that begins to write f disturbs those that write or read f, and
\* is disturbed itself if f is being written or what it reads is not whole.
Disturbed(a, f) ==
    LET unready == Elsewhere(a, f) \/ \E g \in Source(f) : content[g] # "whole"
    IN  [b \in Attempts |-> hurt[b]
            \cup {g \in Files : Running(b, g) /\ f \in {g} \cup Source(g)}
            \cup {g \in {f} : b = a /\ unready}]

\* ffmpeg -y begins to write its file, whoever else writes or reads it.
Start(a) ==
    /\ LET f == Task(a)
       IN  /\ exit' = [exit EXCEPT ![a][f] = "running"]
           /\ content' = [content EXCEPT ![f] = "part"]
           /\ hurt' = Disturbed(a, f)
    /\ pc' = [pc EXCEPT ![a] = "wait"]
    /\ UNCHANGED <<input, complete, faults, at, known, failed, listed, done, late>>

StartCommand(a) ==
    /\ pc[a] = "run" /\ at[a] <= Len(Script)
    /\ Task(a) # "master" /\ ~Probed(Task(a))
    /\ Start(a)

\* What Watch, or cmd.Run, returns.
Outcome(a) == IF Watched(Task(a)) THEN done[a][Task(a)] ELSE exit[a][Task(a)]

\* generateGIF removes the palette when it returns, but not when it has none.
RemovePalette(a) ==
    IF Task(a) = "gif"
    THEN /\ content' = [content EXCEPT !["palette"] = "absent"]
         /\ hurt' = [b \in Attempts |-> hurt[b] \cup {g \in {"gif"} : Running(b, g)}]
    ELSE UNCHANGED <<content, hurt>>

\* The result of cmd.Run, or of Watch, is not needed any more.
Taken(a) ==
    LET f == Task(a)
    IN  IF Watched(f)
        THEN done' = [done EXCEPT ![a][f] = "empty"] /\ UNCHANGED exit
        ELSE exit' = [exit EXCEPT ![a][f] = "none"] /\ UNCHANGED done

Advance(a) == at' = [at EXCEPT ![a] = @ + 1] /\ pc' = [pc EXCEPT ![a] = "run"]

\* EncodeQuality counts the chunks: a directory that was removed has none.
TaskSucceeds(a) ==
    /\ pc[a] = "wait" /\ Outcome(a) = "ok"
    /\ Watched(Task(a)) => content[Task(a)] # "absent"
    /\ listed' = [listed EXCEPT ![a] = @ \cup ({Task(a)} \ {"raw", "processed", "palette"})]
    /\ IF Watched(Task(a))
       THEN Save(a, known[a] \cup {Task(a)}) /\ UNCHANGED <<exit, done>>
       ELSE Taken(a) /\ UNCHANGED <<known, complete>>
    /\ Advance(a)
    /\ RemovePalette(a)
    /\ UNCHANGED <<input, faults, failed, late>>

\* A quality that fails is passed over; only encodeWithResume takes note of it.
PassOver(a) ==
    /\ Task(a) \in Qualities \cup Range(Extras)
    /\ IF Watched(Task(a))
       THEN failed' = [failed EXCEPT ![a] = @ \cup {Task(a)}] /\ complete' = known[a]
       ELSE UNCHANGED <<failed, complete>>
    /\ Advance(a)
    /\ UNCHANGED <<known, listed>>

\* Mutant of FailAttempt: audio that fails is passed over as a track is.
FailQuietly(a) ==
    /\ Task(a) \in {"raw", "processed"} \cup Range(Bitrates)
    /\ Advance(a)
    /\ UNCHANGED <<known, listed, failed, complete>>

\* Without its audio, EncodeSeparateAV returns the error.
FailAttempt(a) ==
    /\ Task(a) \in {"raw", "processed"} \cup Range(Bitrates)
    /\ pc' = [pc EXCEPT ![a] = "failed"]
    /\ UNCHANGED <<at, known, listed, failed, complete>>

\* Mutant of DropPreviews: the thumbnails made so far stay in the result, and
\* the index counts on from where it is.
DropOnward(a) ==
    /\ Task(a) \in Range(Thumbnails) \cup {"palette", "gif"}
    /\ at' = [at EXCEPT ![a] = @ + Len(generatePreviews)]
    /\ pc' = [pc EXCEPT ![a] = "run"]
    /\ UNCHANGED <<known, listed, failed, complete>>

\* GeneratePreviews returns the error: the job gets no previews at all.
DropPreviews(a) ==
    /\ Task(a) \in Range(Thumbnails) \cup {"palette", "gif"}
    /\ at' = [at EXCEPT ![a] = Len(Script) + 1]
    /\ listed' = [listed EXCEPT ![a] = @ \ Previews]
    /\ pc' = [pc EXCEPT ![a] = "run"]
    /\ UNCHANGED <<known, failed, complete>>

TaskErrs(a) == PassOver(a) \/ FailAttempt(a) \/ DropPreviews(a)

TaskFails(a) ==
    /\ pc[a] = "wait"
    /\ \/ Outcome(a) = "error"
       \/ Outcome(a) = "ok" /\ Watched(Task(a)) /\ content[Task(a)] # "whole"
    /\ TaskErrs(a)
    /\ Taken(a)
    /\ RemovePalette(a)
    /\ UNCHANGED <<input, faults, late>>

\* Mutant of TimesOut: the timer is looked at only when the command is done.
TimesOutLate(a) ==
    /\ pc[a] = "wait" /\ Watched(Task(a)) /\ ~Running(a, Task(a))
    /\ late' = late \cup {<<a, Task(a)>>}
    /\ done' = [done EXCEPT ![a][Task(a)] = "empty"]
    /\ TaskErrs(a)
    /\ UNCHANGED <<input, content, faults, exit, hurt>>

\* Watch returns at its timeout; the goroutine and its process go on.
TimesOut(a) ==
    /\ pc[a] = "wait" /\ Watched(Task(a))
    /\ late' = late \cup {<<a, Task(a)>>}
    /\ done' = [done EXCEPT ![a][Task(a)] = "empty"]
    /\ TaskErrs(a)
    /\ UNCHANGED <<input, content, faults, exit, hurt>>

AtMaster(a) == pc[a] = "run" /\ at[a] <= Len(Script) /\ Task(a) = "master"

\* No hls directory, or, without audio, no quality: there is nothing to write.
Hopeless(a) ==
    \/ \A f \in Files \ Previews : content[f] = "absent"
    \/ ~input.audio /\ listed[a] = {}

\* The file cannot be created or, with audio, not be written to its end.
MasterFails(a) ==
    /\ AtMaster(a)
    /\ pc' = [pc EXCEPT ![a] = "failed"]
    /\ \/ UNCHANGED content
       \/ input.audio /\ ~Hopeless(a) /\ content' = [content EXCEPT !["master"] = "part"]
    /\ UNCHANGED <<input, complete, faults, at, known, failed, listed, command>>

\* Without audio the errors of the writes are ignored, so a part of the playlist
\* will do.  A failed quality is then returned as PartialSuccessError; with audio,
\* none is known.
MasterPlaylist(a) ==
    /\ AtMaster(a) /\ ~Hopeless(a)
    /\ \E c \in {"part", "whole"} :
          /\ input.audio => c = "whole"
          /\ content' = [content EXCEPT !["master"] = c]
    /\ listed' = [listed EXCEPT ![a] = @ \cup {"master"}]
    /\ Save(a, known[a] \cup (listed[a] \cap Qualities))
    /\ IF failed[a] = {} THEN Advance(a)
       ELSE pc' = [pc EXCEPT ![a] = "failed"] /\ UNCHANGED at
    /\ UNCHANGED <<input, faults, failed, command>>

Finish(a) ==
    /\ pc[a] = "run" /\ at[a] > Len(Script)
    /\ pc' = [pc EXCEPT ![a] = "done"]
    /\ UNCHANGED <<input, disk, faults, at, known, failed, listed, command>>

-----------------------------------------------------------------------------
(* ffprobe and ffmpeg, which may also hang, and the watchdog's goroutine.  *)

\* With the duration known, the command follows at once.
ProbeEnds(a) == pc[a] = "probe" /\ Start(a)

ProbeFails(a) ==
    /\ pc[a] = "probe"
    /\ TaskErrs(a)
    /\ UNCHANGED <<input, content, faults, command>>

\* A process that was not disturbed and exits with 0 has written its file.
Exits(a, f) ==
    /\ Running(a, f)
    /\ \/ /\ exit' = [exit EXCEPT ![a][f] = "ok"]
          /\ \E c \in {"part", "whole"} :
                /\ c = "part" => f \in hurt[a]
                /\ c = "whole" => ~Elsewhere(a, f)
                /\ content' = [content EXCEPT ![f] = IF @ = "absent" THEN @ ELSE c]
       \/ exit' = [exit EXCEPT ![a][f] = "error"] /\ UNCHANGED content
    /\ hurt' = [hurt EXCEPT ![a] = @ \ {f}]
    /\ UNCHANGED <<input, complete, faults, attempt, done, late>>

\* Mutant of FnReturns: the channel has no buffer.
FnBlocks(a, f) ==
    /\ Inside(a, f) /\ ~Running(a, f)
    /\ <<a, f>> \notin late
    /\ exit' = [exit EXCEPT ![a][f] = "none"]
    /\ done' = [done EXCEPT ![a][f] = exit[a][f]]
    /\ UNCHANGED <<input, disk, faults, attempt, late, hurt>>

\* Mutant of FnReturns: one channel for all calls that encode a quality.
FnSharesChannel(a, f) ==
    /\ Inside(a, f) /\ ~Running(a, f)
    /\ exit' = [exit EXCEPT ![a][f] = "none"]
    /\ done' = [b \in Attempts |->
          [done[b] EXCEPT ![f] = IF pc[b] = "wait" /\ Task(b) = f THEN exit[a][f] ELSE @]]
    /\ UNCHANGED <<input, disk, faults, attempt, late, hurt>>

\* done <- fn(): each call has a channel with room for its one result, which is
\* lost with the channel if Watch has returned.
FnReturns(a, f) ==
    /\ Inside(a, f) /\ ~Running(a, f)
    /\ exit' = [exit EXCEPT ![a][f] = "none"]
    /\ done' = IF <<a, f>> \in late THEN done ELSE [done EXCEPT ![a][f] = exit[a][f]]
    /\ UNCHANGED <<input, disk, faults, attempt, late, hurt>>

\* AutoCleanup, DeleteJob or a size limit removes the job's directory.
RemoveFiles ==
    /\ Fault
    /\ complete' = {}
    /\ content' = [f \in Files |-> "absent"]
    /\ hurt' = [a \in Attempts |-> {f \in Files : Running(a, f)}]
    /\ UNCHANGED <<input, attempt, exit, done, late>>

-----------------------------------------------------------------------------
\* What the service's own code does next; ffprobe and ffmpeg may take for ever.
Step(a) ==
    \/ SkipVariant(a) \/ ProbeInput(a) \/ StartCommand(a) \/ TaskSucceeds(a)
    \/ TaskFails(a) \/ TimesOut(a) \/ MasterFails(a) \/ MasterPlaylist(a) \/ Finish(a)

Next ==
    \/ \E a \in Attempts :
          \/ Begin(a) \/ Step(a) \/ ProbeEnds(a) \/ ProbeFails(a)
          \/ \E f \in Files : Exits(a, f)
          \/ \E q \in Qualities : FnReturns(a, q)
    \/ RemoveFiles

Spec == Init /\ [][Next]_vars

\* The Go scheduler, and the timer of each watchdog.
FairSpec ==
    /\ Spec
    /\ \A a \in Attempts :
          WF_vars(Step(a)) /\ \A f \in Qualities : WF_vars(FnReturns(a, f))

-----------------------------------------------------------------------------
(* Properties.                                                             *)

\* Types of the variables.
TypeOK ==
    /\ input \in Inputs /\ complete \subseteq Qualities
    /\ content \in [Files -> {"absent", "part", "whole"}]
    /\ faults \in 0..MaxFaults
    /\ pc \in [Attempts -> {"idle", "run", "probe", "wait", "failed", "done"}]
    /\ at \in [Attempts -> 1..Len(Script) + 1]
    /\ \A S \in {known, failed} : S \in [Attempts -> SUBSET Qualities]
    /\ listed \in [Attempts -> SUBSET Files]
    /\ exit \in [Attempts -> [Files -> {"none", "running", "ok", "error"}]]
    /\ done \in [Attempts -> [Qualities -> {"empty", "ok", "error"}]]
    /\ late \subseteq Attempts \X Qualities /\ hurt \in [Attempts -> SUBSET Files]

\* A quality the state names as completed, and that no later attempt encodes
\* again, was encoded by a command that ended well while it was waited for: the
\* late result of a command the watchdog gave up is never taken for the result
\* of a retry of the same quality (watchdog.go:44, transcode_usecase.go:519).
EncodedInTime ==
    \A q \in complete \cup UNION {known[a] : a \in Attempts} :
        Watched(q) => \E a \in Attempts : exit[a][q] = "none" /\ done[a][q] = "ok"

\* GenerateMasterPlaylist of encoder.go:144 does not notice that it failed to write.
Unchecked(f) == f = "master" /\ ~input.audio

\* When an attempt ends well, every file of its result is whole, the files
\* that were made from other files and those of earlier attempts included:
\* unless the watchdog gave up a command that writes it, two executions of the
\* job were at work at once, or its files were removed meanwhile; and except for
\* the master playlist of an input without audio, whose writes nobody checks.
PublishedWhole ==
    [][ \A a \in Attempts : pc[a] # "done" /\ pc'[a] = "done" =>
          \A f \in listed[a] :
              \/ content[f] = "whole" \/ Unchecked(f)
              \/ faults > 0 \/ \E b \in Attempts : <<b, f>> \in late ]_vars

\* The attempt waits for a process that nothing watches.
Held(a) ==
    \/ pc[a] = "probe"
    \/ pc[a] = "wait" /\ ~Watched(Task(a)) /\ Running(a, Task(a))

\* A command that hangs does not hold up an attempt for ever, unless it is one
\* of those without a watchdog: ffprobe, the audio commands, the video tracks
\* of an input with audio, and the previews (watchdog.go:52-57).
OnlyUnwatchedHold == \A a \in Attempts : <>[](pc[a] = "idle" \/ Ended(a) \/ Held(a))

\* The goroutine of a call that timed out is gone some time after its command
\* has ended, although nobody receives its result (watchdog.go:44).
GoroutinesLeave ==
    \A a \in Attempts, q \in Qualities :
        Inside(a, q) /\ ~Running(a, q) ~> ~Inside(a, q)

=============================================================================
