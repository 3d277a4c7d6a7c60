---- MODULE Audio ----
\* The audio system of the miniaudio module: voices that play, pause,
\* restart and end, the terminal outcome of each generation of a voice,
\* and the bounded outbox from which one owner publishes the outcomes.
\* Everything but a notification happens under the system's mutex and is
\* one step here; listeners run between two sections of the pump and may
\* call anything.  The native mixer moves at any time.
EXTENDS Naturals, SequencesExt

CONSTANTS Voices,       \* identities for play and stream
          Capacity,     \* PlaybackNotificationOptions::capacity
          MaxSequence,  \* the largest std::uint64_t of the terminal sequence
          MaxGeneration \* the largest std::uint64_t of a generation
ASSUME NotificationAssumption == Capacity \in Nat \ {0} /\ MaxSequence \in Nat

VARIABLES
    audio,      \* SystemState; voice data is by identity, 0 generations if there is none
    pump,       \* the running publish_notifications: its cutoff and what it has in hand
    heard        \* history: the records notified, each with the loss it reports

audioVars == <<audio, pump, heard>>

Silence == [requested |-> "Paused", atEnd |-> FALSE, waiting |-> FALSE, looping |-> FALSE,
            generation |-> 0, terminal |-> "none", held |-> FALSE]
NoPump == [publishing |-> FALSE, cutoff |-> 0]

AudioInit ==
  /\ audio = [open |-> TRUE, discarded |-> FALSE, voices |-> <<>>,
              data |-> [v \in Voices |-> Silence], ended |-> <<>>, active |-> 0,
              outbox |-> <<>>, lost |-> 0, firstLost |-> 0, lastLost |-> 0]
  /\ pump = NoPump /\ heard = <<>>

\* VoiceData::state() of an initialized sound.
PlaybackState(d) ==
  CASE d.requested = "Stopped" -> "Stopped"
    [] d.requested # "Stopped" /\ (d.terminal = "Completed" \/ d.atEnd) -> "Finished"
    [] d.requested = "Playing" /\ ~d.atEnd /\ d.waiting -> "Scheduled"
    [] OTHER -> d.requested
Sounding(d) == PlaybackState(d) \in {"Playing", "Scheduled"}

\* terminal(): the first outcome of an admitted generation gets the next
\* number; when the outbox is full its oldest record is lost and counted.
\* "ended" has one entry per number, so its length is the sequence.
TerminalAgain(a, v, reason) ==
  IF a.data[v].generation = 0 THEN a
  ELSE [a EXCEPT !.data[v].terminal = reason, !.active = @ - 1,
                 !.ended = Append(@, [voice |-> v, generation |-> a.data[v].generation, reason |-> reason])]
LostUncounted(a) == [a EXCEPT !.outbox = Tail(@)]

Lose(a) ==
  LET dropped == Head(a.outbox) IN
  [a EXCEPT !.outbox = Tail(@), !.lost = @ + 1, !.lastLost = dropped,
            !.firstLost = IF @ = 0 THEN dropped ELSE @]
Terminal(a, v, reason) ==
  LET d == a.data[v]
      room == IF Len(a.outbox) = Capacity THEN Lose(a) ELSE a
      staged == IF a.discarded THEN a ELSE [room EXCEPT !.outbox = Append(@, Len(a.ended) + 1)]
  IN IF d.generation = 0 \/ d.terminal # "none" THEN a
     ELSE [staged EXCEPT !.data[v].terminal = reason, !.active = @ - 1,
           !.ended = Append(@, [voice |-> v, generation |-> d.generation, reason |-> reason])]

Observe(a, v) ==
  IF a.data[v].atEnd THEN Terminal(a, v, "Completed") ELSE a

\* maintain_locked() walks the voices in their order.  The mixer is not
\* under the mutex: a sound of "late" reaches its end after it was observed
\* and before its state is read.
Reclaimable(d) == ~d.held /\ ~Sounding(d)
Visited(b, v, late) ==
  LET seen == Observe(b, v)
      now == IF v \in late THEN [seen EXCEPT !.data[v].atEnd = TRUE] ELSE seen
  IN IF Reclaimable(now.data[v])
     THEN [Terminal(now, v, "Reclaimed") EXCEPT !.voices = RemoveFirst(@, v)] ELSE now
Maintained(a, late) == FoldLeft(LAMBDA b, v : Visited(b, v, late), a, a.voices)
MayEnd(d) == Sounding(d) /\ ~d.waiting /\ ~d.looping
Late(a) == SUBSET {v \in ToSet(a.voices) : MayEnd(a.data[v])}

\* Mutant: only the outcomes so far count.
PermitAfter(a) == Len(a.ended) < MaxSequence

\* TerminalPermit: every admitted generation has a number reserved.
Permit(a) == a.active < MaxSequence - Len(a.ended)

\* stop() and start() of the native sound fail at the mixer's will.
Stopped(a, v) == [a EXCEPT !.data[v].waiting = FALSE]
Changed(a) == audio' = a /\ UNCHANGED <<pump, heard>>
--------------------
\* play and stream: reclaim first; opening the source or starting it may
\* fail, which leaves no more than what was reclaimed.
Play(v, paused, looping) ==
  /\ audio.open /\ audio.data[v].generation = 0
  /\ \E late \in Late(audio) :
     LET a == Maintained(audio, late) IN
     \/ Changed(a)
     \/ /\ Permit(a)
        /\ Changed([a EXCEPT !.voices = Append(@, v), !.active = @ + 1,
               !.data[v] = [Silence EXCEPT !.generation = 1, !.looping = looping, !.held = TRUE,
                                !.requested = IF paused THEN "Paused" ELSE "Playing"]])

\* A control of a voice the application still holds.
Control(v) == audio.open /\ audio.data[v].held

Snapshot(v) == Control(v) /\ Changed(Observe(audio, v))
Pause(v) ==
  /\ Control(v)
  /\ LET a == Observe(audio, v) IN
     \/ Changed(a)
     \/ Sounding(a.data[v]) /\ Changed([Stopped(a, v) EXCEPT !.data[v].requested = "Paused"])
ResumeAfter(v, delayed) ==
  /\ Control(v)
  /\ LET a == Observe(audio, v) IN
     \/ Changed(a)
     \/ /\ PlaybackState(a.data[v]) = "Paused"
        /\ Changed([a EXCEPT !.data[v].requested = "Playing", !.data[v].waiting = delayed])
Stop(v) ==
  /\ Control(v)
  /\ LET a == Observe(audio, v) IN
     \/ Changed(a)
     \/ Changed(Terminal([Stopped(a, v) EXCEPT !.data[v].requested = "Stopped"], v, "Stopped"))

\* Mutant: the new generation takes the place before the old one has its
\* outcome.
ReplacedUntold(a, v) ==
  [a EXCEPT !.data[v] = [Silence EXCEPT !.generation = a.data[v].generation + 1, !.held = TRUE,
                             !.looping = a.data[v].looping, !.requested = "Playing"]]

Replaced(a, v) ==
  [Terminal(a, v, "Replaced") EXCEPT !.active = @ + 1,
      !.data[v] = [Silence EXCEPT !.generation = a.data[v].generation + 1, !.held = TRUE,
                       !.looping = a.data[v].looping, !.requested = "Playing"]]

\* restart(): the replacement is prepared first, so that a refusal leaves
\* the voice as it is; one that does not start leaves it stopped.
Restart(v) ==
  /\ Control(v)
  /\ LET a == Observe(audio, v)
         s == [Stopped(a, v) EXCEPT !.data[v].requested = "Stopped"] IN
     \/ Changed(a)
     \/ /\ a.data[v].generation < MaxGeneration /\ Permit(a)
        /\ Changed(Terminal(s, v, "Stopped")) \/ Changed(Replaced(s, v))
SetLooping(v, looping) ==
  /\ Control(v)
  /\ LET a == Observe(audio, v) IN
     \/ a.data[v].terminal = "Completed" /\ Changed(a)
     \/ Changed([a EXCEPT !.data[v].looping = looping])
Release(v) ==
  /\ audio.data[v].held /\ Changed([audio EXCEPT !.data[v].held = FALSE])

Maintain == audio.open /\ \E late \in Late(audio) : Changed(Maintained(audio, late))
Retired(b, v) == Terminal(Observe(b, v), v, "OutputClosed")
CloseSystem ==
  /\ audio.open
  /\ Changed([FoldLeft(Retired, audio, audio.voices) EXCEPT !.voices = <<>>, !.open = FALSE])
\* ~System closes and drops what was never published; handles may survive.
DestroyAudio ==
  /\ ~audio.open /\ ~audio.discarded
  /\ Changed([audio EXCEPT !.discarded = TRUE, !.outbox = <<>>])

\* The mixer: the clock reaches a scheduled start, or a sound its end.
Mix(v) ==
  /\ audio.open /\ v \in ToSet(audio.voices) /\ Sounding(audio.data[v])
  /\ \/ audio.data[v].waiting /\ Changed([audio EXCEPT !.data[v].waiting = FALSE])
     \/ MayEnd(audio.data[v]) /\ Changed([audio EXCEPT !.data[v].atEnd = TRUE])
--------------------
\* publish_notifications() by its owner, which cannot recurse: it observes
\* the voices and fixes the last outcome it will publish.
PumpBegins ==
  /\ ~audio.discarded /\ ~pump.publishing
  /\ LET a == FoldLeft(Observe, audio, audio.voices) IN
     /\ audio' = a
     /\ pump' = [publishing |-> TRUE, cutoff |-> Len(a.ended)]
  /\ UNCHANGED heard

Exhausted == IF audio.discarded \/ audio.outbox = <<>> THEN TRUE ELSE Head(audio.outbox) > pump.cutoff
PumpNotifies ==
  /\ pump.publishing /\ ~Exhausted
  /\ heard' = Append(heard, [sequence |-> Head(audio.outbox), lost |-> audio.lost,
                           firstLost |-> audio.firstLost, lastLost |-> audio.lastLost])
  /\ audio' = [audio EXCEPT !.outbox = Tail(@)]
  /\ UNCHANGED pump
PumpEnds ==
  /\ pump.publishing /\ Exhausted
  /\ pump' = NoPump /\ UNCHANGED <<audio, heard>>

AudioNext ==
  \/ \E v \in Voices :
     \/ \E paused, looping \in BOOLEAN : Play(v, paused, looping)
     \/ Snapshot(v) \/ Pause(v) \/ Stop(v) \/ Restart(v) \/ Release(v) \/ Mix(v)
     \/ \E yes \in BOOLEAN : ResumeAfter(v, yes) \/ SetLooping(v, yes)
  \/ Maintain \/ CloseSystem \/ DestroyAudio
  \/ PumpBegins \/ PumpNotifies \/ PumpEnds

AudioSpec == AudioInit /\ [][AudioNext]_audioVars
--------------------
LiveVoices == {v \in Voices : audio.data[v].generation > 0 /\ audio.data[v].terminal = "none"}

\* Every generation that was admitted gets exactly one outcome, whichever of
\* stop, restart, the end of the sound, maintenance and close comes first,
\* and a number for it is always left; a voice stopped for a restart that
\* failed has one too.
OneOutcomePerGeneration ==
  /\ \A i, j \in DOMAIN audio.ended : audio.ended[i].voice = audio.ended[j].voice
       /\ audio.ended[i].generation = audio.ended[j].generation => i = j
  /\ \A v \in Voices :
       {audio.ended[i].generation : i \in {k \in DOMAIN audio.ended : audio.ended[k].voice = v}}
         = {g \in 1..audio.data[v].generation : g < audio.data[v].generation \/ v \notin LiveVoices}
  /\ audio.active = Cardinality(LiveVoices)
  /\ Len(audio.ended) + audio.active <= MaxSequence
  /\ \A v \in LiveVoices : audio.open /\ audio.data[v].requested # "Stopped"

\* A subscriber can account for each outcome from the records alone: between
\* two notifications exactly as many outcomes are missing as the count of
\* lost records has grown, none is told twice or out of order, and what is
\* neither told nor pending lies within the range reported as lost.
GapsAreReported ==
  LET n == Len(heard)
      before(i) == IF i = 1 THEN [sequence |-> 0, lost |-> 0] ELSE heard[i - 1]
      last == IF n = 0 THEN [sequence |-> 0, lost |-> 0] ELSE heard[n]
  IN /\ \A i \in 1..n :
          heard[i].sequence - before(i).sequence - 1 = heard[i].lost - before(i).lost
     /\ ~audio.discarded =>
          /\ Len(audio.ended) - last.sequence = Len(audio.outbox) + audio.lost - last.lost
          /\ audio.lost > 0 =>
               \A s \in 1..Len(audio.ended) :
                 (\A i \in 1..n : heard[i].sequence # s) /\ s \notin ToSet(audio.outbox)
                   => s \in audio.firstLost..audio.lastLost

\* A subscriber that counts what it is told and what it is told of as lost
\* knows the fate of every generation.
PlaybackIsReported == OneOutcomePerGeneration /\ GapsAreReported
====================
