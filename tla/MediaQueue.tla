------------------------------ MODULE MediaQueue ------------------------------
(***************************************************************************)
(* SWIR Player: the queue of the Media Core (swir-media-core.js) and the   *)
(* page that plays it (swir-player.html).  The queue is a list of tracks   *)
(* with an index; the page keeps one audio element whose source is that of *)
(* the track it has loaded, and object URLs of the local files, revoked    *)
(* when their track leaves the queue.  Every handler of the page runs to   *)
(* its end; the browser may refuse to start playing.  Volume, position and *)
(* the saved settings are left out.                                        *)
(***************************************************************************)
EXTENDS Integers, Sequences, SequencesExt

CONSTANTS Local,   \* local tracks
          Chime,   \* the system track of the page
          None

MediaAssumption == Chime \notin Local /\ None \notin Local \cup {Chime}

VARIABLES queue,   \* tracks, index (0: none), repeat, shuffle
          loaded,  \* the track the audio element has for a source
          urls,    \* the local tracks whose object URL is live
          playing

mvars == <<queue, loaded, urls, playing>>

REPEAT == <<"off", "all", "one">>
Track  == Local \cup {Chime}

-----------------------------------------------------------------------------
(* The queue.                                                              *)

current(q) == IF q.index \in DOMAIN q.tracks THEN q.tracks[q.index] ELSE None

Place(q, t) == CHOOSE i \in DOMAIN q.tracks : q.tracks[i] = t

\* The first tracks of an empty queue select it; a duplicate id is refused.
Accepts(q, ts) == IsInjective(q.tracks \o ts)
addMany(q, ts) ==
  [q EXCEPT !.tracks = @ \o ts,
            !.index = IF @ = 0 /\ ts # <<>> THEN 1 ELSE @]

select(q, i) == [q EXCEPT !.index = i]

\* The index follows its track; if that is the one removed, the next is
\* selected, or the last.
IndexWithout(q, i) ==
  CASE Len(q.tracks) = 1 -> 0
    [] Len(q.tracks) > 1 /\ i < q.index -> q.index - 1
    [] Len(q.tracks) > 1 /\ i = q.index ->
         IF i < Len(q.tracks) THEN i ELSE Len(q.tracks) - 1
    [] OTHER -> q.index

\* The index after a removal.
IndexAfter(q, i) == IndexWithout(q, i)

remove(q, i) ==
  [q EXCEPT !.tracks = RemoveAt(@, i), !.index = IndexAfter(q, i)]

\* A track is taken out and put in elsewhere; the index follows the current.
move(q, from, to) ==
  LET moved == InsertAt(RemoveAt(q.tracks, from), to, q.tracks[from])
  IN  [q EXCEPT !.tracks = moved,
                !.index = IF current(q) = None THEN 0
                          ELSE Place([tracks |-> moved], current(q))]

cycleRepeat(q) ==
  [q EXCEPT !.repeat = REPEAT[((CHOOSE i \in 1 .. 3 : REPEAT[i] = q.repeat) % 3) + 1]]

\* The places that follow: none at the end of a queue that does not repeat,
\* any other place when shuffled.
Following(q, automatic) ==
  LET n == Len(q.tracks)
  IN  CASE n = 0 -> {}
        [] n > 0 /\ automatic /\ q.repeat = "one" -> {q.index}
        [] n = 1 /\ ~ (automatic /\ q.repeat = "one") ->
             IF automatic /\ q.repeat = "off" THEN {} ELSE {q.index}
        [] n > 1 /\ ~ (automatic /\ q.repeat = "one") /\ q.shuffle ->
             DOMAIN q.tracks \ {q.index}
        [] n > 1 /\ ~ (automatic /\ q.repeat = "one") /\ ~ q.shuffle ->
             IF q.index < n THEN {q.index + 1}
             ELSE IF q.repeat = "all" \/ ~ automatic THEN {1} ELSE {}

\* The place before, from the first to the last; any other when shuffled.
Preceding(q) ==
  IF Len(q.tracks) > 1 /\ q.shuffle THEN Following(q, FALSE)
  ELSE IF q.tracks = <<>> THEN {}
  ELSE {IF q.index > 1 THEN q.index - 1 ELSE Len(q.tracks)}

-----------------------------------------------------------------------------
(* The page.                                                               *)

\* load: the source becomes that of the track; the browser may refuse to play.
load(t, autoplay) ==
  /\ loaded' = t
  /\ playing' \in IF autoplay THEN BOOLEAN ELSE {playing /\ t = loaded}

\* ensureLoaded, for the queue as it has become.
ensureLoaded(autoplay) ==
  IF current(queue') = None THEN loaded' = None /\ playing' = FALSE
  ELSE IF current(queue') # loaded THEN load(current(queue'), autoplay)
  ELSE /\ UNCHANGED loaded
       /\ playing' \in IF autoplay /\ ~ playing THEN BOOLEAN ELSE {playing}

\* Local files join the queue under fresh ids, each with an object URL; they
\* are loaded when they are all there is.
AddFiles(ts) ==
  /\ ts # <<>> /\ Accepts(queue, ts)
  /\ queue' = addMany(queue, ts)
  /\ urls' = urls \cup ToSet(ts)
  /\ IF queue.tracks = <<>> THEN ensureLoaded(FALSE) ELSE UNCHANGED <<loaded, playing>>

Select(i) ==
  /\ queue' = select(queue, i) /\ ensureLoaded(TRUE) /\ UNCHANGED urls

\* A local track is removed by its button; if it was the current one the page
\* goes on with the track that took its place.
RemoveLocal(i) ==
  /\ queue.tracks[i] \in Local
  /\ queue' = remove(queue, i)
  /\ urls' = urls \ {queue.tracks[i]}
  /\ IF current(queue) = queue.tracks[i] THEN ensureLoaded(playing)
     ELSE UNCHANGED <<loaded, playing>>

\* Another client of the core reorders the queue.
Move(from, to) ==
  /\ from # to /\ queue' = move(queue, from, to)
  /\ UNCHANGED <<loaded, urls, playing>>

\* Play and pause, of the button and the media keys.
PlayPause ==
  /\ current(queue) # None /\ UNCHANGED <<queue, urls>>
  /\ IF playing THEN playing' = FALSE /\ UNCHANGED loaded ELSE ensureLoaded(TRUE)

\* next: of the button, the keys, and of a track that ended.
Advance(automatic) ==
  /\ IF Following(queue, automatic) = {}
     THEN playing' = FALSE /\ UNCHANGED <<queue, loaded>>
     ELSE \E i \in Following(queue, automatic) :
            /\ queue' = select(queue, i)
            /\ load(queue.tracks[i], TRUE)
  /\ UNCHANGED urls

Skip  == Advance(FALSE)
Ended == playing /\ Advance(TRUE)

\* Early in a track; later the button only rewinds.
Previous ==
  /\ \E i \in Preceding(queue) :
       queue' = select(queue, i) /\ load(queue.tracks[i], TRUE)
  /\ UNCHANGED urls

ToggleShuffle ==
  /\ queue' = [queue EXCEPT !.shuffle = ~ @] /\ UNCHANGED <<loaded, urls, playing>>
CycleRepeat ==
  /\ queue' = cycleRepeat(queue) /\ UNCHANGED <<loaded, urls, playing>>

\* The local tracks are removed one by one, and what is left, the chime, is selected.
Cleared(q) == [q EXCEPT !.tracks = <<Chime>>, !.index = 1]
ClearLocals ==
  /\ queue' = Cleared(queue) /\ urls' = {} /\ ensureLoaded(FALSE)

MediaInit ==
  /\ \E r \in ToSet(REPEAT), s \in BOOLEAN :
       queue = [tracks |-> <<Chime>>, index |-> 1, repeat |-> r, shuffle |-> s]
  /\ loaded = Chime /\ urls = {} /\ playing = FALSE

MediaNext ==
  \/ \E t, u \in Local : AddFiles(<<t>>) \/ AddFiles(<<t, u>>)
  \/ \E i \in DOMAIN queue.tracks : Select(i) \/ RemoveLocal(i)
  \/ \E i, j \in DOMAIN queue.tracks : Move(i, j)
  \/ PlayPause \/ Skip \/ Ended \/ Previous
  \/ ToggleShuffle \/ CycleRepeat \/ ClearLocals

MediaSpec == MediaInit /\ [][MediaNext]_mvars

-----------------------------------------------------------------------------
\* Whatever is added, moved, removed or skipped, the audio element has the
\* track that the queue calls the current one, and its object URL has not been
\* revoked (swir-media-core.js:108-116, 119-127).
PlaysTheCurrent ==
  loaded = current(queue) /\ (loaded \in Local => loaded \in urls)

-----------------------------------------------------------------------------
\* No track is in the queue twice, the chime is in it, the index is that of a track,
\* which is the one loaded, and the local tracks have their object URLs.
QueueInv ==
  /\ {"tracks", "index"} \subseteq DOMAIN queue
  /\ queue.tracks \in Seq(Track) /\ IsInjective(queue.tracks)
  /\ \E i \in DOMAIN queue.tracks : queue.tracks[i] = Chime
  /\ queue.index \in DOMAIN queue.tracks
  /\ \A i \in DOMAIN queue.tracks : queue.tracks[i] \in Local => queue.tracks[i] \in urls

MediaInv == QueueInv /\ loaded = queue.tracks[queue.index]
=============================================================================
