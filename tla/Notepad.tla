------------------------------ MODULE Notepad ------------------------------
(***************************************************************************)
(* The editor of task 11 (CMyNotepad) and its worker processes (WordsDict).*)
(* "Clear" cuts the text into one chunk for each worker, puts it into the  *)
(* memory shared with that worker and signals its event TextReady; a       *)
(* worker leaves the words of its dictionary in the memory and signals     *)
(* TextCleared.  Both events belong to the worker, which creates them      *)
(* under names made of its process id, and reset themselves when a wait    *)
(* returns.  The editor's handlers run on one thread, one message at a     *)
(* time; onClear waits inside its handler.                                 *)
(*                                                                         *)
(* Texts and chunks are sequences of words.  A text is read character by   *)
(* character as bytes, so a word may be read as another one or, where a    *)
(* character becomes a space, as several words or none.  Where the code    *)
(* writes past the end of its memory the editor goes astray: nothing is    *)
(* said of what it does then.                                              *)
(***************************************************************************)
EXTENDS Integers, Sequences, SequencesExt, FiniteSets

CONSTANTS N,             \* N_OF_PROCESSES
          Words,
          Dictionary,    \* the words a worker keeps
          Texts,         \* the texts that are typed, and found in files
          Narrow,        \* what a word is read as
          SmallChunks    \* the chunks that fit, with their end, into MAPFILEBUFFER bytes

\* The words that stay as they are; no other word comes out of the reading.
Plain == {word \in Words : Narrow[word] = <<word>>}
SizeAssumption == /\ N \in Nat \ {0} /\ <<>> \in Texts /\ Texts \subseteq Seq(Words)
                  /\ Narrow \in [Words -> Seq(Plain)] /\ Dictionary \cap Words \subseteq Plain

VARIABLES text, textChanged,    \* the edit control
          file,                 \* what was saved or opened last
          broken,               \* the file was emptied and could not be written
          epc,                  \* the editor
          i, tokens, w,         \* onClear: the loop index, the words read, wordsInParts
          handles,              \* the workers whose events are open (not NULL)
          ready, cleared,       \* the workers whose events are set
          chunk,                \* the mapped files
          done,                 \* ready1 .. ready4
          wpc                   \* the workers

vars == <<text, textChanged, file, broken, epc, i, tokens, w, handles, ready, cleared, chunk, done, wpc>>
edited == <<text, textChanged, file, broken>>
clearing == <<i, tokens, w, handles, ready, cleared, chunk, done>>

Worker == 1..N
Read(t) == FlattenSeq([n \in DOMAIN t |-> Narrow[t[n]]])
Foreign(word) == word \notin Dictionary
Keep(kept, word) == IF Foreign(word) THEN kept ELSE Append(kept, word)
Known(t) == LET known[n \in 0 .. Len(t)] == IF n = 0 THEN <<>> ELSE Keep(known[n - 1], t[n])
            IN known[Len(t)]

\* procsInit has created the processes and the shared memory.
Init == /\ text = <<>> /\ textChanged = FALSE /\ file = <<>> /\ broken = FALSE
        /\ epc = "idle" /\ i = 1 /\ tokens = <<>> /\ w = 0
        /\ handles = {} /\ ready = {} /\ cleared = {} /\ done = {}
        /\ chunk = [k \in Worker |-> <<>>]
        /\ wpc = [k \in Worker |-> "started"]

-----------------------------------------------------------------------------
(* The handlers of the editor but for onClear. *)

\* EN_CHANGE.
Type(t) == /\ epc = "idle"
           /\ text' = t /\ textChanged' = TRUE
           /\ UNCHANGED <<file, broken, epc, wpc, clearing>>

\* The text is written; or the dialog is cancelled or the file cannot be opened; or the
\* file, which opening has emptied, cannot be written.
SaveText == \/ file' = text /\ textChanged' = FALSE /\ broken' = FALSE
            \/ UNCHANGED <<file, textChanged, broken>>
            \/ file' = <<>> /\ broken' = TRUE /\ UNCHANGED textChanged
Save == /\ epc = "idle" /\ SaveText
        /\ UNCHANGED <<text, epc, wpc, clearing>>

\* What was typed since the last save is replaced without a question.
OpenFile(t) == /\ epc = "idle"
               /\ text' = t /\ file' = t /\ textChanged' = FALSE /\ broken' = FALSE
               /\ UNCHANGED <<epc, wpc, clearing>>

\* WM_CLOSE and Exit: a text that was changed is asked about; after YES the window
\* goes whether the text could be saved or not.
Close == /\ epc = "idle"
         /\ IF textChanged
            THEN \/ SaveText /\ epc' = "closed"                              \* IDYES
                 \/ epc' = "closed" /\ UNCHANGED <<file, textChanged, broken>>       \* IDNO
                 \/ UNCHANGED <<epc, file, textChanged, broken>>             \* IDCANCEL
            ELSE epc' = "closed unasked" /\ UNCHANGED <<file, textChanged, broken>>
         /\ UNCHANGED <<text, wpc, clearing>>

\* The accelerator of IDCLOSE (Ctrl+Q) goes straight to onDestroy, and asks nothing.
Quit == /\ epc = "idle" /\ epc' = "quit"
        /\ UNCHANGED <<edited, wpc, clearing>>

-----------------------------------------------------------------------------
(* onClear. *)

Clear == /\ epc = "idle"
         /\ epc' = "opening" /\ i' = 1
         /\ UNCHANGED <<edited, tokens, w, handles, ready, cleared, chunk, done, wpc>>

\* OpenEvent gives NULL for a worker that has not created its events yet.  A handle
\* that was opened earlier keeps the events of a dead worker.
Created == {k \in Worker : wpc[k] \notin {"started", "gone"}} \cup handles

\* The buffer for the text has no room for its end, which is written past it.
OpenEvents ==
    /\ epc = "opening"
    /\ handles' = IF i \in Created THEN handles \cup {i} ELSE handles \ {i}
    /\ IF i < N THEN i' = i + 1 /\ UNCHANGED <<epc, tokens, w, done>>
       ELSE IF text = <<>> THEN epc' = "idle" /\ i' = 1 /\ UNCHANGED <<tokens, w, done>>
       ELSE /\ epc' \in {"sending", "astray"} /\ i' = 1
            /\ tokens' = Read(text) /\ w' = Len(tokens') \div N /\ done' = {}
    /\ UNCHANGED <<edited, ready, cleared, chunk, wpc>>

\* Mutant: every chunk has w words.
ChunkOfEqualLength(k) == SubSeq(tokens, (k - 1) * w + 1, k * w)

\* Counted from 1: the first chunk has the words 1 .. w + 1, each next one w words, the
\* last one the rest.
Chunk(k) == LET after == IF k = 1 THEN 0 ELSE (k - 1) * w + 1
                upto == IF k = N \/ tokens = <<>> THEN Len(tokens) ELSE k * w + 1
            IN SubSeq(tokens, after + 1, upto)

\* Mutant: the loop has one turn more.
SendPastTheLast == /\ epc = "sending" /\ i <= N
                   /\ chunk' = [chunk EXCEPT ![i] = Chunk(i)]
                   /\ ready' = IF i \in handles THEN ready \cup {i} ELSE ready
                   /\ i' = i + 1
                   /\ UNCHANGED <<edited, epc, tokens, w, handles, cleared, done, wpc>>

\* The memory is cleared and filled, with a chunk of any length; SetEvent does nothing for a
\* null handle.
SendChunk == /\ epc = "sending"
             /\ \/ /\ Chunk(i) \in SmallChunks
                   /\ chunk' = [chunk EXCEPT ![i] = Chunk(i)]
                   /\ ready' = IF i \in handles THEN ready \cup {i} ELSE ready
                   /\ IF i < N THEN i' = i + 1 /\ UNCHANGED epc
                      ELSE i' = 1 /\ epc' = "waiting"
                \/ /\ Chunk(i) \notin SmallChunks
                   /\ epc' = "astray" /\ UNCHANGED <<chunk, ready, i>>
             /\ UNCHANGED <<edited, tokens, w, handles, cleared, done, wpc>>

\* WaitForMultipleObjects takes the first event that is set.  With a null handle among
\* the N it fails at once, and the loop spins.
WaitAny == /\ epc = "waiting" /\ handles = Worker
           /\ \E k \in cleared : /\ \A l \in cleared : k <= l
                                 /\ cleared' = cleared \ {k}
                                 /\ done' = done \cup {k}
           /\ epc' = IF done' = Worker THEN "joining" ELSE "waiting"
           /\ UNCHANGED <<edited, i, tokens, w, handles, ready, chunk, wpc>>

\* The text is set without EN_CHANGE (the control has ES_MULTILINE).
Join == /\ epc = "joining"
        /\ text' = FlattenSeq(chunk)
        /\ epc' = "idle" /\ tokens' = <<>> /\ w' = 0 /\ done' = {}
        /\ UNCHANGED <<textChanged, file, broken, wpc, i, handles, ready, cleared, chunk>>

EditorStep == OpenEvents \/ SendChunk \/ WaitAny \/ Join

-----------------------------------------------------------------------------
(* A worker. *)

CreateEvents(k) == /\ wpc[k] = "started"
                   /\ wpc' = [wpc EXCEPT ![k] = "waiting"]
                   /\ UNCHANGED <<edited, epc, clearing>>

\* Nobody sets the event Terminate.
WaitReady(k) == /\ wpc[k] = "waiting" /\ k \in ready
                /\ ready' = ready \ {k}
                /\ wpc' = [wpc EXCEPT ![k] = "reading"]
                /\ UNCHANGED <<edited, epc, i, tokens, w, handles, cleared, chunk, done>>

\* The words are read once more.  The last space becomes the end of the string, so no word
\* is added to the next.
ClearForeignWords(k) == /\ wpc[k] = "reading"
                        /\ chunk' = [chunk EXCEPT ![k] = Known(Read(@))]
                        /\ wpc' = [wpc EXCEPT ![k] = "ready"]
                        /\ UNCHANGED <<edited, epc, i, tokens, w, handles, ready, cleared, done>>

\* Mutant: the worker signals the event it waits for itself.
SetReadyAgain(k) == /\ wpc[k] = "ready"
                    /\ ready' = ready \cup {k}
                    /\ wpc' = [wpc EXCEPT ![k] = "waiting"]
                    /\ UNCHANGED <<edited, epc, i, tokens, w, handles, cleared, chunk, done>>

SetCleared(k) == /\ wpc[k] = "ready"
                 /\ cleared' = cleared \cup {k}
                 /\ wpc' = [wpc EXCEPT ![k] = "waiting"]
                 /\ UNCHANGED <<edited, epc, i, tokens, w, handles, ready, chunk, done>>

WorkerStep(k) == CreateEvents(k) \/ WaitReady(k) \/ ClearForeignWords(k) \/ SetCleared(k)

\* Somebody closes the console of a worker.
Kill(k) == /\ wpc[k] # "gone" /\ \A l \in Worker : wpc[l] # "gone"
           /\ wpc' = [wpc EXCEPT ![k] = "gone"]
           /\ UNCHANGED <<edited, epc, clearing>>

Step == EditorStep \/ \E k \in Worker : WorkerStep(k)
User == \/ \E t \in Texts : Type(t) \/ OpenFile(t)
        \/ Save \/ Close \/ Quit \/ Clear

Next == Step \/ User \/ \E k \in Worker : Kill(k)
FairSpec == Init /\ [][Next]_vars /\ WF_vars(Step)

-----------------------------------------------------------------------------
EditorStates == {"idle", "opening", "sending", "waiting", "joining",
                 "closed", "closed unasked", "quit", "astray"}
WorkerStates == {"started", "waiting", "reading", "ready", "gone"}
TypeOK == /\ textChanged \in BOOLEAN /\ broken \in BOOLEAN /\ epc \in EditorStates
          /\ i \in Worker /\ w \in Nat
          /\ handles \cup ready \cup cleared \cup done \subseteq Worker
          /\ DOMAIN chunk = Worker /\ wpc \in [Worker -> WorkerStates]

\* When the parts are put together every worker has done its own and nobody's words
\* are lost, doubled or moved: the new text is the known words of the old one, as the old
\* one is read.  (A "clear" whose parts fit into the shared memory; others go astray.)
ClearKeepsKnownWords == epc = "joining" => FlattenSeq(chunk) = Known(Read(text))

\* WM_CLOSE or Exit closes the editor without a question only if nothing was typed that is
\* not in the file: only foreign words can differ, which "clear" takes away without a mark.
\* The exceptions are a file that a save has emptied and, with a message, failed to write
\* (then the mark, if it was taken away before, does not come back), and Ctrl+Q.
NothingTypedIsLost == epc = "closed unasked" /\ ~broken => Known(Read(text)) = Known(Read(file))

\* The editor comes back from a "clear" that found the events of all the workers, as
\* long as nobody kills a worker.
AllOpened == epc = "waiting" /\ handles = Worker
ClearReturns == AllOpened ~> (epc = "idle" \/ \E k \in Worker : wpc[k] = "gone")
============================================================================
