-------------------------- MODULE WinapiPrograms --------------------------
(***************************************************************************)
(* The editor with settings (tasks 6-7), the heap manager (task 8-9) and   *)
(* the editor with workers (task 11).  They do not interact: a behaviour   *)
(* starts one of them and runs that one.                                   *)
(***************************************************************************)
EXTENDS HeapManager, Sequences

VARIABLES program     \* the one that is run

VARIABLES text, textChanged, file, broken, epc, i, tokens, w, handles, ready, cleared, chunk, done, wpc

VARIABLES typed, unsaved, saved, boxes, closed, current, tmp, isPreviewChecked, fontSize, alpha, dialogs

windowVars == <<typed, unsaved, saved, boxes, closed, current, tmp, isPreviewChecked, fontSize, alpha, dialogs>>
editorVars == <<text, textChanged, file, broken, epc, i, tokens, w, handles, ready, cleared, chunk, done, wpc>>
allVars == <<program, vars, editorVars, windowVars>>

CONSTANTS N, Words, Dictionary, Texts, Narrow, SmallChunks
Editor == INSTANCE Notepad

\* "wide" is read as a word of the dictionary, "spaced" as two words and "blank" as none; a
\* chunk of four words is too long.
SomeWords == {"aq", "aqaq", "aqaqaq", "x", "wide", "spaced", "blank"}
SomeNarrow == [word \in SomeWords |-> CASE word = "wide" -> <<"aq">>
                                        [] word = "spaced" -> <<"x", "aqaq">>
                                        [] word = "blank" -> <<>>
                                        [] OTHER -> <<word>>]
SomeSmallChunks == UNION {[1 .. n -> SomeWords] : n \in 0 .. 3}

\* No words; eight words as they are read, with a foreign one in every
\* chunk of four workers, and three when they are cleared; a last chunk that is too long.
SomeTexts == {<<>>, <<"x", "aqaqaq", "x", "spaced", "blank", "x", "wide", "x">>,
              [n \in 1 .. 11 |-> "aq"]}

CONSTANTS FontSizes, Alphas, BackgroundColors, FontColors, MaxText, MaxBoxes, MaxDialogs
Window == INSTANCE EditControl WITH text <- typed, textChanged <- unsaved

\* The heap has no large blocks, as in the first test; see HeapOverlap.cfg for the others.
ASSUME ProgramsAssumption == Editor!SizeAssumption /\ Window!PropsAssumption /\ HeapSize <= MediumBorder

AllInit == program \in {"window", "heap", "editor"} /\ Init /\ Editor!Init /\ Window!InitEditor

RunHeap == program = "heap" /\ UNCHANGED <<program, editorVars, windowVars>>
RunEditor == program = "editor" /\ UNCHANGED <<program, vars, windowVars>>

RunWindow == program = "window" /\ UNCHANGED <<program, vars, editorVars>>

AllNext == (RunWindow /\ Window!Next) \/ (RunHeap /\ Next) \/ (RunEditor /\ Editor!Next)

\* As long as a call of Free, or the editor and its workers, can go on, they do.
AllFairSpec == /\ AllInit /\ [][AllNext]_allVars
               /\ WF_allVars(RunHeap /\ FreeStep) /\ WF_allVars(RunEditor /\ Editor!Step)

-----------------------------------------------------------------------------
\* The types of both programs.
ProgramsTypeOK == TypeOK /\ Editor!TypeOK

\* A "clear" that has room for its parts leaves the known words of the text, all of them and
\* in their order.  An editor closed by its cross or its menu without a question has in its
\* file what was typed, unless a save has emptied the file and failed, with a message.
WordsAreKept == Editor!ClearKeepsKnownWords /\ Editor!NothingTypedIsLost /\ Window!NothingTypedIsLost

\* However the settings dialogs are mixed, with no dialog open the settings shown, the settings
\* accepted and those that the next dialog starts from agree; only an OK accepts settings, but
\* for the size that a second dialog takes over from the preview of a first.
SettingsSettle == [][Window!SettingsSettle' /\ Window!OnlyAccepted]_allVars

\* Calls come back: Free from its merging, and "clear" from the workers.
CallsReturn == FreeReturns /\ Editor!ClearReturns
============================================================================
