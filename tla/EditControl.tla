---------------------------- MODULE EditControl ----------------------------
(***************************************************************************)
(* The editor of tasks 6-7: its window, the boxes that ask and complain,   *)
(* and its settings dialogs, of which the menu opens as many as one likes. *)
(* A box runs a message loop of its own in the handler that has opened it. *)
(***************************************************************************)
EXTENDS Integers, Sequences, FiniteSets, SequencesExt

CONSTANTS FontSizes, Alphas, BackgroundColors, FontColors,    \* what can be chosen
          MaxText, MaxBoxes, MaxDialogs                       \* bounds of the model

Default == [fontSize |-> 20, alpha |-> 255, backgroundColor |-> "white", fontColor |-> "black"]
WindowProps == [fontSize : FontSizes, alpha : Alphas, backgroundColor : BackgroundColors,
                fontColor : FontColors]

\* What a file holds that was emptied and could not be written.
Broken == -1

PropsAssumption == Default \in WindowProps /\ MaxDialogs \in Nat

VARIABLES text, textChanged,        \* how often the text was typed into
          saved,                    \* the text in the file, or Broken
          boxes,                    \* the boxes open, the last on top of the others
          closed,                   \* "" or why the window was destroyed
          current, tmp, isPreviewChecked,
          fontSize, alpha,          \* of the edit control and of the window
          dialogs                   \* the settings dialogs: what their sliders and check box say

saving == <<text, textChanged, saved, boxes, closed>>
settings == <<current, tmp, isPreviewChecked, fontSize, alpha, dialogs>>
vars == <<saving, settings>>

InitEditor == /\ text = 0 /\ textChanged = FALSE /\ saved = 0 /\ boxes = <<>> /\ closed = ""
              /\ current = Default /\ tmp = Default /\ isPreviewChecked = FALSE
              /\ fontSize = Default.fontSize /\ alpha = Default.alpha
              /\ dialogs = [d \in 1 .. MaxDialogs |-> <<>>]

-----------------------------------------------------------------------------
\* The question and the file dialog belong to the window, which they disable; the
\* complaints belong to nothing.
Enabled == closed = "" /\ \A b \in DOMAIN boxes : boxes[b].kind = "error"
Room == Len(boxes) < MaxBoxes
Top == boxes[Len(boxes)]
Below == Front(boxes)
OnTop(kind) == closed = "" /\ boxes # <<>> /\ Top.kind = kind

\* closing: whether onClose waits for it.
Box(kind, closing) == [kind |-> kind, closing |-> closing]

\* EN_CHANGE.
TypeText == /\ Enabled /\ text < MaxText
            /\ text' = text + 1 /\ textChanged' = TRUE
            /\ UNCHANGED <<saved, boxes, closed, settings>>

\* ID_FILE_SAVE.  The text is read when the dialog opens; the window is disabled until the
\* text is written.
Save == /\ Enabled /\ Room
        /\ boxes' = Append(boxes, Box("file", FALSE))
        /\ UNCHANGED <<text, textChanged, saved, closed, settings>>

Close == /\ Enabled
         /\ \/ textChanged /\ Room /\ boxes' = Append(boxes, Box("ask", TRUE)) /\ closed' = ""
            \/ ~textChanged /\ closed' = "unchanged" /\ boxes' = boxes
         /\ UNCHANGED <<text, textChanged, saved, settings>>

AnswerClose == /\ OnTop("ask")
               /\ \/ boxes' = Append(Below, Box("file", TRUE)) /\ closed' = ""        \* IDYES
                  \/ boxes' = Below /\ closed' = "no"                                \* IDNO
                  \/ boxes' = Below /\ closed' = ""                                  \* IDCANCEL
               /\ UNCHANGED <<text, textChanged, saved, settings>>

\* The end of saveText, and of onClose if that has called it, however it went.
Saved == /\ OnTop("file")
         /\ saved' = text /\ textChanged' = FALSE /\ boxes' = Below
         /\ closed' = IF Top.closing THEN "saved" ELSE ""
         /\ UNCHANGED <<text, settings>>

\* Mutant: the text counts as saved although it could not be written.
NotSavedButCleared == /\ OnTop("file")
                      /\ saved' \in {saved, Broken} /\ textChanged' = FALSE
                      /\ boxes' = Append(Below, Box("error", Top.closing))
                      /\ UNCHANGED <<text, closed, settings>>

\* No file name, a file that cannot be opened, or one that is emptied and not written.
NotSaved == /\ OnTop("file")
            /\ saved' \in {saved, Broken}
            /\ boxes' = Append(Below, Box("error", Top.closing))
            /\ UNCHANGED <<text, textChanged, closed, settings>>

DismissError == /\ OnTop("error")
                /\ boxes' = Below
                /\ closed' = IF Top.closing THEN "unsaved" ELSE ""
                /\ UNCHANGED <<text, textChanged, saved, settings>>

-----------------------------------------------------------------------------
Open == {d \in DOMAIN dialogs : dialogs[d] # <<>>}
Close1(d) == dialogs' = [dialogs EXCEPT ![d] = <<>>]
Show(props) == fontSize' = props.fontSize /\ alpha' = props.alpha

\* viewSettings and onDialogInit: the size is read from the edit control.
ViewSettings == /\ Enabled
                /\ \E d \in DOMAIN dialogs \ Open :
                      dialogs' = [dialogs EXCEPT ![d] = [fontSize |-> fontSize, alpha |-> current.alpha,
                                                         checked |-> isPreviewChecked]]
                /\ current' = [current EXCEPT !.fontSize = fontSize]
                /\ UNCHANGED <<saving, tmp, isPreviewChecked, fontSize, alpha>>

\* onDialogSlider: both positions of this dialog are taken.
Slide(d) == /\ closed = "" /\ d \in Open
            /\ \E size \in FontSizes, a \in Alphas :
                  /\ size = dialogs[d].fontSize \/ a = dialogs[d].alpha
                  /\ dialogs' = [dialogs EXCEPT ![d].fontSize = size, ![d].alpha = a]
                  /\ tmp' = [tmp EXCEPT !.fontSize = size, !.alpha = a]
            /\ IF isPreviewChecked THEN Show(tmp') ELSE UNCHANGED <<fontSize, alpha>>
            /\ UNCHANGED <<saving, current, isPreviewChecked>>

DialogOK(d) == /\ closed = "" /\ d \in Open
               /\ current' = tmp /\ Show(tmp) /\ Close1(d)
               /\ UNCHANGED <<saving, tmp, isPreviewChecked>>

\* Mutant: shows the old settings again and keeps the new ones for the next OK.
DialogCancelKeeps(d) == /\ closed = "" /\ d \in Open
                        /\ Show(current) /\ Close1(d)
                        /\ UNCHANGED <<saving, tmp, current, isPreviewChecked>>

DialogCancel(d) == /\ closed = "" /\ d \in Open
                   /\ tmp' = current /\ Show(current) /\ Close1(d)
                   /\ UNCHANGED <<saving, current, isPreviewChecked>>

DialogCheck(d) == /\ closed = "" /\ d \in Open
                  /\ dialogs' = [dialogs EXCEPT ![d].checked = ~@]
                  /\ isPreviewChecked' = ~dialogs[d].checked
                  /\ Show(IF isPreviewChecked' THEN tmp ELSE current)
                  /\ UNCHANGED <<saving, current, tmp>>

ButtonColor(d) == /\ closed = "" /\ d \in Open
                  /\ \/ \E c \in FontColors : tmp' = [tmp EXCEPT !.fontColor = c]
                     \/ \E c \in BackgroundColors : tmp' = [tmp EXCEPT !.backgroundColor = c]
                  /\ UNCHANGED <<saving, current, isPreviewChecked, fontSize, alpha, dialogs>>

\* onColorEdit: the colors with which the edit control is painted.
ShownColors == LET props == IF isPreviewChecked THEN tmp ELSE current
               IN <<props.backgroundColor, props.fontColor>>

Dialog == \E d \in DOMAIN dialogs : Slide(d) \/ DialogOK(d) \/ DialogCancel(d) \/ DialogCheck(d) \/ ButtonColor(d)

Next == \/ TypeText \/ Save \/ Close \/ AnswerClose \/ Saved \/ NotSaved \/ DismissError
        \/ ViewSettings \/ Dialog

-----------------------------------------------------------------------------
\* A window that closes without a question, or after a save, has the text in the file and not
\* an older one; a save that failed on the way, and said so, may have emptied the file.
NothingTypedIsLost == closed \in {"unchanged", "saved"} \/ ~textChanged => saved \in {text, Broken}

\* When no dialog is open, what is shown, what was accepted and what the next dialog starts
\* from are the same, however many dialogs there were.
SettingsSettle == Open = {} => /\ tmp = current /\ fontSize = current.fontSize /\ alpha = current.alpha
                               /\ ShownColors = <<current.backgroundColor, current.fontColor>>

\* Settings change only with an OK, unless a second dialog is opened and reads the size that
\* a first one previews.
OnlyAccepted == current' # current =>
                   \E d \in Open : \/ DialogOK(d)
                                   \/ ViewSettings /\ isPreviewChecked /\ dialogs[d].fontSize = fontSize
                                   \/ ViewSettings /\ Cardinality(Open) > 1
============================================================================
