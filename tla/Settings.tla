------------------------------ MODULE Settings ------------------------------
(***************************************************************************)
(* Language and colour of the app: what the user defaults hold, what the   *)
(* managers have told their observers, and what the settings screen and    *)
(* the language screen on top of it show. A text follows the language, the *)
(* badge of a chat's cell the colour; the avatar in that cell follows      *)
(* nothing.                                                                *)
(*                                                                         *)
(* The language screen reads the stored language once. A tap stores the    *)
(* language and moves its cell to the top, but the list the rows are taken *)
(* from stays as it was, and half a second passes before the screen goes.  *)
(***************************************************************************)
EXTENDS Integers, Sequences, FiniteSets, SequencesExt

CONSTANTS
  Colors,   \* ThemeManager.colors
  default,  \* the first of them
  Labels,   \* views with a translated text (the settings' cells, the profile)
  Rows,     \* cells of the chat list
  none,     \* nothing stored, no view
  MaxTaps   \* bound: taps counted on one language screen

ASSUME ColorsAssumption == default \in Colors /\ none \notin Colors
ASSUME TapsBound == MaxTaps \in Nat \ {0, 1}

Available == <<"en", "ru">>
Langs == ToSet(Available)

ASSUME NoneIsNoLang == none \notin Langs

VARIABLES
  appLang,      \* user defaults: the language, none at first
  primary,      \* user defaults: the colour, none at first
  texts,        \* texts[v]: the language of v's text, none before v is loaded
  badges,       \* badges[r]: the colour of r's unSeenMessagesLabel, none before r is made
  avatars,      \* avatars[r]: the colour of r's avatarImageView
  open,         \* the language screen is on the stack
  currentLang,  \* its view model's copy of the stored language
  languages,    \* its view model's list
  cells,        \* its cells from top to bottom
  popping,      \* a tap has scheduled the return
  taps,         \* history: taps on a lower row since the screen was opened
  picked,       \* SettingsViewModel.primaryColor, none before it is created
  selected,     \* the item the collection view itself takes for selected
  marked        \* the colours whose cells look selected

langVars == <<appLang, texts>>
cellVars == <<badges, avatars>>
colorVars == <<primary, cellVars, picked, selected, marked>>
listVars == <<currentLang, languages, cells>>
vars == <<langVars, colorVars, open, listVars, popping, taps>>

Cell == [lang : Langs, checked : BOOLEAN]

\* What strings are translated to, and what views are coloured with.
Localized == IF appLang = none THEN "en" ELSE appLang
PrimaryColor == IF primary = none THEN default ELSE primary

Unloaded == [v \in Labels |-> none]
Unmade == [r \in Rows |-> none]

Init ==
  /\ appLang = none /\ primary = none
  /\ texts = Unloaded /\ badges = Unmade /\ avatars = Unmade
  /\ open = FALSE /\ currentLang = none /\ languages = <<>> /\ cells = <<>>
  /\ popping = FALSE /\ taps = 0
  /\ picked = none /\ selected = none /\ marked = {}

-----------------------------------------------------------------------------
(* The managers. *)

\* LanguageManager.currentLang is stored first; then every block translates the
\* texts of its view.
Translate(lang) ==
  /\ appLang' = lang
  /\ texts' = [v \in Labels |-> IF texts[v] = none THEN none ELSE lang]

\* A view is created with the text there is, and registers a block.
Load(v) ==
  /\ texts[v] = none
  /\ texts' = [texts EXCEPT ![v] = Localized]
  /\ UNCHANGED <<appLang, colorVars, open, listVars, popping, taps>>

\* ThemeManager.primaryColor is stored first; then every observer is told. The
\* cells of the chat list repaint their badges and nothing else.
Repaint(c) ==
  /\ primary' = c
  /\ badges' = [r \in Rows |-> IF badges[r] = none THEN none ELSE c]
  /\ UNCHANGED avatars

\* Mutant of MakeCell: the badge is left in the default colour.
MakeCellDefault(r) ==
  /\ badges[r] = none
  /\ badges' = [badges EXCEPT ![r] = default]
  /\ avatars' = [avatars EXCEPT ![r] = PrimaryColor]
  /\ UNCHANGED <<langVars, primary, picked, selected, marked, open, listVars, popping, taps>>

\* A cell of the chat list is made: both its parts get the colour there is, and it
\* observes the manager.
MakeCell(r) ==
  /\ badges[r] = none
  /\ badges' = [badges EXCEPT ![r] = PrimaryColor]
  /\ avatars' = [avatars EXCEPT ![r] = PrimaryColor]
  /\ UNCHANGED <<langVars, primary, picked, selected, marked, open, listVars, popping, taps>>

-----------------------------------------------------------------------------
(* The language screen. *)

\* An element is taken out of a list and put in front of the others.
MoveToStart(s, i) == <<s[i]>> \o RemoveAt(s, i)

Index(list, lang) == CHOOSE i \in DOMAIN list : list[i] = lang

\* moveToStartCurrentLang
CurrentFirst(lang) == MoveToStart(Available, Index(Available, lang))

\* Mutant of OpenLanguages: the list keeps its order.
OpenUnsorted ==
  /\ ~open /\ picked # none
  /\ open' = TRUE /\ taps' = 0 /\ popping' = FALSE
  /\ currentLang' = appLang
  /\ IF appLang = none THEN Translate("en") ELSE UNCHANGED langVars
  /\ languages' = Available
  /\ cells' = [i \in DOMAIN Available |->
                 [lang |-> Available[i], checked |-> Available[i] = appLang]]
  /\ UNCHANGED colorVars

\* A view model is created: the default is stored after currentLang was read, so
\* that the first screen of all knows no current language.
OpenLanguages ==
  /\ ~open /\ picked # none
  /\ open' = TRUE /\ taps' = 0 /\ popping' = FALSE
  /\ currentLang' = appLang
  /\ IF appLang = none THEN Translate("en") ELSE UNCHANGED langVars
  /\ languages' = IF appLang = none THEN Available ELSE CurrentFirst(appLang)
  /\ cells' = [i \in DOMAIN Available |->
                 [lang |-> languages'[i], checked |-> languages'[i] = appLang]]
  /\ UNCHANGED colorVars

\* A cell's accessoryType.
Mark(list, i, checked) == [list EXCEPT ![i] = [lang |-> list[i].lang, checked |-> checked]]

\* The cell of the current language loses its mark, the tapped one gets it and
\* moves to the top. Both are found by row, in the list as it was.
CellsAfter(row) ==
  LET unchecked == Mark(cells, Index(languages, currentLang), FALSE)
      checked == Mark(unchecked, row, TRUE)
  IN MoveToStart(checked, row)

\* Mutant of TapRow: the language is compared with the stored one.
TapRowRereads(row) ==
  /\ open /\ row \in DOMAIN languages /\ currentLang # none
  /\ IF languages[row] = appLang THEN UNCHANGED langVars ELSE Translate(languages[row])
  /\ cells' = CellsAfter(row)
  /\ popping' = TRUE
  /\ taps' = IF row = 1 \/ taps = MaxTaps THEN taps ELSE taps + 1
  /\ UNCHANGED <<colorVars, open, currentLang, languages>>

\* didSelectRow: without a current language nothing is done. The current one is
\* not set again.
TapRow(row) ==
  /\ open /\ row \in DOMAIN languages /\ currentLang # none
  /\ IF languages[row] = currentLang THEN UNCHANGED langVars ELSE Translate(languages[row])
  /\ cells' = CellsAfter(row)
  /\ popping' = TRUE
  /\ taps' = IF row = 1 \/ taps = MaxTaps THEN taps ELSE taps + 1
  /\ UNCHANGED <<colorVars, open, currentLang, languages>>

CloseList ==
  /\ open' = FALSE /\ popping' = FALSE /\ taps' = 0
  /\ currentLang' = none /\ languages' = <<>> /\ cells' = <<>>

\* Half a second after a tap, or by the back button.
PopToRoot == open /\ popping /\ CloseList /\ UNCHANGED <<langVars, colorVars>>
Back == open /\ CloseList /\ UNCHANGED <<langVars, colorVars>>

-----------------------------------------------------------------------------
(* The colours of the settings screen. *)

\* The view model reads the colour; the cell of that colour is marked as it is
\* displayed.
OpenSettings ==
  /\ picked = none
  /\ picked' = PrimaryColor
  /\ marked' = {PrimaryColor}
  /\ UNCHANGED <<langVars, primary, cellVars, selected, open, listVars, popping, taps>>

\* A cell is scrolled away and displayed again: the collection view marks its
\* own choice, willDisplay the one of the view model.
Redisplay(c) ==
  /\ picked # none
  /\ marked' = IF c \in {picked, selected} THEN marked \cup {c} ELSE marked \ {c}
  /\ UNCHANGED <<langVars, primary, cellVars, picked, selected, open, listVars, popping, taps>>

\* Mutant of PickColor: the mark of the old colour is left.
PickColorKeepsMark(c) ==
  /\ picked # none /\ ~open
  /\ selected' = c
  /\ marked' = (marked \ {selected}) \cup {c}
  /\ picked' = c
  /\ Repaint(c)
  /\ UNCHANGED <<langVars, open, listVars, popping, taps>>

\* didSelectItem: the collection view has moved its mark to c already; then the
\* cell of the colour so far loses its mark (c's own, if c was the colour), and
\* the colour is set in the view model and in the manager, which tells its observers.
PickColor(c) ==
  /\ picked # none /\ ~open
  /\ selected' = c
  /\ marked' = ((marked \ {selected}) \cup {c}) \ {picked}
  /\ picked' = c
  /\ Repaint(c)
  /\ UNCHANGED <<langVars, open, listVars, popping, taps>>

\* The app is killed and launched: only the user defaults are left.
Restart ==
  /\ texts' = Unloaded /\ badges' = Unmade /\ avatars' = Unmade
  /\ CloseList
  /\ picked' = none /\ selected' = none /\ marked' = {}
  /\ UNCHANGED <<appLang, primary>>

Next ==
  \/ OpenLanguages \/ PopToRoot \/ Back \/ OpenSettings \/ Restart
  \/ \E row \in DOMAIN Available : TapRow(row)
  \/ \E v \in Labels : Load(v)
  \/ \E r \in Rows : MakeCell(r)
  \/ \E c \in Colors : PickColor(c) \/ Redisplay(c)

Spec == Init /\ [][Next]_vars

-----------------------------------------------------------------------------
(* Properties. *)

\* Every value is of its kind.
TypeOK ==
  /\ appLang \in Langs \cup {none} /\ primary \in Colors \cup {none}
  /\ texts \in [Labels -> Langs \cup {none}]
  /\ badges \in [Rows -> Colors \cup {none}] /\ avatars \in [Rows -> Colors \cup {none}]
  /\ open \in BOOLEAN /\ popping \in BOOLEAN /\ taps \in 0..MaxTaps
  /\ currentLang \in Langs \cup {none}
  /\ languages \in IF open THEN [DOMAIN Available -> Langs] ELSE {<<>>}
  /\ cells \in IF open THEN [DOMAIN Available -> Cell] ELSE {<<>>}
  /\ picked \in Colors \cup {none} /\ selected \in Colors \cup {none}
  /\ marked \subseteq Colors

\* Until a second tap on a lower row, which the half second before the return
\* allows, the language screen checks just its top cell, and that is the language
\* stored: rows, cells and view model still agree.
TopIsStored ==
  open /\ currentLang # none /\ taps <= 1 =>
    \A i \in DOMAIN cells :
      /\ cells[i].checked <=> i = 1
      /\ cells[i].checked => cells[i].lang = appLang

\* However the making of views, taps, picks and kills are interleaved, the parts of the
\* views that observe the managers miss no change: texts are in the stored language and
\* badges in the stored colour. The avatar is painted when its cell is made and never
\* again (ChatTableViewCell.swift:36), so that a cell has one colour for sure only
\* until a colour is picked on the settings screen; from then on it may have two.
PartsFollow ==
  /\ \A v \in Labels : texts[v] \in {none, Localized}
  /\ \A r \in Rows : badges[r] \in {none, PrimaryColor}
  /\ selected = none => avatars = badges

\* No colour looks selected but the one in use, though collection view and screen
\* both keep marks of their own.
MarkedIsPrimary == marked \subseteq {PrimaryColor}

\* One language screen changes the language once, away from the one it was opened with:
\* however many rows are tapped before the return and whatever the cells show by then,
\* that language cannot be chosen again, for set() compares with the copy the view model
\* read (LanguagesViewModel.swift:16), which no tap renews.
ChosenOnce == [][open /\ appLang' # appLang => appLang = currentLang]_vars
=============================================================================
