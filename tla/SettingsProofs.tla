--------------------------- MODULE SettingsProofs ---------------------------
(***************************************************************************)
(* Languages and colours, for any colours and views: type correctness,     *)
(* TopIsStored, PartsFollow, MarkedIsPrimary and ChosenOnce. The language  *)
(* screen's part of the invariant says that its list starts with the       *)
(* language it was opened with, and what one tap makes of the cells; the   *)
(* second tap breaks the cells and not the list.                           *)
(***************************************************************************)
EXTENDS Settings, SequenceTheorems, TLAPS

\* The list is one of the two orders, and starts with the language known.
ListOrder ==
  open => /\ languages \in {<<"en", "ru">>, <<"ru", "en">>}
          /\ currentLang # none => languages[1] = currentLang /\ appLang # none

\* Before the first tap on the lower row the cells are as the list; after it they
\* have changed places.
CellOrder ==
  open /\ currentLang # none =>
    /\ taps = 0 =>
         /\ appLang = currentLang
         /\ cells = <<[lang |-> languages[1], checked |-> TRUE],
                      [lang |-> languages[2], checked |-> FALSE]>>
    /\ taps = 1 =>
         /\ appLang = languages[2]
         /\ cells = <<[lang |-> languages[2], checked |-> TRUE],
                      [lang |-> languages[1], checked |-> FALSE]>>

\* The view model has the stored colour, and no other cell bears a mark.
Marks ==
  /\ picked # none => picked = PrimaryColor
  /\ selected \in {none, picked}
  /\ marked \subseteq {picked} \ {none}

IInv == TypeOK /\ ListOrder /\ CellOrder /\ PartsFollow /\ Marks

-----------------------------------------------------------------------------
(* Facts about the two rows. *)

LEMMA TwoLangs == Langs = {"en", "ru"} /\ DOMAIN Available = {1, 2} /\ Len(Available) = 2
BY DEF Langs, Available, ToSet

LEMMA PairIs ==
  ASSUME NEW S, NEW s \in Seq(S), Len(s) = 2
  PROVE  s = <<s[1], s[2]>>
<1>1. s[1] \in S /\ s[2] \in S
  <2>1. 1 \in 1..Len(s) /\ 2 \in 1..Len(s)
    OBVIOUS
  <2>2. QED
    BY <2>1, ElementOfSeq
<1>2. <<s[1], s[2]>> \in Seq(S) /\ Len(<<s[1], s[2]>>) = 2
  BY <1>1
<1>3. \A i \in 1..Len(s) : s[i] = <<s[1], s[2]>>[i]
  OBVIOUS
<1>4. QED
  BY <1>2, <1>3, SeqEqual

LEMMA PairKind ==
  ASSUME NEW S, NEW a \in S, NEW b \in S
  PROVE  <<a, b>> \in [{1, 2} -> S]
<1>1. <<a, b>> \in [1..2 -> S]
  OBVIOUS
<1>2. 1..2 = {1, 2}
  OBVIOUS
<1>3. QED
  BY <1>1, <1>2

LEMMA PairFunction ==
  ASSUME NEW S, NEW f \in [{1, 2} -> S]
  PROVE  f = <<f[1], f[2]>>
<1> DEFINE g == <<f[1], f[2]>>
<1>1. g \in [{1, 2} -> S]
  BY PairKind
<1>2. g[1] = f[1] /\ g[2] = f[2]
  OBVIOUS
<1> HIDE DEF g
<1>3. \A i \in {1, 2} : f[i] = g[i]
  BY <1>2
<1>4. f = g
  BY <1>1, <1>3
<1>5. QED
  BY <1>4 DEF g

\* A pair with one of its elements moved to its start.
LEMMA MovedPair ==
  ASSUME NEW a, NEW b
  PROVE  /\ MoveToStart(<<a, b>>, 1) = <<a, b>>
         /\ MoveToStart(<<a, b>>, 2) = <<b, a>>
<1> DEFINE p == <<a, b>>
           S == {a, b}
<1>1. p \in Seq(S) /\ Len(p) = 2 /\ p[1] = a /\ p[2] = b /\ a \in S /\ b \in S
  OBVIOUS
<1> HIDE DEF p, S
<1>2. RemoveAt(p, 1) \in Seq(S) /\ Len(RemoveAt(p, 1)) = 1 /\ RemoveAt(p, 1)[1] = b
  <2>1. SubSeq(p, 1, 0) = <<>>
    BY SubSeqEmpty
  <2>2. \A i \in 2..2 : p[i] \in S
    <3>1. \A i \in 2..2 : i = 2
      OBVIOUS
    <3>2. QED
      BY <1>1, <3>1
  <2>3. SubSeq(p, 2, 2) \in Seq(S) /\ Len(SubSeq(p, 2, 2)) = 1 /\ SubSeq(p, 2, 2)[1] = b
    BY <1>1, <2>2, SubSeqProperties
  <2>4. RemoveAt(p, 1) = SubSeq(p, 1, 0) \o SubSeq(p, 2, 2)
    BY <1>1 DEF RemoveAt
  <2>5. RemoveAt(p, 1) = SubSeq(p, 2, 2)
    BY <2>1, <2>3, <2>4, ConcatEmptySeq
  <2>6. QED
    BY <2>3, <2>5
<1>3. RemoveAt(p, 2) \in Seq(S) /\ Len(RemoveAt(p, 2)) = 1 /\ RemoveAt(p, 2)[1] = a
  <2>1. SubSeq(p, 3, 2) = <<>>
    BY SubSeqEmpty
  <2>2. \A i \in 1..1 : p[i] \in S
    <3>1. \A i \in 1..1 : i = 1
      OBVIOUS
    <3>2. QED
      BY <1>1, <3>1
  <2>3. SubSeq(p, 1, 1) \in Seq(S) /\ Len(SubSeq(p, 1, 1)) = 1 /\ SubSeq(p, 1, 1)[1] = a
    BY <1>1, <2>2, SubSeqProperties
  <2>4. RemoveAt(p, 2) = SubSeq(p, 1, 1) \o SubSeq(p, 3, 2)
    BY <1>1 DEF RemoveAt
  <2>5. RemoveAt(p, 2) = SubSeq(p, 1, 1)
    BY <2>1, <2>3, <2>4, ConcatEmptySeq
  <2>6. QED
    BY <2>3, <2>5
<1>4. /\ <<a>> \in Seq(S) /\ <<b>> \in Seq(S) /\ <<a>>[1] = a /\ <<b>>[1] = b
      /\ Len(<<a>>) = 1 /\ Len(<<b>>) = 1
  BY DEF S
<1>5. /\ MoveToStart(p, 1) \in Seq(S) /\ Len(MoveToStart(p, 1)) = 2
      /\ MoveToStart(p, 1)[1] = a /\ MoveToStart(p, 1)[2] = b
  BY <1>1, <1>2, <1>4, ConcatProperties DEF MoveToStart
<1>6. /\ MoveToStart(p, 2) \in Seq(S) /\ Len(MoveToStart(p, 2)) = 2
      /\ MoveToStart(p, 2)[1] = b /\ MoveToStart(p, 2)[2] = a
  BY <1>1, <1>3, <1>4, ConcatProperties DEF MoveToStart
<1>7. QED
  BY <1>5, <1>6, PairIs DEF p

LEMMA IndexInPair ==
  ASSUME NEW a, NEW b, a # b
  PROVE  Index(<<a, b>>, a) = 1 /\ Index(<<a, b>>, b) = 2
BY DEF Index

LEMMA CurrentInFront == CurrentFirst("en") = <<"en", "ru">> /\ CurrentFirst("ru") = <<"ru", "en">>
BY IndexInPair, MovedPair DEF CurrentFirst, Available

-----------------------------------------------------------------------------
(* The invariant. *)

LEMMA InvInit == Init => IInv
<1> SUFFICES ASSUME Init
             PROVE  IInv
  OBVIOUS
<1>1. TypeOK
  <2>1. languages \in IF open THEN [DOMAIN Available -> Langs] ELSE {<<>>}
    BY DEF Init
  <2>2. cells \in IF open THEN [DOMAIN Available -> Cell] ELSE {<<>>}
    BY DEF Init
  <2>3. /\ texts \in [Labels -> Langs \cup {none}]
        /\ badges \in [Rows -> Colors \cup {none}] /\ avatars \in [Rows -> Colors \cup {none}]
    BY DEF Init, Unloaded, Unmade
  <2>4. taps \in 0..MaxTaps
    BY TapsBound DEF Init
  <2>5. QED
    BY <2>1, <2>2, <2>3, <2>4 DEF Init, TypeOK
<1>2. ListOrder /\ CellOrder
  BY DEF Init, ListOrder, CellOrder
<1>3. PartsFollow
  BY DEF Init, PartsFollow, Unloaded, Unmade
<1>4. Marks
  BY DEF Init, Marks
<1>5. QED
  BY <1>1, <1>2, <1>3, <1>4 DEF IInv

\* A new language reaches all views that are loaded.
LEMMA TranslateKeeps ==
  ASSUME TypeOK, PartsFollow, NEW l \in Langs, Translate(l),
         UNCHANGED <<primary, cellVars, selected>>
  PROVE  /\ appLang' = l /\ texts' \in [Labels -> Langs \cup {none}]
         /\ PartsFollow'
BY NoneIsNoLang DEF TypeOK, PartsFollow, Translate, Localized, PrimaryColor, cellVars

LEMMA InvOpenLanguages ==
  ASSUME IInv, OpenLanguages
  PROVE  IInv'
<1> USE DEF IInv
<1>1. languages' \in {<<"en", "ru">>, <<"ru", "en">>}
  BY CurrentInFront, TwoLangs DEF OpenLanguages, TypeOK, Available
<1>2. appLang \in {none, "en", "ru"} /\ none \notin {"en", "ru"} /\ Available = <<"en", "ru">>
  BY TwoLangs, NoneIsNoLang DEF TypeOK, Available
<1>3. appLang # none => languages'[1] = appLang
  BY CurrentInFront, <1>2 DEF OpenLanguages
<1>4. cells' = <<[lang |-> languages'[1], checked |-> languages'[1] = appLang],
                 [lang |-> languages'[2], checked |-> languages'[2] = appLang]>>
  BY <1>2 DEF OpenLanguages
<1>5. languages' \in [{1, 2} -> Langs] /\ cells' \in [{1, 2} -> Cell]
  <2>1. languages'[1] \in Langs /\ languages'[2] \in Langs
    BY <1>1, TwoLangs
  <2>2. \A l \in Langs, x \in BOOLEAN : [lang |-> l, checked |-> x] \in Cell
    BY DEF Cell
  <2>3. /\ [lang |-> languages'[1], checked |-> languages'[1] = appLang] \in Cell
        /\ [lang |-> languages'[2], checked |-> languages'[2] = appLang] \in Cell
    BY <2>1, <2>2
  <2>4. QED
    BY <2>3, <1>1, <1>4, TwoLangs, PairKind
<1>6. /\ appLang' \in Langs /\ texts' \in [Labels -> Langs \cup {none}]
      /\ appLang # none => appLang' = appLang
      /\ PartsFollow'
  <2>1. CASE appLang = none
    <3>1. Translate("en") /\ UNCHANGED <<primary, cellVars, selected>>
      BY <2>1 DEF OpenLanguages, colorVars
    <3>2. QED
      BY <2>1, <3>1, TwoLangs, TranslateKeeps
  <2>2. CASE appLang # none
    BY <2>2, <1>2, TwoLangs
       DEF OpenLanguages, colorVars, cellVars, langVars, TypeOK, PartsFollow, Localized,
           PrimaryColor
  <2>3. QED
    BY <2>1, <2>2
<1>7. TypeOK'
  <2>1. /\ open' = TRUE /\ popping' = FALSE /\ taps' = 0 /\ currentLang' = appLang
        /\ UNCHANGED <<primary, cellVars, picked, selected, marked>>
    BY DEF OpenLanguages, colorVars
  <2>2. taps' \in 0..MaxTaps
    BY <2>1, TapsBound
  <2>3. DOMAIN Available = {1, 2}
    BY TwoLangs
  <2>4. QED
    BY <2>1, <2>2, <2>3, <1>5, <1>6 DEF TypeOK, cellVars
<1>8. ListOrder'
  BY <1>1, <1>3, <1>6, NoneIsNoLang DEF OpenLanguages, ListOrder
<1>9. CellOrder'
  <2>1. SUFFICES ASSUME appLang # none
                 PROVE  CellOrder'
    BY DEF OpenLanguages, CellOrder
  <2>2. languages'[2] # appLang
    BY <2>1, <1>1, <1>3
  <2>3. (languages'[1] = appLang) = TRUE /\ (languages'[2] = appLang) = FALSE
    BY <2>1, <2>2, <1>3
  <2>4. QED
    BY <2>1, <2>3, <1>4, <1>6 DEF OpenLanguages, CellOrder
<1>10. Marks'
  BY DEF OpenLanguages, Marks, colorVars, PrimaryColor
<1>11. QED
  BY <1>6, <1>7, <1>8, <1>9, <1>10

\* The tap on the current language only checks it again; the one on the other row
\* makes the cells change places.
LEMMA TappedCells ==
  ASSUME NEW row \in {1, 2}, open, languages \in {<<"en", "ru">>, <<"ru", "en">>},
         currentLang = languages[1], cells \in [{1, 2} -> Cell]
  PROVE  CellsAfter(row) =
           IF row = 1
           THEN <<[lang |-> cells[1].lang, checked |-> TRUE], cells[2]>>
           ELSE <<[lang |-> cells[2].lang, checked |-> TRUE],
                  [lang |-> cells[1].lang, checked |-> FALSE]>>
<1> DEFINE one == Mark(cells, 1, FALSE)
           two == Mark(one, row, TRUE)
<1>1. Index(languages, currentLang) = 1
  BY IndexInPair
<1>2. CellsAfter(row) = MoveToStart(two, row)
  BY <1>1 DEF CellsAfter
<1>3. cells[1] \in Cell /\ cells[2] \in Cell
  OBVIOUS
<1>4. one \in [{1, 2} -> Cell]
  BY <1>3 DEF Cell, Mark
<1>5. one[1] = [lang |-> cells[1].lang, checked |-> FALSE] /\ one[2] = cells[2]
  BY DEF Mark
<1>6. two \in [{1, 2} -> Cell]
  <2> HIDE DEF one
  <2>1. [lang |-> one[row].lang, checked |-> TRUE] \in Cell
    BY <1>4 DEF Cell
  <2>2. QED
    BY <2>1, <1>4 DEF Mark
<1>7. /\ row = 1 => two[1] = [lang |-> cells[1].lang, checked |-> TRUE] /\ two[2] = cells[2]
      /\ row = 2 => /\ two[1] = [lang |-> cells[1].lang, checked |-> FALSE]
                    /\ two[2] = [lang |-> cells[2].lang, checked |-> TRUE]
  <2> HIDE DEF one
  <2>1. row = 1 => two[1] = [lang |-> one[1].lang, checked |-> TRUE] /\ two[2] = one[2]
    BY <1>4 DEF Mark
  <2>2. row = 2 => two[1] = one[1] /\ two[2] = [lang |-> one[2].lang, checked |-> TRUE]
    BY <1>4 DEF Mark
  <2>3. one[1].lang = cells[1].lang /\ one[2].lang = cells[2].lang
    BY <1>5
  <2>4. QED
    BY <2>1, <2>2, <2>3, <1>5
<1> HIDE DEF one, two
<1>8. two = <<two[1], two[2]>>
  BY <1>6, PairFunction
<1>9. /\ MoveToStart(two, 1) = <<two[1], two[2]>>
      /\ MoveToStart(two, 2) = <<two[2], two[1]>>
  BY <1>8, MovedPair
<1>10. QED
  BY <1>2, <1>7, <1>9

LEMMA InvTapRow ==
  ASSUME IInv, NEW row \in DOMAIN Available, TapRow(row)
  PROVE  IInv'
<1> USE DEF IInv
<1>1. /\ open /\ row \in {1, 2} /\ currentLang # none
      /\ languages \in {<<"en", "ru">>, <<"ru", "en">>} /\ currentLang = languages[1]
      /\ cells \in [{1, 2} -> Cell]
  BY TwoLangs DEF TapRow, ListOrder, TypeOK
<1>2. /\ UNCHANGED <<primary, cellVars, picked, selected, marked, open, currentLang, languages>>
      /\ popping' = TRUE
      /\ taps' = IF row = 1 \/ taps = MaxTaps THEN taps ELSE taps + 1
  BY DEF TapRow, colorVars
<1>3. CellsAfter(row) =
        IF row = 1
        THEN <<[lang |-> cells[1].lang, checked |-> TRUE], cells[2]>>
        ELSE <<[lang |-> cells[2].lang, checked |-> TRUE],
               [lang |-> cells[1].lang, checked |-> FALSE]>>
  BY <1>1, TappedCells
<1>4. cells' \in [{1, 2} -> Cell]
  <2>1. cells[1] \in Cell /\ cells[2] \in Cell
    BY <1>1
  <2>2. /\ [lang |-> cells[1].lang, checked |-> TRUE] \in Cell
        /\ [lang |-> cells[2].lang, checked |-> TRUE] \in Cell
        /\ [lang |-> cells[1].lang, checked |-> FALSE] \in Cell
    BY <2>1 DEF Cell
  <2>3. cells' = CellsAfter(row)
    BY DEF TapRow
  <2>4. CASE row = 1
    <3>1. cells' = <<[lang |-> cells[1].lang, checked |-> TRUE], cells[2]>>
      BY <2>3, <2>4, <1>3
    <3>2. QED
      BY <2>1, <2>2, <3>1, PairKind
  <2>5. CASE row = 2
    <3>1. cells' = <<[lang |-> cells[2].lang, checked |-> TRUE],
                     [lang |-> cells[1].lang, checked |-> FALSE]>>
      BY <2>3, <2>5, <1>3
    <3>2. QED
      BY <2>1, <2>2, <3>1, PairKind
  <2>6. QED
    BY <2>4, <2>5, <1>1
<1>5. languages[row] \in Langs /\ languages[1] # languages[2]
  BY <1>1, TwoLangs
<1>6. /\ appLang' \in Langs /\ texts' \in [Labels -> Langs \cup {none}]
      /\ appLang' = IF row = 1 THEN appLang ELSE languages[2]
      /\ PartsFollow'
  <2>1. CASE row = 1
    <3>1. UNCHANGED <<appLang, texts>>
      BY <2>1, <1>1 DEF TapRow, langVars
    <3>2. appLang # none
      BY <1>1 DEF ListOrder
    <3>3. QED
      BY <2>1, <3>1, <3>2, <1>2 DEF TypeOK, PartsFollow, Localized, PrimaryColor, cellVars
  <2>2. CASE row = 2
    <3>1. Translate(languages[2])
      BY <2>2, <1>1, <1>5 DEF TapRow
    <3>2. QED
      BY <2>2, <3>1, <1>2, <1>5, TranslateKeeps
  <2>3. QED
    BY <1>1, <2>1, <2>2
<1>7. TypeOK'
  <2>1. taps' \in 0..MaxTaps
    BY <1>2, TapsBound DEF TypeOK
  <2>2. QED
    BY <2>1, <1>1, <1>2, <1>4, <1>6, TwoLangs DEF TypeOK, cellVars
<1>8. ListOrder'
  BY <1>1, <1>2, <1>6, NoneIsNoLang DEF ListOrder
<1>9. CellOrder'
  <2>1. taps \in Nat
    BY TapsBound DEF TypeOK
  <2>5. ASSUME taps = 0
        PROVE  /\ appLang = currentLang /\ cells[1].lang = languages[1]
               /\ cells[2] = [lang |-> languages[2], checked |-> FALSE]
               /\ cells[2].lang = languages[2]
    BY <2>5, <1>1 DEF CellOrder
  <2>6. ASSUME taps = 1
        PROVE  /\ appLang = languages[2] /\ cells[1].lang = languages[2]
               /\ cells[2] = [lang |-> languages[1], checked |-> FALSE]
    BY <2>6, <1>1 DEF CellOrder
  <2>2. CASE row = 1
    <3>1. taps' = taps /\ appLang' = appLang
      BY <2>2, <1>2, <1>6
    <3>2. cells' = <<[lang |-> cells[1].lang, checked |-> TRUE], cells[2]>>
      BY <2>2, <1>3 DEF TapRow
    <3>3. ASSUME taps = 0
          PROVE  /\ appLang = currentLang
                 /\ cells' = <<[lang |-> languages[1], checked |-> TRUE],
                              [lang |-> languages[2], checked |-> FALSE]>>
      BY <3>2, <3>3, <2>5
    <3>4. ASSUME taps = 1
          PROVE  /\ appLang = languages[2]
                 /\ cells' = <<[lang |-> languages[2], checked |-> TRUE],
                              [lang |-> languages[1], checked |-> FALSE]>>
      BY <3>2, <3>4, <2>6
    <3>5. QED
      BY <3>1, <3>3, <3>4, <1>2 DEF CellOrder
  <2>3. CASE row = 2
    <3>1. taps' = 0 => FALSE
      BY <2>1, <2>3, <1>2, TapsBound
    <3>2. taps' = 1 => taps = 0
      BY <2>1, <2>3, <1>2, TapsBound
    <3>3. cells' = <<[lang |-> cells[2].lang, checked |-> TRUE],
                     [lang |-> cells[1].lang, checked |-> FALSE]>>
      BY <2>3, <1>3 DEF TapRow
    <3>4. ASSUME taps = 0
          PROVE  cells' = <<[lang |-> languages[2], checked |-> TRUE],
                            [lang |-> languages[1], checked |-> FALSE]>>
      BY <3>3, <3>4, <2>5
    <3>5. appLang' = languages[2]
      BY <2>3, <1>6
    <3>6. QED
      BY <3>1, <3>2, <3>4, <3>5, <1>2 DEF CellOrder
  <2>4. QED
    BY <1>1, <2>2, <2>3
<1>10. Marks'
  BY <1>2 DEF Marks, PrimaryColor
<1>11. QED
  BY <1>6, <1>7, <1>8, <1>9, <1>10

\* A step that leaves the language screen, or closes it.
LEMMA ScreenKept ==
  ASSUME ListOrder, CellOrder,
         \/ UNCHANGED <<open, currentLang, languages, cells, taps, appLang>>
         \/ CloseList
  PROVE  ListOrder' /\ CellOrder'
BY DEF ListOrder, CellOrder, CloseList

LEMMA ScreenKind ==
  ASSUME TypeOK, \/ UNCHANGED <<open, currentLang, languages, cells, taps, popping>>
                 \/ CloseList
  PROVE  /\ open' \in BOOLEAN /\ popping' \in BOOLEAN /\ taps' \in 0..MaxTaps
         /\ currentLang' \in Langs \cup {none}
         /\ languages' \in IF open' THEN [DOMAIN Available -> Langs] ELSE {<<>>}
         /\ cells' \in IF open' THEN [DOMAIN Available -> Cell] ELSE {<<>>}
<1>1. CASE CloseList
  <2>1. 0 \in 0..MaxTaps
    BY TapsBound
  <2>2. QED
    BY <1>1, <2>1 DEF CloseList
<1>2. CASE UNCHANGED <<open, currentLang, languages, cells, taps, popping>>
  BY <1>2 DEF TypeOK
<1>3. QED
  BY <1>1, <1>2

LEMMA InvLoad ==
  ASSUME IInv, NEW v \in Labels, Load(v)
  PROVE  IInv'
<1> USE DEF IInv
<1>1. Localized \in Langs
  BY TwoLangs DEF Localized, TypeOK
<1>2. texts' \in [Labels -> Langs \cup {none}]
  BY <1>1 DEF Load, TypeOK
<1>3. TypeOK'
  BY <1>2, ScreenKind DEF Load, TypeOK, colorVars, cellVars, listVars
<1>4. ListOrder' /\ CellOrder'
  BY ScreenKept DEF Load, listVars
<1>5. texts'[v] = Localized /\ \A w \in Labels \ {v} : texts'[w] = texts[w]
  BY DEF Load, TypeOK
<1>6. Localized' = Localized /\ PrimaryColor' = PrimaryColor
  BY DEF Load, Localized, PrimaryColor, colorVars
<1>7. PartsFollow'
  BY <1>5, <1>6 DEF Load, PartsFollow, colorVars, cellVars
<1>8. Marks'
  BY <1>6 DEF Load, Marks, colorVars
<1>9. QED
  BY <1>3, <1>4, <1>7, <1>8

LEMMA InvMakeCell ==
  ASSUME IInv, NEW r \in Rows, MakeCell(r)
  PROVE  IInv'
<1> USE DEF IInv
<1>1. PrimaryColor \in Colors
  BY ColorsAssumption DEF PrimaryColor, TypeOK
<1>2. /\ badges' \in [Rows -> Colors \cup {none}] /\ avatars' \in [Rows -> Colors \cup {none}]
      /\ badges'[r] = PrimaryColor /\ \A q \in Rows \ {r} : badges'[q] = badges[q]
  BY <1>1 DEF MakeCell, TypeOK
<1>3. TypeOK'
  BY <1>2, ScreenKind DEF MakeCell, TypeOK, langVars, listVars
<1>4. ListOrder' /\ CellOrder'
  BY ScreenKept DEF MakeCell, langVars, listVars
<1>5. Localized' = Localized /\ PrimaryColor' = PrimaryColor
  BY DEF MakeCell, langVars, Localized, PrimaryColor
<1>6. PartsFollow'
  <2>1. selected' = none => avatars' = badges'
    BY DEF MakeCell, PartsFollow
  <2>2. QED
    BY <2>1, <1>2, <1>5 DEF MakeCell, PartsFollow, langVars
<1>7. Marks'
  BY <1>5 DEF MakeCell, Marks
<1>8. QED
  BY <1>3, <1>4, <1>6, <1>7

LEMMA InvClose ==
  ASSUME IInv, PopToRoot \/ Back
  PROVE  IInv'
<1> USE DEF IInv
<1>1. CloseList /\ UNCHANGED <<appLang, texts, primary, cellVars, picked, selected, marked>>
  BY DEF PopToRoot, Back, langVars, colorVars
<1>2. TypeOK'
  BY <1>1, ScreenKind DEF TypeOK, cellVars
<1>3. ListOrder' /\ CellOrder'
  BY <1>1, ScreenKept
<1>4. PartsFollow' /\ Marks'
  BY <1>1 DEF PartsFollow, Marks, Localized, PrimaryColor, cellVars
<1>5. QED
  BY <1>2, <1>3, <1>4

LEMMA InvRestart ==
  ASSUME IInv, Restart
  PROVE  IInv'
<1> USE DEF IInv
<1>1. /\ texts' \in [Labels -> Langs \cup {none}]
      /\ badges' \in [Rows -> Colors \cup {none}] /\ avatars' \in [Rows -> Colors \cup {none}]
  BY DEF Restart, Unloaded, Unmade
<1>2. TypeOK'
  BY <1>1, ScreenKind DEF Restart, TypeOK
<1>3. ListOrder' /\ CellOrder'
  BY ScreenKept DEF Restart
<1>4. PartsFollow'
  BY DEF Restart, Unloaded, Unmade, PartsFollow
<1>5. Marks'
  BY DEF Restart, Marks
<1>6. QED
  BY <1>2, <1>3, <1>4, <1>5

LEMMA InvOpenSettings ==
  ASSUME IInv, OpenSettings
  PROVE  IInv'
<1> USE DEF IInv
<1>1. PrimaryColor \in Colors /\ PrimaryColor' = PrimaryColor
  BY ColorsAssumption DEF OpenSettings, PrimaryColor, TypeOK
<1>2. TypeOK'
  BY <1>1, ScreenKind DEF OpenSettings, TypeOK, langVars, cellVars, listVars
<1>3. ListOrder' /\ CellOrder'
  BY ScreenKept DEF OpenSettings, langVars, listVars
<1>4. PartsFollow'
  BY <1>1 DEF OpenSettings, langVars, cellVars, PartsFollow, Localized
<1>5. Marks'
  BY <1>1, ColorsAssumption DEF OpenSettings, Marks
<1>6. QED
  BY <1>2, <1>3, <1>4, <1>5

LEMMA InvRedisplay ==
  ASSUME IInv, NEW c \in Colors, Redisplay(c)
  PROVE  IInv'
<1> USE DEF IInv
<1>1. PrimaryColor' = PrimaryColor
  BY DEF Redisplay, PrimaryColor
<1>2. TypeOK'
  BY ScreenKind DEF Redisplay, TypeOK, langVars, cellVars, listVars
<1>3. ListOrder' /\ CellOrder'
  BY ScreenKept DEF Redisplay, langVars, listVars
<1>4. PartsFollow'
  BY <1>1 DEF Redisplay, langVars, cellVars, PartsFollow, Localized
<1>5. Marks'
  BY <1>1, ColorsAssumption DEF Redisplay, Marks
<1>6. QED
  BY <1>2, <1>3, <1>4, <1>5

LEMMA InvPickColor ==
  ASSUME IInv, NEW c \in Colors, PickColor(c)
  PROVE  IInv'
<1> USE DEF IInv
<1>1. PrimaryColor' = c /\ c # none
  BY ColorsAssumption DEF PickColor, Repaint, PrimaryColor
<1>2. badges' \in [Rows -> Colors \cup {none}] /\ avatars' = avatars
  BY DEF PickColor, Repaint
<1>3. TypeOK'
  BY <1>2, ScreenKind DEF PickColor, Repaint, TypeOK, langVars, listVars
<1>4. ListOrder' /\ CellOrder'
  BY ScreenKept DEF PickColor, langVars, listVars
<1>5. PartsFollow'
  BY <1>1 DEF PickColor, Repaint, langVars, PartsFollow, Localized, TypeOK
<1>6. Marks'
  BY <1>1 DEF PickColor, Marks
<1>7. QED
  BY <1>3, <1>4, <1>5, <1>6

LEMMA InvStep ==
  ASSUME IInv, [Next]_vars
  PROVE  IInv'
<1>1. CASE Next
  BY <1>1, InvOpenLanguages, InvTapRow, InvLoad, InvMakeCell, InvClose, InvRestart,
     InvOpenSettings, InvRedisplay, InvPickColor DEF Next
<1>2. CASE UNCHANGED vars
  <2> USE <1>2 DEF vars, langVars, colorVars, cellVars, listVars, IInv
  <2>1. TypeOK'
    BY DEF TypeOK
  <2>2. ListOrder' /\ CellOrder'
    BY DEF ListOrder, CellOrder
  <2>3. PartsFollow' /\ Marks'
    BY DEF PartsFollow, Marks, Localized, PrimaryColor
  <2>4. QED
    BY <2>1, <2>2, <2>3
<1>3. QED
  BY <1>1, <1>2

THEOREM Invariant == Spec => []IInv
BY InvInit, InvStep, PTL DEF Spec

-----------------------------------------------------------------------------
(* The theorems. *)

\* Every variable of the settings stays of its kind, the cells and the list of the
\* language screen included.
THEOREM SettingsTypeCorrect == Spec => []TypeOK
<1>1. IInv => TypeOK
  BY DEF IInv
<1>2. QED
  BY <1>1, Invariant, PTL

\* TopIsStored: up to the first change the top cell alone is checked, and it is the
\* stored language, whatever the screen was opened with.
THEOREM TopCellIsStored == Spec => []TopIsStored
<1>1. IInv => TopIsStored
  <2>1. SUFFICES ASSUME IInv, open, currentLang # none, taps <= 1
                 PROVE  \A i \in DOMAIN cells :
                          /\ cells[i].checked <=> i = 1
                          /\ cells[i].checked => cells[i].lang = appLang
    BY DEF TopIsStored
  <2>2. /\ languages \in {<<"en", "ru">>, <<"ru", "en">>} /\ currentLang = languages[1]
        /\ DOMAIN cells = {1, 2} /\ (taps = 0 \/ taps = 1)
    BY <2>1, TwoLangs, TapsBound DEF IInv, ListOrder, TypeOK
  <2>3. \E l, m : /\ cells = <<[lang |-> l, checked |-> TRUE], [lang |-> m, checked |-> FALSE]>>
                  /\ l = appLang
    BY <2>1, <2>2 DEF IInv, CellOrder
  <2>4. QED
    BY <2>2, <2>3
<1>2. QED
  BY <1>1, Invariant, PTL

\* PartsFollow: texts and badges miss no change of language or colour, for any views and
\* cells in whatever order they are made, and a cell has one colour in both its parts
\* until a colour is picked.
THEOREM ObservingPartsFollow == Spec => []PartsFollow
<1>1. IInv => PartsFollow
  BY DEF IInv
<1>2. QED
  BY <1>1, Invariant, PTL

\* MarkedIsPrimary: at most the colour in use looks selected.
THEOREM OnlyPrimaryIsMarked == Spec => []MarkedIsPrimary
<1>1. IInv => MarkedIsPrimary
  BY DEF IInv, Marks, MarkedIsPrimary
<1>2. QED
  BY <1>1, Invariant, PTL

\* ChosenOnce: on one language screen the language changes away from the one it was
\* opened with, and not back.
THEOREM LanguageChosenOnce == Spec => ChosenOnce
<1>1. ASSUME IInv, [Next]_vars
      PROVE  [open /\ appLang' # appLang => appLang = currentLang]_vars
  <2>1. SUFFICES ASSUME Next, open, appLang' # appLang
                 PROVE  appLang = currentLang
    BY <1>1 DEF vars, langVars
  <2>2. PICK row \in DOMAIN Available : TapRow(row)
    BY <2>1 DEF Next, OpenLanguages, PopToRoot, Back, OpenSettings, Restart, Load, MakeCell,
                PickColor, Redisplay, langVars
  <2>3. /\ languages \in {<<"en", "ru">>, <<"ru", "en">>} /\ currentLang = languages[1]
        /\ appLang \in {"en", "ru"}
    BY <1>1, <2>1, <2>2, TwoLangs DEF TapRow, IInv, ListOrder, TypeOK
  <2>4. languages[row] # currentLang /\ appLang' = languages[row] /\ row \in {1, 2}
    BY <2>1, <2>2, TwoLangs DEF TapRow, Translate, langVars
  <2>5. QED
    BY <2>1, <2>3, <2>4
<1>2. QED
  BY <1>1, Invariant, PTL DEF Spec, ChosenOnce

=============================================================================
