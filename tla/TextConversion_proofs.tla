------------------------ MODULE TextConversion_proofs ------------------------
(***************************************************************************)
(* What the conversions of TextConversion return, for any alphabet and any *)
(* text.                                                                   *)
(***************************************************************************)
EXTENDS TextConversion, SequenceTheorems, WellFoundedInduction, TLAPS

\* A set of positions that is not empty has a first one.
LEMMA FirstPosition ==
  ASSUME NEW P \in SUBSET Nat, P # {}
  PROVE  \E i \in P : \A j \in P : i <= j
<1>1. PICK i \in P : \A j \in P : ~(<<j, i>> \in OpToRel(<, Nat))
  BY NatLessThanWellFounded, WFMin
<1>2. \A j \in P : ~(j < i)
  BY <1>1 DEF OpToRel
<1> QED
  BY <1>2

\* c_str() is the longest beginning of the string without a NUL.
LEMMA CStrPrefix ==
  ASSUME NEW S, NEW s \in Seq(S)
  PROVE  /\ CStr(s) \in Seq(S)
         /\ Len(CStr(s)) <= Len(s)
         /\ \A i \in 1 .. Len(CStr(s)) : CStr(s)[i] = s[i] /\ s[i] # Nul
         /\ \A n \in 0 .. Len(s) : (\A i \in 1 .. n : s[i] # Nul) => n <= Len(CStr(s))
<1> DEFINE nuls == {i \in DOMAIN s : s[i] = Nul}
<1>1. Len(s) \in Nat /\ DOMAIN s = 1 .. Len(s) /\ \A i \in 1 .. Len(s) : s[i] \in S
  BY LenProperties
<1>2. CASE nuls = {}
  BY <1>1, <1>2 DEF CStr
<1>3. CASE nuls # {}
  <2> DEFINE k == CHOOSE i \in nuls : \A j \in nuls : i <= j
  <2>1. k \in nuls /\ \A j \in nuls : k <= j
    <3>1. nuls \in SUBSET Nat
      BY <1>1
    <3> HIDE DEF nuls
    <3>2. \E i \in nuls : \A j \in nuls : i <= j
      BY <1>3, <3>1, FirstPosition
    <3> QED
      BY <3>2
  <2>2. CStr(s) = SubSeq(s, 1, k - 1)
    BY <1>3 DEF CStr
  <2> HIDE DEF k
  <2>3. k \in 1 .. Len(s) /\ s[k] = Nul /\ \A j \in 1 .. k - 1 : s[j] # Nul
    BY <1>1, <2>1
  <2>4. /\ SubSeq(s, 1, k - 1) \in Seq(S)
        /\ Len(SubSeq(s, 1, k - 1)) = k - 1
        /\ \A i \in 1 .. k - 1 : SubSeq(s, 1, k - 1)[i] = s[i]
    BY <1>1, <2>3, SubSeqProperties
  <2> QED
    BY <1>1, <2>2, <2>3, <2>4
<1> QED
  BY <1>2, <1>3

\* One character, there and back.
LEMMA EncodeDecode ==
  ASSUME NEW page \in CodePages
  PROVE  /\ \A c \in Characters : Encode(c, page) \in Encoded
         /\ \A b \in Encoded : Decode(b, page) \in Characters
         /\ \A c \in (Ascii \ {Nul}) \cup Ansi :
              /\ Encode(c, page) # Nul
              /\ Decode(Encode(c, page), page) = c
BY TextAssumption DEF Characters, Encoded, Encode, Decode, CodePages

\* A wide string is converted character by character up to its first NUL.
LEMMA ToNarrow ==
  ASSUME NEW str \in Seq(Characters), NEW page \in CodePages
  PROVE  LET r == WStringTOString(str, page) IN
         /\ r \in Seq(Encoded)
         /\ Len(r) = Len(CStr(str))
         /\ \A i \in 1 .. Len(r) : r[i] = Encode(str[i], page)
<1> DEFINE s == CStr(str)
           r == WStringTOString(str, page)
<1>1. s \in Seq(Characters) /\ \A i \in 1 .. Len(s) : s[i] = str[i]
  BY CStrPrefix
<1>2. Len(s) \in Nat /\ DOMAIN s = 1 .. Len(s) /\ \A i \in 1 .. Len(s) : s[i] \in Characters
  BY <1>1, LenProperties
<1>3. r = [i \in 1 .. Len(s) |-> Encode(s[i], page)]
  BY <1>2 DEF WStringTOString
<1> HIDE DEF r, s
<1>4. \A i \in 1 .. Len(s) : Encode(s[i], page) \in Encoded
  BY <1>2, EncodeDecode
<1>5. r \in [1 .. Len(s) -> Encoded]
  BY <1>3, <1>4
<1>6. r \in Seq(Encoded) /\ Len(r) = Len(s)
  BY <1>2, <1>5, SeqDef
<1> QED
  BY <1>1, <1>3, <1>6 DEF r, s

\* StringToWString reads the text up to its NUL, character by character, in the page
\* it is given.
LEMMA ToWide ==
  ASSUME NEW str \in Seq(Encoded), NEW page \in CodePages
  PROVE  LET r == StringToWString(str, page) IN
         /\ r \in Seq(Characters)
         /\ Len(r) = Len(CStr(str))
         /\ \A i \in 1 .. Len(r) : r[i] = Decode(str[i], page)
<1> DEFINE s == CStr(str)
           r == StringToWString(str, page)
<1>1. s \in Seq(Encoded) /\ \A i \in 1 .. Len(s) : s[i] = str[i]
  BY CStrPrefix
<1>2. Len(s) \in Nat /\ DOMAIN s = 1 .. Len(s) /\ \A i \in 1 .. Len(s) : s[i] \in Encoded
  BY <1>1, LenProperties
<1>3. r = [i \in 1 .. Len(s) |-> Decode(s[i], page)]
  BY <1>2 DEF StringToWString
<1> HIDE DEF r, s
<1>4. \A i \in 1 .. Len(s) : Decode(s[i], page) \in Characters
  BY <1>2, EncodeDecode
<1>5. r \in [1 .. Len(s) -> Characters]
  BY <1>3, <1>4
<1>6. r \in Seq(Characters) /\ Len(r) = Len(s)
  BY <1>2, <1>5, SeqDef
<1> QED
  BY <1>1, <1>3, <1>6 DEF r, s

\* The characters a conversion through the ANSI code page keeps.
Plain == (Ascii \ {Nul}) \cup Ansi

\* Plain text is converted as far as it goes, whatever follows it.
LEMMA PlainToNarrow ==
  ASSUME NEW str \in Seq(Characters), NEW page \in CodePages, NEW n \in 0 .. Len(str),
         \A i \in 1 .. n : str[i] \in Plain
  PROVE  LET r == WStringTOString(str, page) IN
         /\ n <= Len(r)
         /\ n = Len(str) => Len(r) = n
         /\ \A i \in 1 .. n : r[i] = Encode(str[i], page)
<1>1. \A i \in 1 .. n : str[i] # Nul
  BY TextAssumption DEF Plain
<1>2. n <= Len(CStr(str)) /\ Len(CStr(str)) <= Len(str)
  BY <1>1, CStrPrefix
<1>3. Len(CStr(str)) \in Nat /\ Len(str) \in Nat
  BY CStrPrefix, LenProperties
<1> QED
  BY <1>2, <1>3, ToNarrow

\* StringToWString reaches past a start without NUL.
LEMMA PlainToWide ==
  ASSUME NEW str \in Seq(Encoded), NEW page \in CodePages, NEW n \in 0 .. Len(str),
         \A i \in 1 .. n : str[i] # Nul
  PROVE  LET r == StringToWString(str, page) IN
         /\ n <= Len(r)
         /\ n = Len(str) => Len(r) = n
         /\ \A i \in 1 .. n : r[i] = Decode(str[i], page)
<1>1. n <= Len(CStr(str)) /\ Len(CStr(str)) <= Len(str)
  BY CStrPrefix
<1>2. Len(CStr(str)) \in Nat /\ Len(str) \in Nat
  BY CStrPrefix, LenProperties
<1> QED
  BY <1>1, <1>2, ToWide

\* Wide text streamed to a message is some text, and plain text arrives as the
\* UTF-8 of every character.
LEMMA StreamedType ==
  ASSUME NEW wide \in Seq(Characters)
  PROVE  WideToUTF8(wide) \in Seq(Encoded)
BY ToNarrow, ToWide DEF WideToUTF8, AnsiToUtf8, CodePages

\* Wide text of the ANSI code page is streamed as its UTF-8, one for one.
LEMMA StreamedPlain ==
  ASSUME NEW wide \in Seq(Plain)
  PROVE  WideToUTF8(wide) = WStringTOString(wide, "CP_UTF8") /\ Len(WideToUTF8(wide)) = Len(wide)
<1> DEFINE n == Len(wide)
           a == WStringTOString(wide, "CP_ACP")
           w == StringToWString(a, "CP_ACP")
           u == WStringTOString(w, "CP_UTF8")
           v == WStringTOString(wide, "CP_UTF8")
<1>1. wide \in Seq(Characters) /\ n \in Nat /\ \A i \in 1 .. n : wide[i] \in Plain
  <2>1. Plain \subseteq Characters
    BY DEF Plain, Characters
  <2> QED
    BY <2>1, SeqMonotonic, LenProperties, ElementOfSeq
<1>2. "CP_ACP" \in CodePages /\ "CP_UTF8" \in CodePages
  BY DEF CodePages
<1>3. a \in Seq(Encoded) /\ Len(a) = n /\ \A i \in 1 .. n : a[i] = Encode(wide[i], "CP_ACP")
  BY <1>1, <1>2, ToNarrow, PlainToNarrow
<1>4. \A i \in 1 .. n : a[i] # Nul /\ Decode(a[i], "CP_ACP") = wide[i]
  BY <1>1, <1>2, <1>3, EncodeDecode DEF Plain
<1> HIDE DEF a
<1>5. w \in Seq(Characters) /\ Len(w) = n /\ \A i \in 1 .. n : w[i] = wide[i]
  BY <1>1, <1>2, <1>3, <1>4, ToWide, PlainToWide
<1> HIDE DEF w
<1>6. w = wide
  BY <1>1, <1>5, SeqEqual
<1>7. WideToUTF8(wide) = u
  BY DEF WideToUTF8, AnsiToUtf8, w, a
<1>8. Len(v) = n
  BY <1>1, <1>2, PlainToNarrow
<1> QED
  BY <1>6, <1>7, <1>8

\* The dialog of a FATAL message shows plain text as it was streamed, whatever
\* has been appended to it.
LEMMA ShownPlain ==
  ASSUME NEW wide \in Seq(Plain), NEW text \in Seq(Encoded), Len(wide) <= Len(text),
         \A i \in 1 .. Len(wide) : text[i] = Encode(wide[i], "CP_UTF8")
  PROVE  /\ UTF8ToWide(text) \in Seq(Characters)
         /\ SubSeq(UTF8ToWide(text), 1, Len(wide)) = wide
<1> DEFINE n == Len(wide)
           w == StringToWString(text, "CP_UTF8")
           a == WStringTOString(w, "CP_ACP")
           d == StringToWString(a, "CP_ACP")
<1>1. wide \in Seq(Characters) /\ n \in Nat /\ \A i \in 1 .. n : wide[i] \in Plain
  <2>1. Plain \subseteq Characters
    BY DEF Plain, Characters
  <2> QED
    BY <2>1, SeqMonotonic, LenProperties, ElementOfSeq
<1>2. "CP_ACP" \in CodePages /\ "CP_UTF8" \in CodePages
  BY DEF CodePages
<1>3. n \in 0 .. Len(text)
  BY <1>1, LenProperties
<1>4. \A i \in 1 .. n : text[i] # Nul /\ Decode(text[i], "CP_UTF8") = wide[i]
  BY <1>1, <1>2, EncodeDecode DEF Plain
<1>5. w \in Seq(Characters) /\ n <= Len(w) /\ \A i \in 1 .. n : w[i] = wide[i]
  BY <1>2, <1>3, <1>4, ToWide, PlainToWide
<1> HIDE DEF w
<1>6. n \in 0 .. Len(w)
  BY <1>1, <1>5, LenProperties
<1>7. /\ a \in Seq(Encoded) /\ n <= Len(a)
      /\ \A i \in 1 .. n : a[i] = Encode(wide[i], "CP_ACP")
  <2>1. a \in Seq(Encoded)
    BY <1>2, <1>5, ToNarrow
  <2>2. \A i \in 1 .. n : w[i] \in Plain
    BY <1>1, <1>5
  <2> QED
    BY <1>2, <1>5, <1>6, <2>1, <2>2, PlainToNarrow
<1>8. \A i \in 1 .. n : a[i] # Nul /\ Decode(a[i], "CP_ACP") = wide[i]
  BY <1>1, <1>2, <1>7, EncodeDecode DEF Plain
<1> HIDE DEF a
<1>9. n \in 0 .. Len(a)
  BY <1>1, <1>7, LenProperties
<1>10. d \in Seq(Characters) /\ n <= Len(d) /\ \A i \in 1 .. n : d[i] = wide[i]
  BY <1>2, <1>7, <1>8, <1>9, ToWide, PlainToWide
<1>11. UTF8ToWide(text) = d
  BY DEF UTF8ToWide, Utf8ToAnsi, a, w
<1> HIDE DEF d
<1>12. SubSeq(d, 1, n) = wide
  <2>1. Len(d) \in Nat /\ \A i \in 1 .. n : d[i] \in Characters
    BY <1>1, <1>10, LenProperties, ElementOfSeq
  <2>2. SubSeq(d, 1, n) \in Seq(Characters) /\ Len(SubSeq(d, 1, n)) = n
        /\ \A i \in 1 .. n : SubSeq(d, 1, n)[i] = d[i]
    BY <1>1, <2>1, SubSeqProperties
  <2> QED
    BY <1>1, <1>10, <2>2, SeqEqual
<1> QED
  BY <1>10, <1>11, <1>12

(***************************************************************************)
(* The text of a system error.                                             *)
(***************************************************************************)

\* What the system returns for an error it knows: text without a NUL that ends
\* in the two characters "\r\n", which SystemErrorCodeToString removes.
EndedSystemText ==
  \A e \in Errors : SystemText[e] # <<>> => SystemText[e] \in Seq(Plain) /\ Len(SystemText[e]) >= 2

\* The text of any error is narrow text.
LEMMA ErrorTextType ==
  ASSUME NEW e \in Errors
  PROVE  SystemErrorCodeToString(e) \in Seq(Encoded)
<1>1. SystemText[e] \in Seq(Characters) /\ CodeText[e] \in Seq(Encoded)
  <2>1. Ascii \cup Ansi \subseteq Characters /\ Ascii \ {Nul} \subseteq Encoded
    BY DEF Characters, Encoded
  <2> QED
    BY <2>1, SeqMonotonic, TextAssumption
<1>2. <<>> \in Seq(Encoded)
  BY EmptySeq
<1>3. FormatMessage(e) \in Seq(Encoded)
  BY <1>1, <1>2, ToNarrow DEF FormatMessage, CodePages
<1>4. temp_buf(e) \in Seq(Encoded)
  <2>1. <<LF>> \in Seq(Encoded)
    BY TextAssumption DEF Encoded
  <2> QED
    BY <1>1, <1>3, <2>1, ConcatProperties DEF temp_buf
<1>5. remove_suffix(temp_buf(e), 3) \in Seq(Encoded)
  <2> DEFINE t == temp_buf(e)
  <2>1. Len(t) \in Nat /\ \A i \in 1 .. Len(t) - 3 : t[i] \in Encoded
    BY <1>4, LenProperties, ElementOfSeq
  <2> HIDE DEF t
  <2>2. SubSeq(t, 1, Len(t) - 3) \in Seq(Encoded)
    BY <2>1, SubSeqProperties
  <2> QED
    BY <1>4, <2>2 DEF remove_suffix, t
<1> QED
  BY <1>2, <1>5 DEF SystemErrorCodeToString

\* The text of an error is its code and the system's text, less its line end, if
\* that has room in both buffers, and nothing otherwise.
LEMMA ErrorText ==
  ASSUME EndedSystemText, NEW e \in Errors
  PROVE  LET text == SystemText[e] IN
         SystemErrorCodeToString(e) =
           IF text # <<>> /\ Len(CodeText[e]) + Len(text) + 1 < BufferSize
           THEN CodeText[e] \o WStringTOString(SubSeq(text, 1, Len(text) - 2), "CP_ACP")
           ELSE <<>>
<1> DEFINE text == SystemText[e]
           code == CodeText[e]
           msg == WStringTOString(text, "CP_ACP")
<1>1. /\ text \in Seq(Characters) /\ code \in Seq(Encoded)
      /\ Len(text) \in Nat /\ Len(code) \in Nat /\ BufferSize \in Nat
  <2>1. Ascii \cup Ansi \subseteq Characters /\ Ascii \ {Nul} \subseteq Encoded
    BY DEF Characters, Encoded
  <2> QED
    BY <2>1, SeqMonotonic, LenProperties, TextAssumption
<1>2. "CP_ACP" \in CodePages
  BY DEF CodePages
<1>3. CASE text = <<>>
  <2>1. msg = <<>>
    <3>1. Len(CStr(text)) = 0
      <4>1. CStr(text) \in Seq(Characters) /\ Len(CStr(text)) <= Len(text)
        BY <1>1, CStrPrefix
      <4>2. Len(CStr(text)) \in Nat /\ Len(text) = 0
        BY <1>3, <4>1, LenProperties
      <4> QED
        BY <4>1, <4>2
    <3>2. msg \in Seq(Encoded) /\ Len(msg) = 0
      BY <1>1, <1>2, <3>1, ToNarrow
    <3> QED
      BY <3>2, EmptySeq
  <2> QED
    BY <1>3, <2>1 DEF SystemErrorCodeToString, FormatMessage
<1>4. CASE text # <<>>
  <2>1. /\ Len(text) >= 2 /\ \A i \in 1 .. Len(text) : text[i] \in Plain
    BY <1>4, ElementOfSeq DEF EndedSystemText
  <2>2. /\ msg \in Seq(Encoded) /\ Len(msg) = Len(text)
        /\ \A i \in 1 .. Len(text) : msg[i] = Encode(text[i], "CP_ACP")
    <3>1. msg \in Seq(Encoded)
      BY <1>1, <1>2, ToNarrow
    <3>2. Len(text) \in 0 .. Len(text)
      BY <1>1
    <3> QED
      BY <1>1, <1>2, <2>1, <3>1, <3>2, PlainToNarrow
  <2>3. msg # <<>>
    BY <1>1, <2>1, <2>2, EmptySeq
  <2>0. /\ FormatMessage(e) = IF Len(msg) < BufferSize THEN msg ELSE <<>>
        /\ temp_buf(e) = code \o FormatMessage(e) \o <<LF>>
    BY DEF FormatMessage, temp_buf
  <2> HIDE DEF msg, text, code
  <2> DEFINE t == code \o msg \o <<LF>>
  <2>4. /\ t \in Seq(Encoded) /\ Len(t) = Len(code) + Len(text) + 1
        /\ \A i \in 1 .. Len(code) + Len(text) :
             t[i] = IF i <= Len(code) THEN code[i] ELSE msg[i - Len(code)]
    <3>1. <<LF>> \in Seq(Encoded) /\ Len(<<LF>>) = 1
      BY TextAssumption DEF Encoded
    <3>2. /\ code \o msg \in Seq(Encoded) /\ Len(code \o msg) = Len(code) + Len(text)
          /\ \A i \in 1 .. Len(code) + Len(text) :
               (code \o msg)[i] = IF i <= Len(code) THEN code[i] ELSE msg[i - Len(code)]
      <4>1. /\ code \o msg \in Seq(Encoded) /\ Len(code \o msg) = Len(code) + Len(msg)
            /\ \A i \in 1 .. Len(code) + Len(msg) :
                 (code \o msg)[i] = IF i <= Len(code) THEN code[i] ELSE msg[i - Len(code)]
        <5>1. code \in Seq(Encoded) /\ msg \in Seq(Encoded)
          BY <1>1, <2>2
        <5> QED
          BY <5>1, ConcatProperties
      <4> QED
        BY <2>2, <4>1
    <3>3. /\ t \in Seq(Encoded) /\ Len(t) = Len(code \o msg) + 1
          /\ \A i \in 1 .. Len(code \o msg) : t[i] = (code \o msg)[i]
      <4> DEFINE c == code \o msg
      <4>1. c \in Seq(Encoded) /\ Len(c) \in Nat /\ t = c \o <<LF>>
        BY <1>1, <2>2, <3>2
      <4> HIDE DEF c, t
      <4>2. /\ t \in Seq(Encoded) /\ Len(t) = Len(c) + 1
            /\ \A i \in 1 .. Len(c) : t[i] = c[i]
        BY <3>1, <4>1, ConcatProperties
      <4> QED
        BY <4>2 DEF c
    <3> HIDE DEF t
    <3> QED
      BY <1>1, <2>2, <3>2, <3>3
  <2>5. CASE ~(Len(code) + Len(text) + 1 < BufferSize)
    <3>1. FormatMessage(e) = <<>> \/ temp_buf(e) = t
      BY <2>0
    <3> HIDE DEF t
    <3>2. FormatMessage(e) = <<>> \/ Overflows(e)
      BY <1>1, <2>4, <2>5, <3>1 DEF Overflows
    <3> QED
      BY <2>5, <3>2 DEF SystemErrorCodeToString, code, text
  <2>6. CASE Len(code) + Len(text) + 1 < BufferSize
    <3>1. FormatMessage(e) = msg /\ temp_buf(e) = t
      <4>1. Len(msg) < BufferSize
        BY <1>1, <2>2, <2>6
      <4> QED
        BY <2>0, <4>1
    <3> HIDE DEF t
    <3>2. SystemErrorCodeToString(e) = SubSeq(t, 1, Len(t) - 3)
      BY <1>1, <2>1, <2>3, <2>4, <2>6, <3>1 DEF SystemErrorCodeToString, Overflows, remove_suffix
    <3> DEFINE cut == SubSeq(text, 1, Len(text) - 2)
               narrow == WStringTOString(cut, "CP_ACP")
    <3>3. /\ cut \in Seq(Characters) /\ Len(cut) = Len(text) - 2
          /\ \A i \in 1 .. Len(text) - 2 : cut[i] = text[i]
      <4>1. \A i \in 1 .. Len(text) - 2 : text[i] \in Characters
        BY <1>1, ElementOfSeq
      <4> DEFINE k == Len(text) - 2
      <4>2. k \in Nat /\ \A i \in 1 .. k : text[i] \in Characters
        BY <1>1, <2>1, <4>1
      <4> HIDE DEF k
      <4>3. /\ SubSeq(text, 1, k) \in Seq(Characters) /\ Len(SubSeq(text, 1, k)) = k
            /\ \A i \in 1 .. k : SubSeq(text, 1, k)[i] = text[i]
        BY <4>2, SubSeqProperties
      <4> QED
        BY <4>3 DEF k
    <3> HIDE DEF cut
    <3>4. /\ narrow \in Seq(Encoded) /\ Len(narrow) = Len(text) - 2
          /\ \A i \in 1 .. Len(text) - 2 : narrow[i] = msg[i]
      <4>1. Len(text) - 2 \in 0 .. Len(cut) /\ \A i \in 1 .. Len(text) - 2 : cut[i] \in Plain
        BY <1>1, <2>1, <3>3
      <4>2. narrow \in Seq(Encoded) /\ Len(narrow) = Len(text) - 2
            /\ \A i \in 1 .. Len(text) - 2 : narrow[i] = Encode(cut[i], "CP_ACP")
        BY <1>2, <3>3, <4>1, ToNarrow, PlainToNarrow
      <4> QED
        BY <1>1, <2>2, <3>3, <4>2
    <3> HIDE DEF narrow
    <3>5. /\ code \o narrow \in Seq(Encoded) /\ Len(code \o narrow) = Len(t) - 3
          /\ \A i \in 1 .. Len(t) - 3 :
               (code \o narrow)[i] = IF i <= Len(code) THEN code[i] ELSE narrow[i - Len(code)]
      <4>1. /\ code \o narrow \in Seq(Encoded) /\ Len(code \o narrow) = Len(code) + Len(narrow)
            /\ \A i \in 1 .. Len(code) + Len(narrow) :
                 (code \o narrow)[i] = IF i <= Len(code) THEN code[i] ELSE narrow[i - Len(code)]
        BY <1>1, <3>4, ConcatProperties
      <4>2. Len(code) + Len(narrow) = Len(t) - 3
        BY <1>1, <2>4, <3>4
      <4> QED
        BY <4>1, <4>2
    <3>6. /\ SubSeq(t, 1, Len(t) - 3) \in Seq(Encoded) /\ Len(SubSeq(t, 1, Len(t) - 3)) = Len(t) - 3
          /\ \A i \in 1 .. Len(t) - 3 : SubSeq(t, 1, Len(t) - 3)[i] = t[i]
      <4>1. \A i \in 1 .. Len(t) - 3 : t[i] \in Encoded
        BY <2>4, ElementOfSeq
      <4> QED
        BY <1>1, <2>1, <2>4, <4>1, SubSeqProperties
    <3>7. ASSUME NEW i \in 1 .. Len(t) - 3 PROVE t[i] = (code \o narrow)[i]
      <4>1. i \in 1 .. Len(code) + Len(text) /\ i \in Int
        BY <1>1, <2>1, <2>4
      <4>2. t[i] = IF i <= Len(code) THEN code[i] ELSE msg[i - Len(code)]
        BY <2>4, <4>1
      <4>3. ~(i <= Len(code)) => i - Len(code) \in 1 .. Len(text) - 2
        BY <1>1, <2>4, <4>1
      <4> QED
        BY <3>4, <3>5, <4>2, <4>3
    <3>8. SubSeq(t, 1, Len(t) - 3) = code \o narrow
      BY <3>5, <3>6, <3>7, SeqEqual
    <3> QED
      BY <1>4, <2>6, <3>2, <3>8 DEF code, text, narrow, cut
  <2> QED
    BY <2>5, <2>6
<1> QED
  BY <1>3, <1>4
=============================================================================
