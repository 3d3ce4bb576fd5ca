--------------------------- MODULE TextConversion ---------------------------
(***************************************************************************)
(* The text functions: win_string_convert and remove_suffix of             *)
(* src/src/chromium_logging_util.cpp, wide text in a message, and          *)
(* SystemErrorCodeToString of src/src/logging.cc.                          *)
(*                                                                         *)
(* A wide string is a sequence of characters.  A narrow string is a        *)
(* sequence of encoded characters: an ASCII character is itself in every   *)
(* code page, any other is <<page, character>>, however many bytes it has. *)
(***************************************************************************)
EXTENDS Integers, Sequences

CONSTANTS
  Ascii,        \* characters below 128
  Ansi,         \* the other characters of the ANSI code page of the system
  Unicode,      \* characters outside it
  Nul, LF,      \* two ASCII characters
  Replacement,  \* the ASCII character a conversion puts for one it cannot convert
  Invalid,      \* what it puts for bytes that are not of the code page
  Errors,       \* error codes
  SystemText,   \* the text the system has for each of them
  CodeText,     \* each of them as SystemErrorCodeToString writes it: "(0x%X|%u): "
  BufferSize    \* error_message_buffer_size

Characters == Ascii \cup Ansi \cup Unicode

CodePages == {"CP_ACP", "CP_UTF8"}
Encoded == Ascii \cup (CodePages \X (Ansi \cup Unicode))

ASSUME TextAssumption ==
  /\ {Nul, LF, Replacement} \subseteq Ascii
  /\ Invalid \in Unicode
  /\ Ascii \cap (Ansi \cup Unicode) = {} /\ Ascii \cap (CodePages \X (Ansi \cup Unicode)) = {}
  /\ Ansi \cap Unicode = {}
  /\ Errors # {}
  /\ \A e \in Errors : SystemText[e] \in Seq(Ascii \cup Ansi) /\ CodeText[e] \in Seq(Ascii \ {Nul})
  /\ BufferSize \in Nat

\* str.c_str(), and a std::string made of a buffer: what comes before a NUL.
CStr(str) ==
  LET nuls == {i \in DOMAIN str : str[i] = Nul} IN
  IF nuls = {} THEN str
  ELSE SubSeq(str, 1, (CHOOSE i \in nuls : \A j \in nuls : i <= j) - 1)

\* WideCharToMultiByte and MultiByteToWideChar on one character.
Encode(c, page) ==
  IF c \in Ascii THEN c
  ELSE IF page = "CP_ACP" /\ c \notin Ansi THEN Replacement
  ELSE <<page, c>>

Decode(b, page) ==
  IF b \in Ascii THEN b
  ELSE IF b[1] = page THEN b[2]
  ELSE Invalid

WStringTOString(str, dwType) ==
  LET s == CStr(str) IN [i \in DOMAIN s |-> Encode(s[i], dwType)]

StringToWString(str, dwType) ==
  LET s == CStr(str) IN [i \in DOMAIN s |-> Decode(s[i], dwType)]

AnsiToUtf8(str) == WStringTOString(StringToWString(str, "CP_ACP"), "CP_UTF8")
Utf8ToAnsi(str) == WStringTOString(StringToWString(str, "CP_UTF8"), "CP_ACP")

UTF8ToWide(s) == StringToWString(Utf8ToAnsi(s), "CP_ACP")

\* Mutant: the second conversion is forgotten.
WideToUTF8Once(wide) == WStringTOString(wide, "CP_ACP")

\* Both go through the ANSI code page.
WideToUTF8(wide) == AnsiToUtf8(WStringTOString(wide, "CP_ACP"))

-----------------------------------------------------------------------------
\* s.substr(0, s.size() - n): the size is unsigned, so a shorter string is kept.
remove_suffix(s, n) == IF n <= Len(s) THEN SubSeq(s, 1, Len(s) - n) ELSE s

\* FormatMessageA: the system's text as it is in the ANSI code page, or nothing,
\* for an error that has no text or one the buffer has no room for.
FormatMessage(e) ==
  LET msgbuf == WStringTOString(SystemText[e], "CP_ACP") IN
  IF Len(msgbuf) < BufferSize THEN msgbuf ELSE <<>>

\* _snprintf_s(temp_buf, sizeof(temp_buf), "(0x%X|%u): %s\n", ...)
temp_buf(e) == CodeText[e] \o FormatMessage(e) \o <<LF>>

\* What is written has no room in temp_buf.  It is not cut: the runtime calls its
\* invalid parameter handler, and if that returns, temp_buf is empty.
Overflows(e) == FormatMessage(e) # <<>> /\ Len(temp_buf(e)) >= BufferSize

\* The text and how the system ends its lines, "\r\n", less that and the newline.
SystemErrorCodeToString(e) ==
  IF FormatMessage(e) = <<>> \/ Overflows(e) THEN <<>> ELSE remove_suffix(temp_buf(e), 3)
=============================================================================
