----------------------------- MODULE ErrorTexts -----------------------------
(***************************************************************************)
(* Errors with a code, internal/platform/error.go, on their way through an *)
(* HTTP answer: the server answers with a status and the error's text, and *)
(* registryrpc/client.go makes an error of the two again.                  *)
(***************************************************************************)
EXTENDS Words

CONSTANT Colon   \* the word of the colon and the space after a code

\* The codes, 1 to 6, each a word of a text as well.
InvalidArgument == 1
ParseError == 2
ValidationError == 3
IOError == 4
NotFound == 5
InternalError == 6
Code == InvalidArgument .. InternalError

ASSUME TextAssumption == Code \subseteq Word /\ Colon \in Word \ (Code \cup {Blank})

\* httpStatus
HttpStatus(code) == CASE code = NotFound -> 404 [] code = InternalError -> 500 [] OTHER -> 400

\* Error.Error
ErrorText(code, message) == <<code, Colon>> \o message

HasPrefix(text, code) == Len(text) >= 2 /\ text[1] = code /\ text[2] = Colon

\* A faulty variant: the code is told from the status alone.
CodeFromStatusOnly(status, text) ==
  CASE status = 404 -> NotFound [] status >= 500 -> IOError [] OTHER -> InvalidArgument

\* invalid_argument is not among the prefixes that are looked for.
CodeFromStatus(status, text) ==
  IF \E c \in Code \ {InvalidArgument} : HasPrefix(text, c) THEN text[1]
  ELSE CASE status = 404 -> NotFound [] status >= 500 -> IOError [] OTHER -> InvalidArgument

TrimCodePrefix(text) ==
  IF \E c \in Code : HasPrefix(Trim(text), c) THEN Trim(SubSeq(Trim(text), 3, Len(Trim(text))))
                                              ELSE Trim(text)

\* responseError; the line of an empty body is the status.
ResponseError(status, body) ==
  [code |-> CodeFromStatus(status, Trim(body)), message |-> TrimCodePrefix(body)]
=============================================================================
