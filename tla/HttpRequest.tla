---------------------------- MODULE HttpRequest -----------------------------
(***************************************************************************)
(* The requests of one connection, from the bytes that arrive to the       *)
(* answer: Process_Read and its two state machines, Do_Response, and       *)
(* Process_Write of webserver/src/http_conn.cpp.  A request arrives in any *)
(* pieces; the parser runs after each and goes on where it stopped.        *)
(*                                                                         *)
(* A symbol is CR, LF, a byte of a body, or a token: what a line says, as  *)
(* Parse_Line looks for line ends alone.  The client waits for the answer  *)
(* before it sends another request.                                        *)
(***************************************************************************)
EXTENDS Integers, Sequences, FiniteSetsExt, SequencesExt

CONSTANTS
    RequestLines,   \* the request lines of the clients
    HeaderLines,    \* their header lines
    MaxHeaders,     \* bound: the headers of a request
    BODY            \* the number a NUMBER_FIRST line begins with

CR  == "CR"
LF  == "LF"
NUL == "NUL"
NONE == "none"

(* Header lines that Parse_Head acts on.  It looks for the length with a   *)
(* pattern that matches the empty string, so it finds the digits that the  *)
(* line begins with or nothing, for which stoi throws.                     *)
KEEP_ALIVE   == "Connection: keep-alive"
LENGTH       == "Content-Length: n"
NUMBER_FIRST == "n Content-Length:"

(* Do_Response, by what the URL of a well-formed GET names.                *)
Outcome ==
    [page       |-> "FILE_REQUEST",
     missing    |-> "NO_RESOURCE",
     private    |-> "FORBIDDEN_REQUEST",
     directory  |-> "BAD_REQUEST",
     unreadable |-> "NO_RESOURCE",
     empty      |-> "INTERNAL_ERROR"]

(* Process_Write, by the HTTP_CODE.                                        *)
Status ==
    [INTERNAL_ERROR    |-> 500,
     BAD_REQUEST       |-> 400,
     NO_RESOURCE       |-> 404,
     FORBIDDEN_REQUEST |-> 403,
     FILE_REQUEST      |-> 200]

ASSUME RequestAssumption ==
    /\ {CR, LF, NUL} \cap (RequestLines \cup HeaderLines) = {}
    /\ NONE \notin RequestLines
    /\ MaxHeaders \in Nat
    /\ BODY \in Nat \ {0}

(* A client's request.  "broken" is the number of a line that ends in a    *)
(* bare CR or a bare LF, 0 if there is none.                               *)
Bodies == {[i \in 1..BODY |-> "byte"],
           [i \in 1..BODY |-> IF i = 1 THEN CR ELSE IF i = 2 THEN LF ELSE "byte"]}

Requests ==
    {r \in [line : RequestLines, headers : BoundedSeq(HeaderLines, MaxHeaders),
            body : {<<>>} \cup Bodies,
            broken : 0..(MaxHeaders + 2), ending : {CR, LF}] :
        /\ r.broken <= Len(r.headers) + 2
        /\ r.broken = 0 => r.ending = LF
        /\ Contains(r.headers, NUMBER_FIRST) <=> r.body # <<>>}

NoRequest == [line |-> NONE, headers |-> <<>>, body |-> <<>>,
              broken |-> 0, ending |-> LF]

Wire(r) ==
    LET ending(i) == IF i = r.broken THEN <<r.ending>> ELSE <<CR, LF>>
        n == Len(r.headers) + 2
        line(i) == (CASE i = 1 -> <<r.line>>
                      [] i = n -> <<>>
                      [] OTHER -> <<r.headers[i - 1]>>) \o ending(i)
    IN IF r = NoRequest THEN <<>>
       ELSE FlattenSeq([i \in 1..n |-> line(i)]) \o r.body

VARIABLES
    request,        \* what the client has asked for, NoRequest if nothing
    stream,         \* what it has yet to send of that
    read,           \* m_read_buf_ up to m_read_idx_
    checked,        \* m_checked_idx_
    start,          \* m_start_of_line_
    check,          \* m_check_status_
    lineOk,         \* Process_Read: line_status is LINE_OK
    contentLength,  \* m_content_length_
    url,            \* m_url_
    linger,         \* m_linger_
    code,           \* the HTTP_CODE Process_Write gets
    answer,         \* the response in m_write_buf_
    pc              \* "read": epoll waits for input, "parse": a worker is in
                    \* Process_Read, "file", "respond", "write": epoll waits
                    \* for output, "closed", "terminated"

client == <<request, stream>>
parser == <<read, checked, start, check, contentLength, url, linger>>
result == <<code, answer>>
vars == <<client, parser, lineOk, result, pc>>

NoAnswer == [status |-> 0, keepAlive |-> FALSE]

Init ==
    /\ request = NoRequest
    /\ stream = <<>>
    /\ read = <<>>
    /\ checked = 0
    /\ start = 0
    /\ check = "REQUESTLINE"
    /\ lineOk = TRUE
    /\ contentLength = 0
    /\ url = NONE
    /\ linger = FALSE
    /\ code = "NO_REQUEST"
    /\ answer = NoAnswer
    /\ pc = "read"
-----------------------------------------------------------------------------
(* Mutants of ResetParser: m_linger_ is kept; m_checked_idx_ is.           *)
ResetParserLingers ==
    /\ read' = <<>> /\ checked' = 0 /\ start' = 0
    /\ check' = "REQUESTLINE" /\ contentLength' = 0 /\ url' = NONE
    /\ UNCHANGED linger

ResetParserShort ==
    /\ read' = <<>> /\ check' = "REQUESTLINE"
    /\ contentLength' = 0 /\ url' = NONE /\ linger' = FALSE
    /\ UNCHANGED <<checked, start>>

(* HttpConn::Init().                                                       *)
ResetParser ==
    /\ read' = <<>>
    /\ checked' = 0
    /\ start' = 0
    /\ check' = "REQUESTLINE"
    /\ contentLength' = 0
    /\ url' = NONE
    /\ linger' = FALSE

(* The client asks for something.                                          *)
Ask(r) ==
    /\ pc = "read"
    /\ request = NoRequest
    /\ request' = r
    /\ stream' = Wire(r)
    /\ UNCHANGED <<parser, lineOk, result, pc>>

(* A piece of it arrives: main's Read(), and a worker begins Process_Read. *)
(* Here every recv returns at most 127 bytes, which the char that holds    *)
(* its result can count; what the char makes of more is in HttpIO, as is   *)
(* the end of the buffer.                                                  *)
Read(n) ==
    /\ pc = "read"
    /\ n \in 1..Len(stream)
    /\ read' = read \o SubSeq(stream, 1, n)
    /\ stream' = SubSeq(stream, n + 1, Len(stream))
    /\ lineOk' = TRUE
    /\ pc' = "parse"
    /\ UNCHANGED <<request, checked, start, check, contentLength, url, linger,
                   result>>

(* The client goes before it is answered: CloseConn.                       *)
Hangup ==
    /\ pc \in {"read", "write"}
    /\ pc' = "closed"
    /\ UNCHANGED <<client, parser, lineOk, result>>

(* Another client gets the descriptor and the object: Init(fd, ...).       *)
Reuse ==
    /\ pc = "closed"
    /\ request' = NoRequest
    /\ stream' = <<>>
    /\ ResetParser
    /\ code' = "NO_REQUEST"
    /\ answer' = NoAnswer
    /\ pc' = "read"
    /\ UNCHANGED lineOk
-----------------------------------------------------------------------------
(***************************************************************************)
(* Process_Read.                                                           *)
(***************************************************************************)
Ends == {i \in (checked + 1)..Len(read) : read[i] \in {CR, LF}}
LineEnd == Min(Ends)

(* Parse_Line: LINE_OK if what follows m_checked_idx_ up to the first CR   *)
(* or LF ends in CR LF.  LINE_OPEN and LINE_BAD have the same effect, and  *)
(* a LF behind a CR that was read earlier is never found: m_checked_idx_   *)
(* does not move in between.                                               *)
LineFound ==
    /\ Ends # {}
    /\ LineEnd < Len(read)
    /\ read[LineEnd] = CR
    /\ read[LineEnd + 1] = LF

(* Mutant of TakeLine: the line end is left in the buffer.                 *)
TakeLineAsIs ==
    /\ checked' = LineEnd + 1
    /\ start' = checked'
    /\ UNCHANGED read

(* The line end becomes two NULs, and the next line starts behind it.      *)
TakeLine ==
    /\ read' = [read EXCEPT ![LineEnd] = NUL, ![LineEnd + 1] = NUL]
    /\ checked' = LineEnd + 1
    /\ start' = checked'

(* The condition of the loop: a line is parsed unless a body is due.       *)
BodyDue == check = "CONTENT" /\ lineOk

ParseLine ==
    /\ pc = "parse"
    /\ ~BodyDue
    /\ LineFound
    /\ TakeLine

(* text, as Get_Line finds it.                                             *)
Text == SubSeq(read, start + 1, LineEnd - 1)

(* No line: NO_REQUEST, and EPOLLIN is watched again.                      *)
NoLine ==
    /\ pc = "parse"
    /\ ~BodyDue
    /\ ~LineFound
    /\ lineOk' = FALSE
    /\ pc' = "read"
    /\ UNCHANGED <<client, parser, result>>

(* Parse_Request_Line.                                                     *)
RequestLine(l) ==
    /\ check = "REQUESTLINE"
    /\ ParseLine
    /\ Text = <<l>>
    /\ check' = "HEADER"
    /\ url' = l
    /\ UNCHANGED <<client, lineOk, contentLength, linger, result, pc>>

BadRequestLine ==
    /\ check = "REQUESTLINE"
    /\ ParseLine
    /\ \A l \in DOMAIN Outcome : Text # <<l>>
    /\ code' = "BAD_REQUEST"
    /\ pc' = "respond"
    /\ UNCHANGED <<client, lineOk, check, contentLength, url, linger, answer>>

(* Parse_Head: the blank line, and the others.                             *)
HeadLine(text) ==
    /\ check = "HEADER"
    /\ ParseLine
    /\ Text = text
    /\ UNCHANGED <<client, lineOk, url, result>>

EndOfHead ==
    /\ HeadLine(<<>>)
    /\ IF contentLength # 0 THEN check' = "CONTENT" /\ UNCHANGED pc
                            ELSE pc' = "file" /\ UNCHANGED check
    /\ UNCHANGED <<contentLength, linger>>

KeepAliveHead ==
    /\ HeadLine(<<KEEP_ALIVE>>)
    /\ linger' = TRUE
    /\ UNCHANGED <<check, contentLength, pc>>

(* stoi throws, and nothing catches it in the thread.                      *)
LengthHead ==
    /\ HeadLine(<<LENGTH>>)
    /\ pc' = "terminated"
    /\ UNCHANGED <<check, contentLength, linger>>

NumberFirstHead ==
    /\ HeadLine(<<NUMBER_FIRST>>)
    /\ contentLength' = BODY
    /\ UNCHANGED <<check, linger, pc>>

(* Host, which sets m_host_ for nobody, and headers it does not know.      *)
OtherHead ==
    /\ HeadLine(Text)
    /\ Text \notin {<<>>, <<KEEP_ALIVE>>, <<LENGTH>>, <<NUMBER_FIRST>>}
    /\ UNCHANGED <<check, contentLength, linger, pc>>

(* Mutant of Content: a byte more than the body is waited for.             *)
ContentLate ==
    /\ check = "CONTENT"
    /\ \/ /\ BodyDue
          /\ pc = "parse"
          /\ start' = checked
          /\ UNCHANGED <<read, checked>>
       \/ ParseLine
    /\ IF Len(read) > contentLength + checked'
       THEN pc' = "file" /\ UNCHANGED lineOk
       ELSE lineOk' = FALSE /\ UNCHANGED pc
    /\ UNCHANGED <<client, check, contentLength, url, linger, result>>

(* Parese_Content: all of the body is there, or more is to come.  If a     *)
(* part of it is and holds a CR LF, the loop takes that for a line.  (The  *)
(* NUL that is written behind the body goes with the buffer.)              *)
Content ==
    /\ check = "CONTENT"
    /\ \/ /\ BodyDue
          /\ pc = "parse"
          /\ start' = checked
          /\ UNCHANGED <<read, checked>>
       \/ ParseLine
    /\ IF Len(read) >= contentLength + checked'
       THEN pc' = "file" /\ UNCHANGED lineOk
       ELSE lineOk' = FALSE /\ UNCHANGED pc
    /\ UNCHANGED <<client, check, contentLength, url, linger, result>>

DoResponse ==
    /\ pc = "file"
    /\ code' = Outcome[url]
    /\ pc' = "respond"
    /\ UNCHANGED <<client, parser, lineOk, answer>>

(* Process_Write fills an empty write buffer and asks for EPOLLOUT.        *)
ProcessWrite ==
    /\ pc = "respond"
    /\ answer' = [status |-> Status[code], keepAlive |-> linger]
    /\ pc' = "write"
    /\ UNCHANGED <<client, parser, lineOk, code>>

(* The response is sent: Write ends in Init() or the connection is closed. *)
Sent ==
    /\ pc = "write"
    /\ IF linger
       THEN /\ request' = NoRequest
            /\ ResetParser
            /\ code' = "NO_REQUEST"
            /\ answer' = NoAnswer
            /\ pc' = "read"
            /\ UNCHANGED <<stream, lineOk>>
       ELSE /\ pc' = "closed"
            /\ UNCHANGED <<client, parser, lineOk, result>>

ProcessRead ==
    \/ NoLine
    \/ \E l \in DOMAIN Outcome : RequestLine(l)
    \/ BadRequestLine
    \/ EndOfHead
    \/ KeepAliveHead
    \/ LengthHead
    \/ NumberFirstHead
    \/ OtherHead
    \/ Content

Next ==
    \/ \E r \in Requests : Ask(r)
    \/ \E n \in 1..Len(stream) : Read(n)
    \/ Hangup
    \/ Reuse
    \/ ProcessRead
    \/ DoResponse
    \/ ProcessWrite
    \/ Sent

Spec == Init /\ [][Next]_vars
-----------------------------------------------------------------------------
(* Every variable has its type.                                            *)
TypeOK ==
    /\ request \in Requests \cup {NoRequest}
    /\ \E n \in 0..Len(Wire(request)) :
            stream = SubSeq(Wire(request), n + 1, Len(Wire(request)))
    /\ checked \in 0..Len(read)
    /\ start \in 0..Len(read)
    /\ check \in {"REQUESTLINE", "HEADER", "CONTENT"}
    /\ lineOk \in BOOLEAN
    /\ contentLength \in {0, BODY}
    /\ url \in DOMAIN Outcome \cup {NONE}
    /\ linger \in BOOLEAN
    /\ code \in DOMAIN Status \cup {"NO_REQUEST"}
    /\ answer \in [status : Nat, keepAlive : BOOLEAN]
    /\ pc \in {"read", "parse", "file", "respond", "write", "closed",
               "terminated"}

(* All that has been read was sent, in order, and what is in front of      *)
(* m_checked_idx_ was read as lines to their ends: no CR or LF in there    *)
(* can be taken for the end of a later line, and the branch of Parse_Line  *)
(* for a CR in front of m_checked_idx_ is never reached.                   *)
LinesTaken ==
    /\ start = checked
    /\ checked <= Len(read)
    /\ \A i \in 1..checked : read[i] \notin {CR, LF}
    /\ pc # "closed" =>
          LET sent == Wire(request)
          IN /\ Len(read) + Len(stream) = Len(sent)
             /\ \A i \in (checked + 1)..Len(read) : read[i] = sent[i]

(* The requests the properties are about: every line ends as it should, no *)
(* header makes stoi throw, and no body can be taken for lines.            *)
Proper(r) ==
    /\ r \in Requests
    /\ r.broken = 0
    /\ ~Contains(r.headers, LENGTH)
    /\ \A i \in DOMAIN r.body : r.body[i] = "byte"

(* The answer due to a request, from the request as a whole.               *)
Due(r) ==
    IF r.line \notin DOMAIN Outcome THEN [status |-> 400, keepAlive |-> FALSE]
    ELSE [status |-> CASE r.line = "page" -> 200
                       [] r.line = "private" -> 403
                       [] r.line = "directory" -> 400
                       [] r.line = "empty" -> 500
                       [] OTHER -> 404,
          keepAlive |-> Contains(r.headers, KEEP_ALIVE)]

(* Wherever a request is cut, and whatever requests the object has served  *)
(* before, the answer is the one due; and unless its first line is refused *)
(* it is not given before the last byte has been read.                     *)
AnswerDue ==
    Proper(request) /\ pc = "write" =>
        /\ answer = Due(request)
        /\ request.line \in DOMAIN Outcome => stream = <<>>

(* A request that has been read to its last byte is not left waiting for   *)
(* more input.                                                             *)
NoneWaits == ~(Proper(request) /\ stream = <<>> /\ pc = "read")
=============================================================================
