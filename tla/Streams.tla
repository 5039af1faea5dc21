---------------------------------- MODULE Streams ---------------------------
(***************************************************************************)
(* The buffered readers and writers of io and the typed buffers.           *)
(***************************************************************************)
EXTENDS Integers, Sequences, SequencesExt

CONSTANTS
    text,                 \* the source
    newline,              \* the character that ends a line
    buffer_size,
    AnyReset,             \* FALSE: no reset once the buffer was filled after the mark
    characters,           \* the source
    Chars,                \* what may be given back
    size,                 \* of the array
    DEFAULT_BUFFER_SIZE,  \* where PushbackReader starts in it, whatever the size
    Bytes,
    bufferSize,
    MaxWritten,           \* bound on the bytes written
    Null,
    Values,
    capacity

VARIABLES
    reader,      \* the buffer's count_ characters, pos_, and position_ of the source
    marks,       \* mark_limit_, and mark_position_ of the source
    at,          \* history: how far the caller has read
    marked,      \* history: where the caller marked
    refilled,    \* history: whether the buffer was filled since
    buffer,
    buffer_pos,
    position,    \* of the source
    rest,        \* history: what the caller should read from here on
    array,       \* the array below: buf_, with Null where nothing was written, and count_
    writer,      \* buffer_ of the writer, and what its file has got
    closed,
    accepted,    \* history: what both were given
    limit,
    reading,     \* history: whether the caller has flipped it
    queue        \* history: what was put and has not been got

-----------------------------------------------------------------------------
(* io::reader::BufferedReader over a StringReader.  BufferedInputStream    *)
(* over a ByteArrayInputStream fills, reads, skips, marks and resets in    *)
(* the same way.                                                           *)

BufferedReader_vars == <<reader, marks, at, marked, refilled>>

Lesser(a, b) == IF a < b THEN a ELSE b

fillBuffer(r) ==
    LET end == Lesser(r.position + buffer_size, Len(text))
    IN [r EXCEPT !.buffer = SubSeq(text, r.position + 1, end), !.pos = 0, !.position = end]

(* A reader with a character to read, if the source has one. *)
NoRefill(r) == [r EXCEPT !.pos = 0]
Ready(r) == IF r.pos >= Len(r.buffer) THEN fillBuffer(r) ELSE r

(* The loop of read and skip: chunks of what the buffer has. *)
RECURSIVE Take(_, _)
Take(r, n) ==
    LET ready == Ready(r)
        chunk == Lesser(Len(ready.buffer) - ready.pos, n)
    IN IF n = 0 THEN r
       ELSE IF ready.buffer = <<>> THEN ready
       ELSE Take([ready EXCEPT !.pos = @ + chunk], n - chunk)

RECURSIVE TakeLine(_)
TakeLine(r) ==
    LET ready == Ready(r)
        next == [ready EXCEPT !.pos = @ + 1]
    IN IF ready.buffer = <<>> THEN ready
       ELSE IF ready.buffer[next.pos] = newline THEN next
       ELSE TakeLine(next)

-----------------------------------------------------------------------------
BufferedReader_Init ==
    /\ reader = [buffer |-> <<>>, pos |-> 0, position |-> 0]
    /\ marks = [limit |-> 0, position |-> 0]
    /\ at = 0 /\ marked = 0 /\ refilled = FALSE

(* The caller has got the characters up to `to'; at the end of the source  *)
(* the buffer is filled with nothing.                                      *)
Reads(r, to) ==
    /\ reader' = r
    /\ at' = to
    /\ refilled' = (refilled \/ r.buffer # reader.buffer \/ r.position # reader.position)
    /\ UNCHANGED <<marks, marked>>

BufferedReader_read == Reads(Take(reader, 1), Lesser(at + 1, Len(text)))
readChars(n) == Reads(Take(reader, n), Lesser(at + n, Len(text)))

LineEnds(from) ==
    LET ends == {i \in from + 1 .. Len(text) : text[i] = newline}
    IN IF ends = {} THEN Len(text) ELSE CHOOSE i \in ends : \A j \in ends : i <= j
readLine == Reads(TakeLine(reader), LineEnds(at))

mark ==
    /\ marks' = [limit |-> reader.pos, position |-> reader.position]
    /\ marked' = at /\ refilled' = FALSE
    /\ UNCHANGED <<reader, at>>

reset ==
    /\ AnyReset \/ ~refilled
    /\ reader' = [reader EXCEPT !.pos = marks.limit, !.position = marks.position]
    /\ at' = marked
    /\ UNCHANGED <<marks, marked, refilled>>

BufferedReader_Next == BufferedReader_read \/ readLine \/ mark \/ reset \/ \E n \in 2 .. buffer_size + 1 : readChars(n)

-----------------------------------------------------------------------------
(* What is left in the buffer and in the source is the rest of the text,   *)
(* from where the caller is: no read, line, skip or return to a mark loses *)
(* or repeats a character.                                                 *)
BufferedReader_DeliversTheRest ==
    SubSeq(reader.buffer, reader.pos + 1, Len(reader.buffer))
        \o SubSeq(text, reader.position + 1, Len(text))
      = SubSeq(text, at + 1, Len(text))

-----------------------------------------------------------------------------
(* io::reader::PushbackReader and PushbackInputStream: characters that are *)
(* given back wait at the end of an array, in front of the source.         *)

PushbackReader_vars == <<buffer, buffer_pos, position, rest>>

From(s, i) == SubSeq(s, i + 1, Len(s))

PushbackReader_Init ==
    /\ buffer = [i \in 1 .. size |-> 0]
    /\ buffer_pos = DEFAULT_BUFFER_SIZE
    /\ position = 0 /\ rest = characters

(* As many of the n as there are: those given back first. *)
PushbackReader_read(n) ==
    LET back == Lesser(n, size - buffer_pos)
        source == Lesser(n - back, Len(characters) - position)
    IN /\ buffer_pos' = buffer_pos + back
       /\ position' = position + source
       /\ rest' = From(rest, Lesser(n, Len(rest)))
       /\ UNCHANGED buffer

(* The last goes in first.  More than there is room for throws. *)
FirstGoesFirst(chars) ==
    /\ Len(chars) <= buffer_pos
    /\ buffer_pos' = buffer_pos - Len(chars)
    /\ buffer' = [i \in 1 .. size |->
                    IF i \in buffer_pos' + 1 .. buffer_pos THEN chars[buffer_pos - i + 1]
                    ELSE buffer[i]]
    /\ rest' = chars \o rest
    /\ UNCHANGED position
unread(chars) ==
    /\ Len(chars) <= buffer_pos
    /\ buffer_pos' = buffer_pos - Len(chars)
    /\ buffer' = [i \in 1 .. size |->
                    IF i \in buffer_pos' + 1 .. buffer_pos THEN chars[i - buffer_pos']
                    ELSE buffer[i]]
    /\ rest' = chars \o rest
    /\ UNCHANGED position

PushbackReader_Next ==
    \/ \E n \in 1 .. size + 1 : PushbackReader_read(n)
    \/ \E c \in Chars : unread(<<c>>)
    \/ \E c, d \in Chars : unread(<<c, d>>)

-----------------------------------------------------------------------------
(* What was given back is read again, in its order and before the source.  *)
PushbackReader_DeliversTheRest == From(buffer, buffer_pos) \o From(characters, position) = rest

-----------------------------------------------------------------------------
(* io::writer::BufferedOutputStream over a ByteArrayOutputStream, whose    *)
(* array grows, and io::writer::BufferedWriter over a file stream.         *)

BufferedOutput_vars == <<buffer, array, writer, closed, accepted>>

Greater(a, b) == IF a > b THEN a ELSE b

ensureCapacity(a, more) ==
    IF a.count + more <= Len(a.buf) THEN a.buf
    ELSE a.buf \o [i \in 1 .. Greater(2 * Len(a.buf), a.count + more) - Len(a.buf) |-> Null]

WriteArray(a, data) ==
    LET buf == ensureCapacity(a, Len(data))
    IN [buf |-> [i \in DOMAIN buf |-> IF i \in a.count + 1 .. a.count + Len(data)
                                      THEN data[i - a.count] ELSE buf[i]],
        count |-> a.count + Len(data)]
toByteArray(a) == SubSeq(a.buf, 1, a.count)

(* A stream is the buffer and the array. *)
flushBuffer(s) ==
    IF s.buffer = <<>> THEN s ELSE [buffer |-> <<>>, array |-> WriteArray(s.array, s.buffer)]

(* The loop that fills the buffer and empties it when it is full. *)
RECURSIVE Copy(_, _)
Copy(s, data) ==
    LET room == IF Len(s.buffer) = bufferSize THEN flushBuffer(s) ELSE s
        n == Lesser(Len(data), bufferSize - Len(room.buffer))
    IN IF data = <<>> THEN s
       ELSE Copy([room EXCEPT !.buffer = @ \o SubSeq(data, 1, n)], SubSeq(data, n + 1, Len(data)))

WriteAround(s, data) ==
    IF Len(data) >= bufferSize THEN [s EXCEPT !.array = WriteArray(@, data)] ELSE Copy(s, data)
Write(s, data) ==
    IF Len(data) >= bufferSize
    THEN [buffer |-> <<>>, array |-> WriteArray(flushBuffer(s).array, data)]
    ELSE Copy(s, data)

(* The writer: what is longer than the buffer goes around it. *)
FlushWriter(w) == [buffer |-> <<>>, file |-> w.file \o w.buffer]
checkAndFlush(w) == IF Len(w.buffer) >= bufferSize THEN FlushWriter(w) ELSE w
append(w, data) == checkAndFlush([w EXCEPT !.buffer = @ \o data])
WriteText(w, data) ==
    IF Len(data) > bufferSize
    THEN [buffer |-> <<>>, file |-> FlushWriter(w).file \o data]
    ELSE append(w, data)

-----------------------------------------------------------------------------
BufferedOutput_Init ==
    /\ buffer = <<>> /\ array = [buf |-> <<Null>>, count |-> 0]
    /\ writer = [buffer |-> <<>>, file |-> <<>>]
    /\ closed = FALSE /\ accepted = <<>>

Stream == [buffer |-> buffer, array |-> array]
Becomes(s) == buffer' = s.buffer /\ array' = s.array

(* After close, writes return and change nothing. *)
write(data) ==
    /\ Len(accepted) + Len(data) <= MaxWritten
    /\ IF closed THEN UNCHANGED <<buffer, array, writer, accepted>>
       ELSE /\ Becomes(Write(Stream, data))
            /\ writer' = WriteText(writer, data)
            /\ accepted' = accepted \o data
    /\ UNCHANGED closed

(* One byte: the stream empties a full buffer first, the writer afterwards. *)
WriteByte(b) ==
    /\ ~closed /\ Len(accepted) < MaxWritten
    /\ Becomes(Copy(Stream, <<b>>))
    /\ writer' = append(writer, <<b>>)
    /\ accepted' = Append(accepted, b)
    /\ UNCHANGED closed

flush ==
    /\ Becomes(flushBuffer(Stream))
    /\ writer' = FlushWriter(writer)
    /\ UNCHANGED <<closed, accepted>>

close == ~closed /\ closed' = TRUE
         /\ Becomes(flushBuffer(Stream)) /\ writer' = FlushWriter(writer)
         /\ UNCHANGED accepted

BufferedOutput_Next ==
    \/ \E b \in Bytes : WriteByte(b)
    \/ \E n \in 2 .. bufferSize + 1, b, c \in Bytes :
          write([i \in 1 .. n |-> IF i = 1 THEN b ELSE c])
    \/ flush \/ close

-----------------------------------------------------------------------------
(* Below arrives what was given, in order: the array and the buffer make   *)
(* up everything accepted, at sizes around the buffer's, nothing waits     *)
(* after close, and the buffers keep to their size.                        *)
ArrivesInOrder ==
    /\ toByteArray(array) \o buffer = accepted
    /\ writer.file \o writer.buffer = accepted
    /\ Len(buffer) <= bufferSize /\ Len(writer.buffer) < bufferSize
    /\ closed => buffer = <<>> /\ writer.buffer = <<>>

-----------------------------------------------------------------------------
(* buffer::ByteBuffer, and the buffers of the other types, which work the  *)
(* same way: one array that is filled, flipped, emptied and compacted.     *)

TypedBuffer_vars == <<array, position, limit, reading, queue>>

remaining == limit - position

TypedBuffer_Init ==
    /\ array = [i \in 1 .. capacity |-> 0]
    /\ position = 0 /\ limit = capacity
    /\ reading = FALSE /\ queue = <<>>

(* Without room, or with nothing left, put and get throw. *)
put(values) ==
    /\ ~reading /\ Len(values) <= remaining
    /\ array' = [i \in 1 .. capacity |-> IF i \in position + 1 .. position + Len(values)
                                         THEN values[i - position] ELSE array[i]]
    /\ position' = position + Len(values)
    /\ queue' = queue \o values
    /\ UNCHANGED <<limit, reading>>

get(n) ==
    /\ reading /\ n <= remaining
    /\ position' = position + n
    /\ queue' = SubSeq(queue, n + 1, Len(queue))
    /\ UNCHANGED <<array, limit, reading>>

(* At an index below the limit, whatever the position. *)
putAt(index, value) ==
    /\ index < limit
    /\ array' = [array EXCEPT ![index + 1] = value]
    /\ queue' = LET k == IF reading THEN index + 1 - position ELSE index + 1
                IN IF k \in DOMAIN queue THEN [queue EXCEPT ![k] = value] ELSE queue
    /\ UNCHANGED <<position, limit, reading>>

flip ==
    /\ ~reading /\ reading' = TRUE
    /\ limit' = position /\ position' = 0
    /\ UNCHANGED <<array, queue>>

clear ==
    /\ position' = 0 /\ limit' = capacity
    /\ reading' = FALSE /\ queue' = <<>>
    /\ UNCHANGED array

rewind ==
    /\ reading
    /\ position' = 0
    /\ queue' = SubSeq(array, 1, limit)
    /\ UNCHANGED <<array, limit, reading>>

(* What is left moves to the front, and is written on from there. *)
StaysInPlace ==
    /\ reading /\ reading' = FALSE
    /\ position' = remaining /\ limit' = capacity
    /\ UNCHANGED <<array, queue>>
compact ==
    /\ reading /\ reading' = FALSE
    /\ array' = [i \in 1 .. capacity |-> IF i <= remaining THEN array[position + i] ELSE array[i]]
    /\ position' = remaining /\ limit' = capacity
    /\ UNCHANGED queue

SetLimit(n) ==
    /\ reading /\ n < limit
    /\ limit' = n
    /\ position' = IF position > n THEN n ELSE position
    /\ queue' = SubSeq(queue, 1, n - position)
    /\ UNCHANGED <<array, reading>>

TypedBuffer_Next ==
    \/ flip \/ clear \/ rewind \/ compact
    \/ \E x \in Values : put(<<x>>)
    \/ \E x, y \in Values : put(<<x, y>>)
    \/ \E n \in 1 .. 2 : get(n)
    \/ \E i \in 0 .. capacity - 1 : SetLimit(i) \/ \E x \in Values : putAt(i, x)

-----------------------------------------------------------------------------
(* What is put is got, in order, over any turns of filling, emptying and   *)
(* compacting, and the position stays within the limit.                    *)
GetsWhatWasPut ==
    /\ position <= limit /\ limit <= capacity
    /\ queue = IF reading THEN SubSeq(array, position + 1, limit) ELSE SubSeq(array, 1, position)
=============================================================================
