# RTMPServer: TLA+ models, checks and proofs

RTMPServer is a small RTMP server in C++. One thread accepts clients and queues
their sockets; a fixed pool of threads takes them from the queue, and each runs
the RTMP handshake, reads the client's `connect` command and answers it. This
directory holds its models. Paths in this file are relative to the root of the
repository.

There are no tests in the repository and no design document. What the program is
meant to do is taken from its comments, each quoted in PROJECT.json where the
code does something else.

## 1. The system

| component | state | operations | promises worth checking |
|---|---|---|---|
| Start-up, accept loop (`server.cpp`, `src/Server.cpp`, `src/rtmp/RTMPServer.cpp`) | the listening socket, the global `queue` pointer, `_client_fd` | socket/bind/listen with retry, creation of the pool, accept, push under the mutex, `notify_one` | an accepted socket is never lost and never owned twice |
| Worker pool, request queue (`src/rtmp/RTMPServer.cpp`) | `queue`, `mutex`, `condition`, per thread its place and descriptor | lock, wait, front, pop, serve | first in first out, one worker per client, no lost wakeup |
| RTMPHandshake (`src/rtmp/RTMPHandshake.cpp`) | the globals `client_handshake` and `randomBytes`, the `rand` generator, an array on the stack | read C0/C1, build and send S0/S1, send S2, read and compare C2 | a client gets its own bytes back; only a client that returns the greeting passes |
| RTMPConnexion (`src/rtmp/RTMPConnexion.cpp`) | socket, `connect_packet`, buffer of the read and its cursor | handshake, up to two reads, dispatch on message type, replies, close | every byte is processed once, the socket is closed once, replies follow a connect |
| RTMPHeaders (`src/rtmp/RTMPHeaders.cpp`) | the fields of one header | parse; build a basic and a message header | what is parsed is what was sent |
| Buffer (`src/utils/Buffer.cpp`) | pointer, cursor, size, shared by copies | append, append of a Buffer (frees the other), move, free | memory is freed once; the end is recognised |
| AMF0Decoder / AMF0Encoder / AMFDataPacket (`AMF0/`) | a packet: maps from names to values; `byteError` | decode a body, skipping a chunk header found inside it; encode a packet | decode consumes the body; encode then decode gives the packet back |
| AMF3 library (`AMF3/`) | per side three tables (strings, traits, objects); the serializer's bytes, the caller's iterator | write an item of any class, with references to what is in the tables; read one; clear either side. Linked, and never called by the server | what is read is what was written; the tables of both sides agree; a cut stream is noticed |
| Logger, exceptions | none | print | none |

How they interact. `RTMPServer::run` and the workers share `queue`, `mutex` and
`condition`. A worker constructs an `RTMPConnexion` for its descriptor, which
constructs an `RTMPHandshake` (which uses globals of its own file, so all workers
share them), then calls `receive`, `RTMPHeaders`, `Buffer` and the AMF0 decoder in
one loop, and the header builder and the AMF0 encoder for the replies.
`SocketException` is how every failed call ends a connection; the constructor of
`RTMPConnexion` catches it and closes the socket.

What is hard. *Concurrency*: the hand-off through a condition variable without a
predicate; two workers in their handshakes on the same arrays; the one random
generator of the process. *Delivery*: TCP cuts the client's stream anywhere, and
the code treats each read as whole messages. *Failure*: failing socket, bind,
listen, accept, `pthread_create`, read and send; SIGPIPE. *Numbers*: byte order,
three-byte fields read as words, a decoder that guesses. *Memory*: copied
`Buffer` objects share memory that one of them frees. *Two sides*: a serializer and a
deserializer each build their own tables, and no byte says when they disagree. PROJECT.json lists each
hazard at its line with the property that would notice it.

## 2. The modules

```
HandOff  <--refines--  RTMPServer     (start-up, accept loop, pool)
                           | one phase "serve" stands for
                       RTMPConnexion  (one connection)
                           | one step "handshake" stands for    | a header is its length and kind, from
                       RTMPHandshake  (all workers at once)      RTMPHeaders (bytes)
                                                                 | a command's `error` comes from
                                                              AMF0Decoder (bytes)
                       Buffers        (the heap memory of all that a worker receives and builds)

                       AMF3  =  AMF3Serializer + AMF3Deserializer + the stream between them
                                     \ AMF3Items, AMF3Integer /
```

Each module has an `MC...` module with the instance TLC explores and one or more
`.cfg` files, and a `...Proofs` module. HandOff is
checked through RTMPServer. **Recursion** is a library of the proofs, about naturals and functions defined by recursion; it says nothing about
the program.

**HandOff** is the abstract specification of accept loop and pool: a sequence of
pending connections and what each worker serves. No locks, no condition variable.

**RTMPServer** models the process. `mpc` is the place of the main thread, `wpc[w]`
of each worker. A step is what happens between two points where another thread can
get in: a library call, or a stretch under the mutex. `StartUp` has
`SocketFails`, `BindFails`, `ListenFails`, `Listen` (`Server::initializeServer`, retried by `run`),
`CreateThread` (`ThreadInitializer`, which ignores a failure) and `NewQueue`
(`queue` is null until then, with the workers already running). A failed attempt leaves its socket open; `portFD`
is the socket that has the port, and after a failed listen that is one nobody listens on, so every later
bind fails. `AcceptLoop` has
`AcceptClient`, `AcceptFails` (whose -1 is pushed like a client), `LockToPush`, `Push`
and `Notify`. A worker has `Lock`, `Wait`, `Reacquire`, `ReturnEmpty`, `Front`, `Pop`
(`getThreadSafeClientFD`), `NullQueue` for the queue through a null pointer, and
`SpuriousWakeup`. A connection is the phase `serve`, left by `CloseConnexion` or,
when it takes the process down, `CrashConnexion`. Descriptors are the kernel's:
a number that is closed may be given to the next client.

**RTMPHandshake** models the two global arrays with every worker in
its own handshake. Each library call (read, memmove, memset, srand, one rand, send,
memcmp) is one atomic step. The calls are not atomic in the program, and the arrays
are raced over; two handshakes that mix inside one call have the same two outcomes
for the properties here, an array that is its worker's or one that is not. Bytes
are symbols: byte *k* of client *c*, the *k*-th number since `srand`, zero, the
version, something else. That distinct symbols are distinct bytes is an
abstraction: equal random bytes would only make two arrays equal more often. A client
answers (`Answers`) with the greeting or with one byte of it replaced, also by a byte that another
worker has or will have at that place of `randomBytes`; so a wrong answer may meet an array that equals it. The
array that the answer is read into is not initialised; `Leftovers` chooses what
it holds among what the worker's handshake before left there (`back`, zeros if there was none), zeros, and something
else. `clientOf` and `randomOf` are history: whose the arrays are as long as nobody
else wrote to them.

**RTMPConnexion** models one connection over every way to cut its stream. A message
is its start, header length, `message_length`, the chunk headers that lie inside its
body (`extra`), what the decoder counts of those (`error`, the code's `byteError`)
and its kind: what the dispatch of `processBody` makes of it. `Receive(n)` is a read of
*n* bytes. `SkipMessage`, `AnswerChunkSize`, `StoreConnect` are the turns of the loop
on a header that is there; `CutCommand` decodes a command that is cut by the end of the
read; `Stray` is a turn with the cursor anywhere else, where the code interprets
whatever the memory holds. `EndOfBuffer` is `is_end()`, true at the exact end only.
`ReceiveFails` is the -1 of a failed read, which becomes a length. `SendReply` keeps
the `&&` of `processRequest`: a reply goes out only if the one before could not.
`cut` and `astray` are history.

**RTMPHeaders** models headers byte by byte: the constructor's parsing with its
shifts, masks and swaps on little-endian words, `atoi` on the bytes of a chunk
stream id, and the builders, with their exceptions as the empty sequence. A client's
header is laid out as the drawings over the parsing functions say.

**AMF0Decoder** models `BlockDecoder` on one body, byte by byte. The client's packet
is a sequence of values, encoded as AMF0 asks and with the header of a chunk put
between any two of its bytes, or none. `BlockValue`, `SkipValue` and `OpenObject` are
the cases of the `switch`, `Pair` and `CloseObject` the turns of `processObject`'s loop and
its end, `Finish` the return. `TypeAt` and `Readable` look at the byte where the decoder
believes a type to be, so a decoder that is off by one byte goes on with whatever it finds.
`Foreseen` describes the bodies the decoder is made for. RTMPConnexion calls a
stream whose commands all have such bodies `Regular`: `HeadersCounted` here is what makes
its `error = extra` true. `UniTypeDecoder` is called by nobody and left out.

**Buffers** models one outermost call of a function that makes a `Buffer`: a builder
of RTMPHeaders, `BlockEncoder`, a reply, or `receiveAndProcessConnect`. `frames` is the
call stack. Each function is a list of steps on its own Buffer (`encodeString`, `MessageHeader`,
`Reply` and so on are these lists, with the sizes from the code, the 16 bits of a swapped length included), and the actions are what
a step does to memory: `AppendBytes` is `append(const char*, int)`, where `realloc` stays or
moves, `Return` hands a Buffer to the caller, which takes it or does `append(Buffer)` and
frees it, `UseBuffer` is a send of it or the parsing of what was read, `FreeBuffer` frees and leaves the
pointer where it was, as `free_buffer` does, `CheckThrows` unwinds to the function that catches, and `Catch` says what becomes of that
function's own Buffer. `Returns` names the functions that return a Buffer; what another one still holds at its end is lost. `Needs` says
until when a call needs its Buffer: as long as it has something to append, use, free or return. `AppendToLocal` is the end of the process in `encodeBoolean`, whose
Buffer begins on the stack. RTMPConnexion and RTMPHeaders take all this for sequences.

**AMF3** puts a serializer, a deserializer and the stream between them together: `WriteItem`
is `Serializer::operator<<`, `ReadItem` one call of `Deserializer::deserialize` (or
`AmfPacket::deserialize`) on what has arrived, `ChangeItem` the program changing an item that it
wrote or will write, `ClearAll` the clear of both sides, `Arrive` the stream whole or cut anywhere,
`StartOver` the reader's `clearContext` after an exception. The two halves are modules of their own
and meet in bytes only. In **AMF3Serializer** a context is threaded through the calls, in their
order: the three tables, the bytes, an exception on its way. What the code does by
recursion, a container that serializes what is inside of it, is here a stack, `todo`: `Serialize` writes the head
of an item (one `Serialize...` operator per class), `Pieces` is what is written behind the head (names, items,
the mark of an end), `SerializeStep` writes the next piece of the innermost container or leaves it, and
`SerializeItem` steps until the stack is empty. An entry of the objects' table is a copy that shares its insides
(`copy`, `At`), as `addObject` makes it, and `Same` compares with it as `getIndex` does. The history field
`was` is the item at the time. **AMF3Deserializer** is alike: a reader is threaded through `Deserialize` and
one `Read...` operator per class, and its `stack` has the containers that are begun, each with what it `Wants`
next: members until the empty name, a number of items, the values of the attributes, keys and values. `Deliver` puts an item that was
read where it is wanted. An exception passes over what is left (`Then`), as it does in the code. `Keep` and
`Open` are the two ways an item gets its place in the table: `addObject` when it is read, `addPointer` before its insides are.
**AMF3Items** has what both use, **AMF3Integer** the 29-bit integers, which are
lengths, references and traits as well. What cannot be right in the bytes is marked where it is written,
by clearing `sound`: a reference beyond its byte, an empty member name, a key that
becomes another's, a class nobody registered, a reference after a refusal (`drifted`), a
reference to an entry whose insides have changed; any number that `network_bytes` should turn round and does not
(`EmitNumber`: counts, lengths, doubles and dates on a little-endian host, unless they are the same both ways), and a
date that a double cannot say. `RoundTrip` claims everything else. A packet
item whose bytes end behind a length of zero is not refused: `Stray` is the iterator one past the end
(amfpacket.cpp:61 and :125), and `Lose` the end of what can be said when the memory there happens to look like a
marker; when it does not, the reader is refused like any other.

### Abstractions and bounds

* `MaxQueue`, `MaxSpurious` (RTMPServer): how long the queue may be when accept fails,
  and how many spurious wakeups happen. Clients in the queue are bounded by
  the descriptors.
* `C1Sizes`, `C2Sizes`, `N` (RTMPHandshake): what reads return and the size of the arrays; `C2Sizes` of `handshake_unread` has a
  failed read, a short and a full one. `WrongAt`, `WrongBytes`: where an answer is wrong, and by what. `Keeping`: the
  workers whose stack survives until the next handshake, the one of `handshake_unread`; in the other runs it is overwritten in between.
* `Streams`, `BufSize`, `MaxMessages` (RTMPConnexion). `Stray` leaves the cursor in
  the buffer or one byte past it, which stands for any place outside; in `CutCommand`
  the decoder is off by one byte at most.
* `Garbage` and `Stacks` (RTMPHeaders): one value for what an unwritten field holds, two
  for an unwritten byte. `atoi` ends with the bytes sent and does not overflow.
* `Packets`, `Cuts`, `Behind` (AMF0Decoder), bounded by `MaxValues` and `MaxCut` in its MC
  module. A byte needed from outside the buffer ends the decoding (`Outside`);
  what the code makes of the memory there is not followed. The names `number-1`,
  `string-1` and so on are places in a sequence, which is what the counters make of them.
* `Cells`, `Calls` (Buffers). Four pieces of memory are enough for the deepest call (packet,
  object, string) and a place for one of them to move to; no run is stuck for want of one. The
  contents of memory are left out, and memory does not run out.
* `MaxItems`, `MaxCut`, `MaxMore`, `Alone`, `MaxLength` (AMF3): items in a stream, how long a stream may be to
  be cut and to be continued, which items (those that fill a table) only begin one, and the length from which on `asLength` refuses (2^27 in the
  code). After one refusal that leaves the tables ahead there is no other. An item is a record with the
  fields of all classes; doubles and the milliseconds of dates are their eight bytes, `AsDouble` and `AsLong` the conversions between the
  two, the text of a number is a constant, the words
  for other keys are cut to initials. The externalizer and the function registered for a
  class are the program's: one byte, or an exception. `MaxSteps` bounds the steps of writing one item, in eights
of pieces (an item is written only if it ends within them), `Height` is a measure of how deep each
item is; the reader needs no bound, since it ends by itself (`ReaderEnds`). `AMF3Assumption` says what the items of a program are:
records of their class, as the C++ types have them, and none inside of itself. Left out: items that contain
  themselves and references to a container that is still being read, counts of 65536 and more, the hash
  of a dictionary's keys (their order is any).
* Left out: addresses, ports, the backlog, sleeping before a retry, logging. The log
  line of `processBody` indexes a string literal with the message type, which is out
  of its bounds for types over 16; nothing follows from it in the models.

## 3. The runs

Passing runs; none uses a state constraint. All disable TLC's deadlock check because
the system may stop: a dead process, a worker that is done, a server no client comes to.

| run | instance | what it shows |
|---|---|---|
| `server_pool` | 2 workers, 3 descriptors (one for the listening socket), a failed accept and a spurious wakeup, no assumption about clients; 67,604 states | `OneOwner`: a client's socket is in the accept loop's hands, once in the queue, or with one worker. `WakeupsBacked`: leaving spurious wakeups aside, a woken worker finds an entry, so the test for an empty queue and the null queue are reached by spurious wakeups only. `HandOffSpec`: the code implements HandOff. `HeadServed`: with a wakeup under way the head of the queue reaches a worker. `SilentHoldOwnWorker`: an accepted client is queued whatever the other clients do, and a worker whose own client answers comes back to wait. |
| `handshake_shared` | 2 workers, 2 clients, 13-byte arrays (version, 8 bytes of head, 2 random bytes, 2 never filled), answers wrong at the first or the last byte compared, by a byte of another worker's greeting or none; symmetric in both; 1,602,024 states | What the handshake still guarantees in spite of the shared arrays. `OwnBytesBack`: as long as nobody else read into the array, a client is sent its own bytes. `HonestCompletes` and `WrongRefused`: as long as nobody else wrote to `randomBytes` since the greeting was sent, the right answer completes, and one with a wrong byte is refused, even if the byte was another worker's before. |
| `connexion_stream` | every stream of up to 2 messages of 7 samples, reads of any length up to 8 bytes; 99,443 states | `ClosedOnce`; `InStep`, `NoConnectMissed`: correct as long as reads end between messages; `RepliesEarned`; `AckSent`: a connect command that was found is answered; `ConnexionEnds`. |
| `amf0_decoder` | every packet of up to 3 values from ten samples (both kinds of number, boolean, string, null, undefined, four objects), a chunk header after any of the first 24 bytes or none, nothing or two bytes behind the body; 248,453 states | `Faithful`: a foreseen body is decoded to what was sent. `HeadersCounted`: and the header in it is counted, so the cursor of the connection is right. `CommandKept`: the command survives every misreading behind it. `DecoderEnds`. |
| `buffers` | all 96 combinations of arguments of a header, 42 packets with and without each part, all replies, reads that fail, are empty or hold up to 2 chunk size messages; 1,307 states up to symmetry | `OwnMemory`: no Buffer is sent, parsed, appended to or freed after it was freed, or believes in more memory than it has. `NothingLost`: the encoder frees what it has when a value is missing. `AllOrNothing`: no part of a header or a packet is returned. |
| `headers` | ids at the limits of the basic headers, numbers with different bytes, the builders' default arguments; 19,880 states | `ClientHeaderRead` for all types; `ServerHeaderRead` for full headers. |
| `amf3` | streams of up to 2 of 26 items with 130 more inside them: every class, integers and lengths at the limits of their bytes, tables up to their last reference and one beyond, items that share others, that are refused, that change; cuts of streams up to 20 bytes; both byte orders; 250,459 states | `RoundTrip`: what is read is what was written, unless the bytes do not say it (`sound`), also through references, after a change, a clear, a refusal, a cut. `TablesInStep`: the three tables agree when all is read. `CutIsNoticed`: of a cut stream exactly the items that are there are read. |

Why the bounds are enough. Two workers and two clients make every pairwise race;
three descriptors let a number be reused while an old copy could still be around and
leave room for one client served, one queued. A queue of one more entry adds no new
kind of step. The handshake's loop treats all random bytes alike; the two
bytes of the ends of the compared range, and one behind it, are what an off-by-one
touches. In a stream the second item is the one that refers to the first, to
its strings or traits; longer chains repeat that. Two reads are all the code makes, so two messages show a connect in the
first, the second, in both and in neither, and a message behind another in one read.
The theorems of section 5 remove the bounds for the safety properties.

Runs that refute a statement of the source, one property each:

| run | the source says | what happens |
|---|---|---|
| `server_lost_wakeup` | "Infinite loop for threads to process new requests" (RTMPServer.cpp:41) | a client queued while no worker sleeps is announced to nobody; the worker then waits, without looking at the queue, beside a queued client. In the trace the one worker exists and has nothing else to do |
| `handshake_mixed_up` | "it will safe those bytes to return them to client later" (RTMPHandshake.cpp:35) | a second worker's read replaces them: a client is sent another's bytes |
| `handshake_unread` | "Client didn't return handshake correctly" (RTMPHandshake.cpp:100) | after an honest client's handshake, the next client's answer is short or its read fails; the comparison is with the bytes the first left on the stack, and passes. One worker is enough |
| `connexion_split` | "we iterate till every byte is processed" (RTMPConnexion.cpp:104) | a read that ends inside a message sends the cursor past the end of the buffer |
| `headers_length` | "message_length = 4 bytes" (RTMPConnexion.cpp:185) | `htonl(len) << 8` keeps the wrong bytes: the length on the wire is 0 |

Observed while modelling, present in the models, and without a run:
`wait` has no predicate and a spurious wakeup reaches an empty queue, or a null one and ends
the process (`SpuriousWakeup`, `NullQueue`), where RTMPServer.cpp:74 says the threads "will then
be suspended until requests arrive"; a second worker that rebuilds `randomBytes` (`FillHead` to `DropVersion`) makes a correct answer be
refused, where RTMPHandshake.cpp:52 says "if same bytes sended conexion is completed";
a failed bind or listen leaves its socket open and the retry opens another
(`BindFails`, `ListenFails`), so enough retries run out of descriptors, and after one failed listen the port is
taken by the server itself and no retry succeeds;
a client whose answer is wrong is accepted if another worker has put the same wrong byte into `randomBytes` (`Compare`; the
premise of `WrongRefused`);
the three replies are joined by `&&` and `== -1`, so each goes out only if the one before could not
(`SendReply`) and a client that connects is sent the first, where RTMPConnexion.cpp:74 says "send window ack,
set peer bandwidth and result command" (`AckSent` is what is left of it); the failed read that ends
the process rather than the connection (`ReceiveFails`), where RTMPConnexion.cpp:48
says "in error close socket"; the second time field of the handshake is bytes 4 to 7
and the code clears 5 to 8 (`Stamp`); the greeting is one byte longer than
the 1537 its error message names (`SendRandom`); a basic header never gets the two
bits of its message header's type (`BasicHeader`), so a built header of type 1 or 2
reads as type 0 (`ServerHeaderRead` is about type 0 for that reason); chunk
stream ids of two and three bytes are read as text (`Atoi`), so `ClientHeaderRead`
claims the id for one-byte headers only. In the decoder, `BooleanAt` is the byte behind
the boolean, where AMF0Decoder.cpp:161 says "Always one byte true set to 0x01 and false set
to 0x00"; a null takes the type of the next value along (`SkipValue`); a number whose last
byte is 0xC3 is taken for one with a chunk header in it, and a chunk header anywhere but
before the last byte of a number is read as data. In AMF3, `network_bytes` returns the bytes as they were
(`NetworkBytes`): on a little-endian host doubles and dates come out reversed, where amfdouble.cpp:22 says
"Dates are always encoded as 64bit double in network order." (`RoundTrip` does not claim them), and a packet with anything in it cannot be read back,
where amfpacket.cpp:20 says "U16 length (in network order)"; a date beyond 2^53 milliseconds loses its last bits in a double (`SerializeDate`); a header or message
whose length of zero is the last thing there is makes the reader look one byte past the end (`Stray`), where
amfpacket.cpp:60 says "this check always fails"; the 65th string or object and the 33rd
traits are referred to as the first (`EmitReference`, `SerializeTraits`); an exception in the middle of an item leaves the
tables ahead of the bytes (`Write`), and the next references are off; an entry whose insides were
changed after it was written is found equal to an item it is not the bytes of (`Same`); an empty member name
ends its object. In Buffers, a refused header loses the
memory built so far (`Catch` drops it), where Buffer.cpp:69 says of `free_buffer` "this method should
always be called, for each buffer"; `encodeString` appends a number of bytes whose two bytes are
swapped (`Swapped`); a packet with a boolean ends the process. None of these is reached by
the replies of the server: its headers are acceptable, and the packet of `sendResulCommand` has
its "_result" under the booleans, so `BlockEncoder` returns nothing for it.

Every property of a passing run has a mutant in PROJECT.json: a definition of
the model, changed the way a slip in the code would change it, under which TLC finds
the property violated. The changed definitions stand beside the originals under the
heading "Mistakes".

## 4. Fairness

`server_pool` uses `ThreadSpec` of RTMPServer, `server_lost_wakeup` `FairSpec`. Threads are
scheduled, so a step that stays possible is taken (weak fairness). Taking the mutex is
strongly fair for each thread: it is contended, and a POSIX mutex with a handful of
threads lets every one of them in in the end; without it one worker could be passed
over for ever and nothing could be said. `ThreadSpec` ends here: a client that is served may stay
silent, and its worker waits in `read` for as long (the code sets no timeout). `FairSpec` adds
`ClientAnswers` for every worker: a connection that is served ends, because the client
answers, closes or is reset. Nothing makes a client arrive, an attempt to listen succeed, a call fail, a spurious
wakeup happen, or the process crash; so nothing is promised about start-up, and `server_lost_wakeup` is refuted with every
thread doing all it can, and with every thread there: `EveryRequestTaken` asks nothing of a pool in which a
`pthread_create` failed.

`connexion_stream` uses `FairSpec` of RTMPConnexion: the worker runs and a blocking
call returns. The code sets no timeout, so this is an assumption about clients: one
that stays connected and silent holds its worker for ever. `SilentHoldOwnWorker` of RTMPServer says
what that does to the pool.

`amf0_decoder` uses `FairSpec` of AMF0Decoder: a loop that calls nothing that blocks runs on.

## 5. The theorems

All proofs are checked by TLAPS, for every value of the constants within the
assumptions named in the modules. TLC evaluates these assumptions in the
runs.

**RTMPServerProofs** (`ServerAssumption`: `NoFD` is no descriptor, the worker set is
finite and does not contain the two names that stand for other owners of the
mutex). The inductive invariant `CoreInv` is `TypeOK`, `MutexInv` (who holds the mutex
is who is at a step under it) and `PopInv` (a worker between `front` and `pop` has
the head of the queue in hand). `PopInv` needs `MutexInv`: no other worker can pop
in between. On it rest `TypeCorrect`; `OneOwnerAlways`; `WakeupsBackedAlways`, by counting
the woken workers before and after each step; and `ImplementsHandOff`: each step of the
server is a step of HandOff or none, where `Pop` is `Start` or `Discard` because of `PopInv`.

**RTMPHandshakeProofs** (`HandshakeAssumption`: arrays of at least 12 bytes, reads
that fail or stay within the arrays, symbols of clients apart from the others). Besides `TypeOK`, which
says that the loop counter stays in the array, `SavedInv` follows the client's bytes
through the shift and the clearing while `clientOf` is the worker, `GreetingInv` says that
`randomBytes` is what was sent (shifted once the version is dropped) while `randomOf` is
the worker, and `AnswerInv` relates the bytes on the stack to the kind of the answer.
They give `TypeCorrect`, `OwnBytesBackAlways`, `HonestCompletesAlways` and
`WrongRefusedAlways`. The last follows from `GreetingInv` and `AnswerInv`: while nobody else writes to it, `randomBytes` is the
greeting without its version, so an answer that differs from the greeting anywhere differs from it there. Any bytes may have been
in the array before.

**Recursion** (no assumption). Induction with an operator as a parameter cannot be used by the
provers at hand, so it is stated about a set: `Induct`, from the well-foundedness of `<`, says that a set with
0 and with every successor has all naturals; with S == {n \in Nat : P} this is induction on P. `Computable`
and `ComputedOnce` say in the same way that there is one function with a first value
and a step from each value to the next. Sums over lists, `FlattenSeq` and the
decoder's `DataOf` are such functions.

**RTMPConnexionProofs** (`ConnexionAssumption`: each message starts where the one before it ends, and only
commands have chunk headers counted in them). `InOrder` has, by `Induct`, the order of any two messages. `StepInv`
strengthens `InStep`: `BoundaryInv` (with no cut, the end of the read is a boundary
between messages), `ParkedInv` (the cursor is at the end before a read), `UnseenInv` (a
connect that was received and not stored is ahead of the cursor). `InStep` alone is
not inductive: that the next read starts on a header needs the first two. The theorems:
`TypeCorrect`, `ClosedOnceAlways`, `InStepAlways`, `NoConnectMissedAlways`,
`RepliesEarnedAlways`, and `AckSentAlways` from `SentInv`, which says that only a failed call leads past the first reply.

**RTMPHeadersProofs** (`HeadersAssumption`: ids are naturals, numbers at most 2^24, types
bytes, stream ids words). `Three` says that a number below 2^24 is its three bytes;
`Layout` and `BasicLayout` where the fields of a client's header lie; `Fields` and
`ReadBasic` that the parser's shifts, swaps and masks find them there whatever follows.
`WireInv` says that what is on the wire is a client's header and some bytes, and gives
`ClientHeaderReadAlways`. For `TypeCorrect` each way a field is read is shown to give a number
of its width, `Atoi` included, which looks for as many digits as there are (`Leading`, the
`Greatest` of Recursion). `ServerHeaderReadAlways` follows the builder's bytes through the same
parser: basic header of each size, then the eleven bytes of a message header, in which the type and the
stream id are where they should be in spite of the shifted length.

**BuffersProofs** (`BuffersAssumption`: `nullptr` and the stack are not heap memory, and the
calls have arguments their functions take). The inductive invariant `Inv` is about the whole
call stack. `StackOK`: each call but the innermost is at the step that made the next one, and is `Ordered`: what gives
it memory comes first, a reply ends by freeing its Buffer, only a boolean's is on the stack.
`Own`: the Buffers of the calls under way are disjoint and as large as they believe. What is allocated is
theirs. A Buffer that is freed keeps its pointer, and both speak of the calls that need theirs only (`Needs`); that nothing
comes after a free or a last use is in the order of the steps. `OwnMemory` is not inductive alone: that a call returning nothing to `receiveAndProcessConnect` holds nothing, or
that `take` overwrites no Buffer, follows from the order of the steps. `StartOK` proves the
order of each function's list; `InvUpto` is what all actions share, `InvGrow`, `InvSame` and
`InvFree` the ways a Buffer changes; `Catching` says that a call that is skipped by an exception is a part of a
header. The theorems: `TypeCorrect`, `OwnMemoryAlways`, `NothingLostEver`, and `AllOrNothingAlways`, for which `SizeInv`
relates the size of every Buffer on the stack to the steps its function has left: together
they are the size of a whole packet or header, or the call is bound to return nothing.

**AMF3Proofs** (`AMF3Assumption`). *The integers.* `Shape`: what `serialize` writes is bytes, all but the last
marked; `SizeIs`: so a number ends in one place only; `FourParts`: the shifts, masks
and the sign bit put 29 bits together again. `IntegerRoundTrip`: wherever a number's
bytes stand, it is read and nothing else; `CutIntegerRefused`: a part of them is refused;
`LengthRoundTrip`: a length is never taken for a reference. TLC has checked the same on the integers
of the run through `RoundTrip`.

*The reader on any bytes.* `Reading` is the type of a reader whose tables and stack are in order; every `Read...`
operator keeps it, keeps the data and does not go back (`Outcome`): it stays within the bytes, or has read one byte past
the end and is refused (`Astray`). `ReaderEnds`: each step reads a byte or leaves
a container for which one was read (`Goes`, the measure twice the bytes left and the depth), so the steps of `DeserializeItem` are enough on every wire.
`Parses` says of two readers with the same tables, one of which has more bytes, that they do the same unless the first is
refused.

*The writer.* `Writes` is the type of a context, `Leaves` what every `Serialize...` operator does to one: the
bytes that were there stay, what is added is bytes, the tables grow. Each class has a lemma, `Begun`, and `ItemLeaves` takes them through the
run of a whole item, `PacketLeaves` through a packet.

*Strings and traits in step.* `Meets` says of a reader and a writer that the reader stands where the writer's next byte goes,
in a stream that has whatever the writer makes of it next (`Tied`: the bytes agree as far as both go, since either may be
cut). `SameStrings` and `SameTraits` relate the tables, the one of traits up to the order of the attributes (`Sent`), unless the writer
has drifted: a refused item has left entries there that no reader sees, and then no reference that is `sound` is written either.
`Hears` is what each step comes to: the reader has what was written and meets the writer again, or the bytes
are not all there and it is refused (`Misses`). The theorems: `StringRoundTrip`, `TraitsRoundTrip`, by `NamesRoundTrip`
for the list of attributes (`ReadAttributes` gives them back in order) and `HearsTraits` for old and new traits.

*The type invariant.* `TypeInv` adds to `TypeOK` what makes it inductive: the writer `Writes`, what arrived is a
prefix of what was written, the reader is `Calm` between two calls and within the bytes, unless its last call went one
past the end, which needs a packet's length of zero in the last four (`Strayed`). The theorem: `TypeCorrect`, for every set of items, host and bound.

**AMF0DecoderProofs** (`AMF0DecoderAssumption`: a packet is a finite sequence of values as AMF0
defines them, of any length, with texts below 2^16 bytes; the chunk header is anywhere; any bytes
follow). The proofs come in three parts.

*The bytes.* `FlattenIs`, `BodyPlaces` and `ObjectPlaces` say where in the body each value and each
pair of an object begins (`BodyEnd`, `ObjectEnd`) and that its bytes are there; `ChunkedIs` what the header
does to them. `TypeAtIs`, `StringHeld` and `NumberHeld` say that a type, a string and a number that
are in the buffer are read as what they are, a number also with the header before its last byte (`Split`).

*What holds of every body.* `TInv` keeps the place at most three bytes behind the buffer and the kinds of what is stored:
`TypeCorrect`. `KInv` says that the command, if the body begins with a string, is either still the first
thing in the buffer or the first string of the packet: `CommandKeptAlways`, in which the decoder may be
anywhere and misread all the rest.

*What holds of a foreseen body.* `FInv` is the inductive invariant: the decoder is behind value k, or behind
pair j of object k, by exactly the bytes that were sent so far and the header if it was passed (`Passed`);
`byteError` is that header; the packet holds the first k values (`DecodedTo`), the object the first j pairs (`Same`), and what
is still to come is in the buffer as it was sent (`TailInv`: the decoder moves a byte over the header behind
itself and nowhere else). `Faithful` says nothing of a decoder under way, and `HeadersCounted` little: neither is
inductive. There are two exceptions that a first version of the invariant did not have, and TLC showed: after a null,
which takes a byte more, and when an `undefined` is the last byte behind a header, where the loop ends
a byte early because `processed` counts the header and `length` does not. Nothing is lost either time (`FinishStep`). `CutOfValue` and `CutOfPair` place
the header: inside no value, or before the last byte of one number. `ValueHere`, `PairHere`, `OpenHere`
and `EndHere` say what the decoder finds, `DataFront` and `MapFront` what one value or pair more makes of the
packet that was sent, and one lemma per action joins them. The theorems: `HeadersCountedAlways`, `FaithfulAlways`.

## 6. Model-checked only

Liveness (`HeadServed`, `SilentHoldOwnWorker`, `ConnexionEnds`, `DecoderEnds`) and the refutations.
`RoundTrip`, `TablesInStep` and `CutIsNoticed` of AMF3 as a whole. Proved of them is what concerns numbers, strings and traits and the two
tables of these; for the table of objects and the insides of a container they need a relation between a writer and a reader in the middle of
an item, piece by piece, which is the next proof to make.
TLC has checked the inductive invariants on the instances of the runs first, with quantifiers over all
naturals and sequences cut to those that occur and memberships in sets it cannot enumerate left out.

## 7. Not modelled, and the plan

In order of what the system stands to gain:

1. *The handshake inside the pool.* Compose RTMPServer with the handshakes of its workers inside the
   phase `serve`, so that which handshakes overlap follows from the pool. Runs with 2 workers, 3 clients.
2. *The decoder inside a connection.* A connection whose commands are decoded byte by byte, so that
   RTMPConnexion's `Regular` is a result; `HeadersCountedAlways` is the lemma for it.
3. *AMF0Encoder, the bytes.* Buffers has its sizes. Which packets survive encoding and
   decoding (numbers that are whole, strings whose size does not change when swapped).
4. *Buffers of a connection.* The cursor in the memory of the read (`sendSetChunkSize` copies
   four bytes from there, whatever is left), one Buffer over both reads and the replies.
5. *AMF3, circular items.* References to a container that is still being read, for which the tables
   would have to hold places rather than items.
6. *Proofs.* That the decoder refines an abstract one that takes the sent values one by one. That AMF3's writer and reader
   stay in step inside an item.

Logger and exceptions have no state and are left out for good; ports, addresses
and the command line of `server.cpp` likewise.
