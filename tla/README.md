# Verification of the C6 Reticulum firmware

The repository is a Reticulum node in RISC-V assembly for the ESP32-C6: it
learns routes from signed announces, forwards packets over a LoRa radio,
answers path requests, and keeps an identity in flash. This directory holds
TLA+ models of its state machines, the TLC configurations that check them, and
proofs checked by TLAPS. Source paths below are relative to the repository.

## Inventory

One main loop (`src/boot/_main.S`) runs everything; there are no interrupt
handlers and no allocation. It reads host bytes from the UART through the KISS
decoder, and when there are none it polls the radio. A handler runs to
completion before the next byte or frame is looked at. Concurrency is between
nodes, between a node and its host, and between the code and the radio chip.

| Component | State it keeps | Operations | What is hard | What makes it correct |
|---|---|---|---|---|
| Transport (`src/transport`) | path table (8), path-response cache (8), ring of 16 packet hashes | process a packet, process an announce, look up, update, answer a path request | tables at their limit, clock wrap, announces out of order, forgotten hashes, an identity that arrives late | one slot per destination; routes say what was heard last; the oldest goes first; what is passed on is not passed on twice; hop counts never lie downwards |
| Mesh of nodes | nothing beyond the nodes | transmissions heard by some of the nodes in range | loss, overwritten frames, resets, routing loops | a packet in transport goes to a node in range, the last hop is beside the destination, the air falls silent unless forwarded packets overflow the rings |
| Packets, announces (`src/packet`, `src/announce`) | the `packet_struct` scratch record | parse, validate, build, send | lengths at their limits | a rewritten packet keeps its hashable part |
| LoRa driver (`src/interface/lora`) | `rx_armed`, statuses, buffers; the chip's own mode, interrupt flags and data buffer | init, reset, send, poll | a frame that arrives between two commands, abandoned sends, errors on the bus | a believed receiver receives; a frame is delivered once, whole; a reported send happened |
| Identity and flash (`src/identity`, `src/flash`) | `identity_current`; one flash sector | create, load, save; read, erase, write page | ROM calls that fail half way, power loss between any two | one identity for life, and no other is announced |
| Links (`src/link`) | link table (4) with keys and states; one scratch for text | handshake init, accept, process packet (decrypt), encrypt | requests repeated, overtaken by others, for the same slot; a full table; tokens of sessions that are over; clock wrap | a destination has one link; keys, id and peer of an entry belong together; a link is lost only for want of room, the one with the oldest handshake first |
| Resources (`src/resource`) | reassembly table (2): hashmap, bitmap, count, consecutive index | advertisement, part | parts carry no index: out of order, repeated, of another resource, with equal hashes; slots reused | count, bitmap and index agree; complete exactly with all parts; a gap in the window can be closed |
| KISS (`src/kiss`) | decoder flags and buffer | decode a byte, encode a frame | bytes lost on the line, a frame longer than the buffer, an escape left open | a whole frame after a whole frame is decoded as it was sent; damage ends with the next frame |
| LXMF (`src/lxmf`) | one inbound slot: id, destination, source, length | build, sign, pack; parse, verify, dispatch | one slot that nothing clears; stamps that change the bytes but not the message; a sender's key that the path table forgets | a stored message was signed by the owner of its source; a repeat is recognised however it comes |
| Cryptography (`src/crypto`) | a hash context; the counter of the random generator | hash, cipher, sign, derive | blocks that are filled in pieces; carries between limbs | results do not depend on how the input was cut; what is computed is what is published |
| SPI, GPIO (`src/interface`) | pin directions and levels, `initialized` flags | configure, write, read, transfer | BUSY stuck high, a transfer that ends after some of its chunks | the chip gets whole commands or none, and every call returns |
| UART, log, clock | registers | read, write, wait | a 32-bit millisecond clock | - |
| Tools (`tools/`) | none | parse spec blocks, check `FUNCTIONS.md` against the source, bound the stack | a block, row or file that is skipped instead of reported; recursion | the bound is the deepest path; an omission is an error |
| Verifiers (`proofs/`) | none | one reference model and a few vectors per routine | the models see a whole call at once, on states somebody thought of | they agree with the models of the assembly in every reachable state |

How they interact: `_main` calls `lora_interface_poll`, which asks the driver
for a frame and hands it to `transport_process_packet`. That function calls
`transport_packet_seen`, then `transport_process_announce`,
`transport_path_response_send`, forwards the packet, or calls
`link_process_packet`; it transmits with `lora_interface_send`. From the host,
a KISS frame that is an announce goes to `transport_process_announce`, `T`
sends a raw frame by radio and `N` loads or creates the identity. The transport
reads `identity_current` wherever it needs its own transport id.

`PROJECT.json` lists what is hard to test in this code, line by line, with the
properties that cover it.

## Modules

| Module | Models | EXTENDS |
|---|---|---|
| `TransportTables` | packets as records, the hashable part, the four ways a packet is rewritten; the three tables as values and the slot each scan picks | |
| `Transport` | the transport of every node: one action per outcome of a handler | `TransportTables` |
| `SeenWindow` | what deduplication promises (abstract) | |
| `TransportHistory` | `Transport` with what was heard, for comparison with the tables; its refinement to `SeenWindow` | `Transport` |
| `TransportContract` | `Transport` against the models of `proofs/transport` | `TransportHistory` |
| `Mesh` | nodes, a broadcast medium, hosts, resets | `Transport` |
| `IdentityStore` | what identity persistence promises (abstract) | |
| `Persistence` | the `N` command, load, create, save, and the flash sector; its refinement to `IdentityStore` | |
| `PersistenceContract` | the models of `proofs/flash` and of the identity record; `Persistence` against them | `Persistence` |
| `Radio` | the SX1262 driver and the chip, command by command; the driver against the models of `proofs/lora` | `LoraContract` |
| `LoraContract` | the commands of the radio with their bytes; the models of `proofs/gpio`, `proofs/spi` and `proofs/lora` | |
| `LoraBus` | one step of `Radio` below the command: pins, BUSY, chunks of a transfer | `LoraContract` |
| `Tools` | `parse_spec.py`, `check_registry.py`, `check_stack.py` | |
| `LoraStack` | the calls of `LoraBus` held against the bound the tools report | `LoraBus`, `Tools` |
| `LinkSessions` | what a link table promises (abstract) | |
| `LinkTable` | both handshakes, decryption and encryption over the slots; its refinement to `LinkSessions` | |
| `LinkContract` | requests and tokens byte by byte; `LinkTable` against the models of `proofs/link` | `LinkTable`, `SymmetricCrypto`, `X25519` |
| `ResourceTransfers` | what reassembly promises (abstract) | |
| `Reassembly` | advertisements and parts over the slots; its refinement to `ResourceTransfers` | |
| `ResourceContract` | advertisements, parts, envelopes byte by byte; `Reassembly` against the models of `proofs/resource` | `Reassembly` |
| `Kiss` | the codec: encoding a frame, decoding a byte | |
| `KissLine` | a host, a line that loses bytes, the decoder, resets | `Kiss` |
| `KissOracle` | the decoder beside `kiss_decode` of the tests' `oracle.py` | `Kiss` |
| `Mailbox` | what the inbound slot promises (abstract) | |
| `Lxmf` | payloads and identifiers; signing, packing, parsing, verifying, dispatching; its refinement to `Mailbox` | |
| `AnnounceFormats` | announces byte by byte: build, parse, validate | |
| `LxmfContract` | `Lxmf` against the models of `proofs/lxmf`; the tables of announces and digests | `Lxmf`, `AnnounceFormats`, `Digests` |
| `SymmetricCrypto` | SHA-256, HMAC, HKDF; AES-256 and its CBC mode | |
| `Digests` | the published vectors of the digests | `SymmetricCrypto` |
| `Streaming` | init, update and final on a context that keeps part of a block, on blocks of any size | |
| `X25519` | field arithmetic on limbs, the ladder, agreement | |
| `Encodings` | structures as sequences of fields; numbers as bytes | |
| `TransportProofs` (of `TransportContract` and `Mesh`), `PersistenceProofs`, `RadioProofs`, `LoraBusProofs`, `LinkProofs`, `ReassemblyProofs`, `KissProofs`, `LxmfProofs` | theorems | the module they are about, with its contract |
| `MC...` | constants for TLC | the module they check |

The models come in two layers. A state machine (`Transport`, `LinkTable`, ...) says what the assembly does, with a
scan as the predicate its result satisfies and a packet as a record; the theorems are about these. A `...Contract` module
beside it holds what the repository's own verifiers in `proofs/` believe, as they compute it: loops over slots, sequences of bytes,
status codes. Each `...FollowsContract` property compares the two in every state TLC reaches, so a
mistake in either is found; the tables that do not depend on the state are evaluated once, in the initial one.

State and actions against the code:

* `path_table`, `response_cache`, `packet_ring` are `transport_path_table`,
  `transport_path_response_cache` and `transport_packet_hashes` with its count
  and next index (`src/state/transport.S`). `identity_current` is the hash field of the
  identity, zero (`ZeroId`) from reset to the first `N`. `uptime` is the time since
  reset; the code sees `Now`, cut to 32 bits. `sent` is what the last step put on
  the air: it is how `Mesh` connects nodes and how action properties see a
  transmission.
* `Receive` is `transport_process_packet`; its disjuncts are its exits, each with
  all the code's effects: an accepted announce (`HearAnnounce`) enters the hash in
  the ring, updates the path table and the cache and is rebroadcast in one step.
  `Transmits` lets a send fail, whether or not the frame left the antenna.
* A scan over a table is the predicate its result satisfies: `LooksUp`,
  `PicksPathSlot`, `PicksCacheSlot`. A packet keeps its type, header, hop count,
  transport id, destination, context and a body with what guards read: whether
  an announce is well-formed and correctly signed (`genuine`), and whether its HEADER_2 form
  exceeds the radio's 253 bytes (`long`). `Dest` are the hashes somebody can announce.
* The identity can change at any `N`: when a save to flash fails, the next `N` creates another.
* Frames shorter than their header change nothing and are left out. The public key and
  identity hash a route carries go with its destination and are not shown.
  `link_process_packet` neither transmits nor touches this state (`DispatchToLink`).
* `Mesh`: a transmission reaches any subset of `InRange`; a radio holds one frame,
  and a later one overwrites it. `HostSend` may lose a held frame, because a send clears
  the chip's interrupt flags. The medium and the buffer are external: they are modelled
  from how the driver uses the chip.

* `Persistence`: `page` is the first page of the sector in the five parts `flash_write_page` programs
  in order; `command` is where an `N` is: before `identity_load` (idle), before the erase, or
  programming. `ProgramPart` stands for the bytes of one part. A part may keep its old bytes
  although the call succeeded, which is what the read-back is for. `PowerLoss` may come between any two
  steps. Only the ESP32-C6 build is modelled; SHA-256 and the identity hash have no
  collisions. What the transport does with an identity that is not saved is in `Transport`.
* `Radio`: `at` is the SPI command the driver issues next, one action per command; `Obeys` is what the
  chip does on it. `CommandFails` is the error return every command has, before or after the chip
  obeyed. `taken` is the frame between `sx1262_poll_receive`'s read and its
  return, when `lora_interface_poll` hands it on (`Rearm`). `disturbed` records that the chip finished a frame
  between the commands it hurts. `mode`, `irq`, `fifo`, `buffer`, `on_air` are the chip, which is external: it is modelled from
  the commands the driver gives it. Its buffers share their memory because `sx1262_init` sets both
  base addresses to 0. Its timeouts are off (`SET_TX` with 0, `SET_RX` with 0xffffff), so the
  TIMEOUT flag never occurs; HEADER_ERR is handled like CRC_ERR and merged with it; GPIO calls with constant valid pins
  do not fail. A send the driver refuses for its length only clears `rx_armed` and is left out.
  `SendTimeout` may come at any time, which covers every poll budget.
* `LinkTable`: a slot is an entry of `link_table`; `PicksSlot` is the scan both handshakes make. `HandshakeInit` and
  `HandshakeAccept` write the entry whole; `AcceptDuplicate` is the request of a link that stands, which compares
  destination and X25519 key only. A request stands for its hash, the link id. `derived` are all keys ever derived:
  `Decrypt` and `Refuse` see tokens made with any of them, before or after a restart, under any link id. X25519, Ed25519, HKDF,
  AES and HMAC are ideal. A key pair is fresh even after a restart, which is true of the ESP32-C6 build and
  not of the one for qemu, whose fake entropy starts over. `link_handshake_init`, `link_session_encrypt` and
  `resource_process_plaintext` have callers in the tests only; they are modelled as operations a host may ask for.
* `Reassembly`: a slot is an entry of `resource_reassembly_table`; `Lands` is the search for a part over slots and windows,
  `Advances` the loop over the bitmap. A resource hash stands for its random hash and hashmap. Hashes of parts
  are given by `MapHash` and may collide. Channel messages and payloads that do not parse leave the table alone and are left out.
* `Kiss`: one action per branch of `kiss_decode_byte`, with the flags and the buffer as in `src/state/kiss.S`; `returned` is its
  result. `Encode` is `kiss_encode_frame` into a large buffer (`announce_send` gives it twice the MDU plus 3, so its capacity
  check passes). In `KissLine` any byte may be lost, since the UART has no flow control and nobody reads it while a frame is handled.

* `LoraBus`: one action per step of `sx1262_command_write`, `sx1262_command_read` and `sx1262_reset` down to one chunk of
  `spi_transfer`; `script` is what `sx1262_init` has still to call. `busy` and `clocked` are the chip: `ChipReady` may come at
  any time or never. Its transfers count bytes; what the bytes are is in the second half of `LoraContract`. A whole call of `LoraBus` is a step of `Radio`.
* `LoraStack`: a file is its directory, its spec fields and its calls, for the files on the driver's paths; `Active` is the chain of functions
  that are active at each `pc`, and `DriverCalls` the calls such chains are made of. The frames are those the spec blocks declare.
* `Lxmf`: `slot` is `lxmf_inbound_slot`; `paths` are the identities whose delivery destination the path table holds. An identifier
  names what is hashed, a signature who signed what; payloads are bytes. Storing a message's fields in the slot is
  all the code does with it: its payload is not kept.
* `SymmetricCrypto`: a byte is the set of its one bits, so `xor` is symmetric difference and an `AND` an intersection; full size, on the published
  vectors. `X25519` is computed on four limbs of 3, 2, 3 and 2 bits with p = 2^10 - 3 instead of ten limbs of 26 and 25 bits with
  p = 2^255 - 19: the same alternation, carries and folding, on a field in which all elements can be tried.

Operators whose names end in `Fault` are plausible mistakes in the definition that
follows them. They are used to check that each property notices one.

## Runs

| Run (module, cfg) | Question | Bounds |
|---|---|---|
| `transport` (`MCTransport`, `Transport.cfg`) | Is there one current route per destination (`OneCurrentRoute`) and is a cached response the last that fits (`ResponseIsLastCacheable`)? Is the evicted route the one heard first although the clock wrapped (`EvictsOldestAcrossWrap`)? Is the ring a window of the last distinct packets (`RingIsSeenWindow`), is an echo known (`EchoIsKnown`), does a forwarded packet leave as the last announce said (`ForwardsAsAnnounced`)? Does every scan find what the loops of `proofs/transport` find (`TablesFollowContract`)? | one node, 3 destinations for 2 path slots and 1 cache slot, a ring of 2; clock modulo 2, uptime to 2; hop counts to 3; announces direct, relayed and from the host, one forged, one too long; data and path requests by radio (raw frames of the host are in `mesh_line`) |
| `stale_response` (`MCTransport`, `StaleResponse.cfg`) | A violation, see Findings | 2 slots in each table |
| `mesh_line` (`MCMesh`, `MeshLine.cfg`) | Do hop counts and next hops stay truthful (`NeverNearerThanTruth`, `NextHopIsInRange`), is the last hop taken beside the destination (`StripsOnlyBesideDestination`)? Does the air fall silent though the rings forget, unless more forwarded packets than a ring holds displace each other (`SilentUnlessRingsOverflow`)? | n1 - n2 - n3, and n1 also hears n3, which does not hear n1: announces go round as well as to and fro; rings of one hash; 3 host frames and resets together, at most 1 of them a reset (an announce, two packets in transport, one of them also the long way round, a path request); n2 and n3 take their identities at any time, n1 never: the two packets do go round a routing loop for ever |
| `mesh_quiet` (`MCMesh`, `MeshQuiet.cfg`) | Does no packet go round (`NoPacketGoesRound`)? | 3 nodes in range of each other, one of them with an identity; two announces and data, rings that hold all three; routing loops through all nodes occur |
| `persistence` (`PersistenceContract`, `Persistence.cfg`) | Is the sector a write-once register that alone is announced (`IdentityIsForLife`), is no unsaved identity in use beside it (`InUseIsStored`), and do the sector and the record obey the models of `proofs/flash` and `proofs/identity` (`FlashFollowsContract`)? | 3 identities, any number of commands, failures and power losses; bytes of 3 bits, pages of 8 in a sector of 16 |
| `radio` (`Radio`, `Radio.cfg`) | Does `rx_armed` tell the truth (`ArmedMeansListening`)? Is a frame delivered once (`DeliveredAtMostOnce`), and intact unless there is a reason (`DamageIsExplained`)? Did a reported send happen (`SendTellsTruth`)? Does the node end up listening (`EventuallyListens`)? Are its decisions those of `proofs/lora` (`RadioFollowsContract`)? | 3 arriving frames, 2 sends, 2 failed commands, 1 reset: one frame can overtake another while a third is sent, and a send can be abandoned before the next |
| `lora_bus` (`MCLoraBus`, `LoraBus.cfg`) | Does the chip get what a command reports (`ChipGetsWhatIsReported`), do pins and results follow the models (`BusFollowsContract`), does every call return (`EveryCallReturns`), and do the active frames fit the bound of `check_stack.py` (`StackStaysInBound`)? | transfers of 6 bytes in chunks of 4, at most 2 polls of BUSY, 3 initialization commands, 3 calls of 11 commands, valid and invalid |
| `links` (`LinkContract`, `LinkTable.cfg`) | Has a destination one whole link (`OneWholeLinkPerDestination`), does every link hear (`EveryLinkHears`), does eviction take the link whose last handshake is longest ago (`EvictsTheOldestHandshake`), does the table implement sessions (`IsLinkSessions`) and follow `proofs/link` (`LinksFollowContract`)? | 2 slots, 3 destinations, 2 peers, 4 key pairs, clock modulo 2 (uptime to 2), 1 restart: a third request evicts a link, the first is repeated after that, a link is opened over an accepted one |
| `reassembly` (`MCReassembly`, `Reassembly.cfg`) | Has a resource one transfer whose progress agrees (`OneTransferPerResource`); are gaps closed (`GapsAreClosed`) and resources completed (`RepeatedPartsComplete`); does the table implement transfers (`IsResourceTransfers`) and follow `proofs/resource` (`ResourcesFollowContract`)? | 2 slots, window of 2, 6 resources: four parts, two, three with equal hashes, two shared with those, none, too many; 1 restart |
| `kiss_line` (`KissLine`, `KissLine.cfg`) | Does a whole frame arrive (`WholeFramesArrive`) and how long does damage last (`DamageEndsWithTheNextFrame`)? | buffer of 3 bytes, payloads of 0 to 5 that need every escape; any number of frames, losses and resets |
| `kiss_oracle` (`KissOracle`, `KissOracle.cfg`) | A violation, see Findings | 8 bytes |
| `lxmf` (`MCLxmf`, `Lxmf.cfg`) | Is the slot a box for one genuine letter (`IsMailbox`), is what a node packs unknown to its own kind (`PackedHereIsUnknownThere`), and do all routines agree with `proofs/lxmf`, `proofs/announce` and `proofs/crypto` (`LxmfFollowsContract`)? | 2 identities for one path slot; messages unchanged, stamped twice, cut, with another destination, source, payload or signature, repeated in either mode |

Why small is enough: the tables' behaviour changes at empty, partly full, full and
evicting, which two slots and three keys reach; the ring wraps after three
entries as after sixteen; a route has three forms (direct, through a neighbour,
through the host), and three nodes give a longer way round. A transfer has a first, a last and, as the longest command takes two
chunks, a half-way state. For the safety properties listed under Proofs the theorems remove the bounds.

`StackStaysInBound` also tries the tools themselves: every call graph, page and registry of a few entries against a definition of the
longest path, of the rows and of the errors, and the removal of every field, row and file. `LinksFollowContract` and
`LxmfFollowsContract` compute AES-256, SHA-256, HMAC and HKDF on the vectors of `proofs/crypto`; `Digests` cuts every short message in every
way into calls of `sha256_update`.

`NoPacketGoesRound` needs rings that hold every distinct packet in flight:
with more packets than slots the same three nodes do send a packet round. `mesh_line`, whose rings hold one hash, shows what
follows from that. The hop limit of `transport_path_update` ends it for announces. Forwarded packets have no hop limit
(`transport_process_packet.S:180`): in a routing loop the ring is their only bound, and 17 different ones displace each other from
rings of 16. In the run two packets displace each other from rings of one and circulate for ever: without its second disjunct TLC
finds `SilentUnlessRingsOverflow` violated. With it the property says that this is the only way the air stays busy; a single
packet that circulates, or announces that do, would violate it. No comment or doc of the repository claims that forwarding ends, so
this is no finding.

Fairness: `MFairSpec` assumes that every node keeps polling its radio
(`WF(Poll(n))`). The main loop polls whenever the UART has no byte waiting, and a
host does not keep the UART busy forever. Nothing is assumed of hosts,
clocks or resets, nor of the medium.

`FairSpec` of `Radio` assumes `WF(Driver)`: a driver function that was called runs to its end, since every
wait in it is bounded, and the main loop polls again. The chip, sends and failures are not assumed to
happen. A node whose initialization failed does nothing until a reset; `EventuallyListens` excepts it.

`FairSpec` of `LoraBus` assumes `WF(Driver)`: the code under way runs on. Nothing is assumed of the chip or of the peripheral:
`EveryCallReturns` holds because each wait has a budget.

`FairSpec` of `Reassembly` assumes `WF(ReceivePart(p))` for every part: the peers repeat their parts. That is an assumption on the peers,
not on the firmware, which never asks for a part again. `RepeatedPartsComplete` only speaks of resources whose parts
have distinct hashes, within the resource and from those of others.

In `mesh_line` no clock ticks (`Ticking` is empty): the times stored in routes matter for eviction only, which `transport` checks, and the
liveness property would otherwise be out of reach. Symmetry is used in `links` alone, whose properties are invariants and step properties.

`DamageIsExplained` and `SendTellsTruth` have conditions because the code does not give more. A frame whose
flags were read before another arrived may be delivered with a bad checksum
(`disturbed`); a frame received between `WRITE_BUFFER` and `SET_TX` may replace the bytes to be sent;
a failed command between `WRITE_BUFFER` and `CLEAR_IRQ_STATUS` leaves the interrupt of a frame whose bytes are gone.

Deadlock is not checked in the runs of `Mesh` because hosts stop after `MaxHostSends`
frames (or `MaxDisturbances` frames and resets), in `radio` because a node whose initialization failed stops, in `lora_bus` because the calls are bounded by `MaxCalls`, and in `kiss_oracle`
because the bytes are bounded; the other runs check it.

## Proofs

Everything below holds for every value of the constants that meets the named assumptions: any number of nodes and
destinations, any table sizes, any packets, payloads, messages and commands. The assumptions say

* `PacketAssumption`, `TableAssumption`, `TransportAssumption`, `HistoryAssumption`: that the sets of packets, tables and clocks
  have the shapes the code gives them, and that a name for "nothing" is none of the things; so do `PersistenceAssumption`,
  `RadioAssumption`, `LinkAssumption`, `NoLinkAssumption`, `ReassemblyAssumption`, `ContractAssumption` and `LxmfAssumption`
  (which also says that payloads are bytes and that what is dispatched has the fields of a message);
* `MeshAssumption`: what a mesh is (distances grow by at most one per transmission, and hosts announce only their own
  destinations, with a hop count of zero);
* `KissAssumption`, `KissLineAssumption`: that FEND is none of the other special bytes, that the two substitutes differ,
  and that payloads are bytes;
* `LoraBusAssumption`, `LoraContractAssumption`: the types of a command's arguments (a write reads nothing), and that
  a transfer has room for a frame of three bytes, which the tables of `proofs/lora` send (256 and 253 in the code);
* `StackAssumption`: that the sources have finitely many functions, with frames of no negative size, and that the calls the driver
  makes (`DriverCalls`) are among those the files have; nothing is assumed of the rest of the firmware;
* `FlashContractAssumption`, `CodeAssumption`: that the sector is whole pages and the record within one, and that bytes have
  bits enough to tell identities, fixed bytes and erased ones apart.

`TransportProofs` holds what is proved of one node and of the mesh:

* `TypeCorrect`: `TypeOK` is inductive. The work is that the picked slots are slots and that rewritten packets are packets.
* `RingImplementsWindow`: `Spec` implements `SeenWindow`. The
  invariant `RingInv` says that a ring that is not full has its next index equal to
  its count. Without it the scan of slots `0 .. count-1` would not see the
  window; with it `StoreSlidesTheWindow` shows that storing at the next index drops exactly the oldest.
* The invariant `HInv` adds to the types that history entries are acceptable
  announces from the past (`HeardBefore`), that no destination has two slots, and that
  each slot is a function of the history entry of its destination. None of these is inductive
  alone: a route is rewritten only if the update finds the slot, which needs that
  there is one. From `HInv` follow `OneSlotAlways`, `RoutesAreCurrent` (together `RoutesStayOneAndCurrent`),
  `ResponsesAreTheLastCacheable` and `ForwardingFollowsAnnounces`. `EchoesAreKnown` follows from `RingInv`: what is passed on
  was stored at the next index, where the scan that goes up to the count sees it. `MostRecentlyHeardStay` is a
  second induction; the property speaks of nodes that have been up for less than a turn of their clock, when ages are true ages.
  `EvictionSurvivesTheWrap` has its own: `last_seen` is the time of the announce cut to the clock's width, and `WrappedDifference` says
  that ages compare as the times do while no route is older than a turn of the clock.
* `TablesFollowTheirModels`: in every state reached, the slots that predicates describe are those that the loops of `path_table.py`
  find, and packets as records are rewritten as packets as fields are. The heart is an induction over the
  entries the loop visits: `Knows` says what the loop's four variables tell of the entries behind it (the first free one, the first
  of the oldest, the one with the destination), `VisitKeepsKnowing` that one more entry keeps it, `LoopPicksTheSlot` that at the end it is the
  slot of `PicksPathSlot`. That the loop breaks at the destination and the predicate quantifies over all slots makes no difference only
  because no destination has two (`HInv`).
* The mesh: `MInv` says of every frame in a radio and of every route and
  cached response that its hop count is at least the distance it has travelled and that its
  transport id is the identity of the node it was heard from, or zero. It must speak of frames,
  routes and cached responses at once because each becomes the other.
* `PacketsDoNotGoRound`: where the rings have room for the traffic (`RingsHoldTheTraffic`, a condition within the property: no resets, at most as many
  distinct packets as a ring has slots, host frames that start with no hops), `QInv` says that the rings forget nothing, as the slots in use hold different packets,
  and that a packet in a radio has come no more hops than there are nodes that know it. Passing a packet on makes
  the node that does it one of those, and it was none before; that is where the
  deduplication is needed, and why counting hops alone is not inductive. Path responses are the exception: nobody passes them on.

The other components:

* `PersistenceProofs`: the invariant `PInv` says that while programming, every part holds erased bytes or those of the
  identity in RAM and the parts not yet reached are erased; that an erase only happens on a blank
  page; and that every announced identity loads. `ProgrammingLoads` is the heart: programming a part never makes or breaks the record
  of another identity. `OneIdentityForLife` maps each step to `Store`, `Announce` or a stutter. `FlashFollowsItsModels` takes the
  same invariant to the bytes of the sector: a part is programmed only where the flash is erased, so that no bit has to be set
  (`ErasedPartTakesAnyByte`); the tables of the models, their bounds included, hold for sectors, pages and bytes of any size.
* `RadioProofs`: `RInv` adds to the types that the receiver is armed only between calls (`Armed`), frames are
  numbered in order (`Numbered`), a pending receive interrupt means the frame in the chip was not delivered
  (`PendingIsNews`), the frame held by the poll is not the pending one once the interrupt was cleared
  (`TakenIsNews`), where `disturbed` must be set (`Checked`), when a frame's bytes may be
  gone (`Spoils`), and how far a send has come (`SendProgress`). The safety properties are about the last command of a poll or
  send; these parts carry them there from the first.
  `DamageAlwaysExplained` joins `ChecksumsAreKept` and `SendsSpoilNothing`. `RadioFollowsItsModels` compares every place of the
  driver with what the models decide on what that step saw.
* `LoraBusProofs`: the invariant `BusInv` says, for every place of the driver, which pins are set up and driven high
  (`PinsAreRight`), and how many bytes the chip got and how many are left (`BytesAreCounted`). `ReportsAreTrue` reads from it what a result means. `CallsAgreeWithModels`
  needs in addition what the budget left says about the polls read so far (`PollsAreCounted`), to find the model's first
  poll that ends the wait, and which of the calls of `sx1262_init` are behind it (`InitIsUnderWay`).
  The tables of constants that the invariant `BusFollowsContract` also includes (`ModelsAreConsistent`: the scripts' own tables, the bytes and
  opcodes of the profile, the enabled interrupt flags, the longest frame in a transfer) are computed by the provers in `ModelsHold`, and
  `BusFollowsItsModels` joins both.
  `CallsAreBounded` counts the steps a call can still take (`StepsLeft`: polls, bytes, and the places in between): every step of the driver lowers
  the count or ends one of the calls of `sx1262_init` (`EveryStepCounts`). What is left of `EveryCallReturns` for TLC is that the driver always has a step and takes it.
  `BoundCoversEveryChain` is about any call graph: walking along a chain, the functions behind are the path of the search, the search
  found no recursion from there, so the next function is not behind, and the frames behind and the depth found from there never
  exceed the depth at the root. The search is a function on sets of functions that calls itself with one more; `FoundExists`
  shows that there is one, by induction on how many are left. `SearchIsExact` adds that the depth is reached:
  it is the depth of the deepest chain that names no function twice, and recursion is reported exactly when such a chain can go back;
  a chain longer than the graph has functions would name one twice, so an endless descent is impossible. `StackIsBounded` adds that what is active at each place of the driver
  is such a chain, which needs `BusInv`, and that only `sx1262_init` resets the chip (`NoResetAlone`). Its hypothesis, that the
  tools are exact on small inputs and pass these sources, is what `StackStaysInBound` says of the initial state; the run evaluates it.
  Two of their constants are those of the code (`SPI_MAX_TRANSFER`, `SX1262_BENCH_PAYLOAD_MAX`), the others any that the assumption admits.
* `LinkProofs`: the invariant `LInv` joins the types with `OneLinkPerDestination` and `LinksAreWhole`. That every established link
  is found by its id (`EveryLinkIsReached`) follows from it, because the id determines the destination and the destination the slot.
  `TheOldestHandshakeGoes` has an invariant of its own, that `last_seen` is the time of the last handshake cut to the
  clock's width; `WrappedDifference` then says that ages compare as the times do when no entry is older than a turn of the clock.
  `LinkTableImplementsSessions` maps a handshake to `Open` or `Answer` and needs that the slots of a full table hold
  different destinations. `LinksStayOneAndWhole` joins the first two parts.
  `LinksAgreeWithModels` compares the predicates with the loops of `proofs/link` by the same induction as for the routes.
* `ReassemblyProofs`: `RInv` adds to the types, `ProgressAgrees` and `OneSlotPerResource` that only acceptable resources are in
  the table. The count reaches the total exactly when the bitmap is full because a subset of a finite
  set with its cardinality is the set; `ReassemblyImplementsTransfers` rests on that.
  `TransfersStayOneAndWhole` joins the two parts. `ReassemblyAgreesWithModel` compares `Lands`, `Advances` and the slot an advertisement takes with the
  three loops of `resource_reassembly.py`: the comparisons in the order they are made, the count of consecutive parts, and the
  first free slot. That the search of the model ends at the first part with a hash and the predicate names the same one
  is where hashes that occur twice matter.

* `KissProofs`: the layout of an encoded frame is proved first: how many bytes come before each byte of the payload
  (`FrameHasLayout`), which is an induction, since the encoder concatenates escapes of one or two bytes. The invariant then says that
  the decoder of a frame of which nothing was lost is in one of six places (`Phase`): the frame not begun, after its FEND,
  between two bytes of the payload, within an escape, skipping the rest of a frame (too long, or its FEND ended the damaged one before), or done; with what the line and the buffer
  hold there. `DecodingUndoesEncoding` and `DamageIsBounded` read the last place.
* `LxmfProofs`: `SlotIsAMailbox` maps every arrival to `Bring` of a message that the owner of its source wrote or to a refusal; the invariant `Kept`
  is that the message kept is one of those. The heart is `Dispatched`: the key that verifies a message is that of the destination it names as its source,
  so an id that is recognised is one its owner signed, stamped or not.
  `PackedHereIsNeverTaken` shows that the hash a node names as the source is never a destination's. `ReadersAgree` is about every sequence of bytes: the
  firmware reads a text before it checks its length, the model after, and they accept the same.
  `DispatchFollowsModel` takes this to whole messages. What is hard is the stamp: the firmware cuts it off and puts the payload together
  again, the model reads the fields to find where it begins, and both must hash the same bytes (`RepackedIsUnstamped`). It needs that
  reading moves forward and stays within the payload (`FieldsAdvance`), an induction over the entries of the fields.
* Where a `...FollowsContract` property includes tables that do not depend on the state (`LinkTables`, `ResourceTables`, `LxmfTables`: published vectors,
  formats, small fields), the theorem about it takes them as its hypothesis: they are computations, which the runs make.
  The theorem before it, on which it rests, has no hypothesis.

Induction. The library's theorems on induction take an operator, which the installed provers cannot instantiate; `NatSetInduction`
states the principle for a set of numbers instead and is proved from the theorem that strict inclusion of finite sets is
well-founded. `RecursionExists` gives from it that a function defined by recursion on a number exists, which the definition alone does not
say; the loops above are such functions (no module declares a RECURSIVE operator), and each is followed by induction.

Only model-checked: the liveness properties `SilentUnlessRingsOverflow`, `EventuallyListens`, `RepeatedPartsComplete` and `EveryCallReturns`,
as fairness and ENABLED are out of the prover's reach; and the tables of vectors and small cases (`LinkTables`, `ResourceTables`, `LxmfTables`,
`ToolsAreExact`), as no prover computes SHA-256, AES or a ladder. Every other property a run checks is a theorem.

## Findings

* `stale_response`: `transport_process_announce` ignores the result of
  `transport_path_response_cache_update` (`src/transport/transport_process_announce.S:92`). An announce
  of more than 237 bytes replaces the route and leaves an older announce's response in the cache,
  which later path requests are answered with, against the comment at line 18 of the same file.
* `kiss_oracle`: `kiss_decode_byte` clears `kiss_in_frame` when a frame is complete (`src/kiss/kiss_decode_byte.S:70`), so
  of frames that share one FEND every other one is ignored. The comment at line 18 says it mirrors the decoder in
  `tests/harness/oracle.py`, which opens a frame at every FEND (line 144).

Observed and not counted as disagreements: announces in the path-response context are refused
(`announce_parse.S:92`), so a node with this firmware answers path requests but does not learn from
answers; a host's own announce sent with `T` is not entered in the ring, so the node learns a route to
its own destination from the echo; before `N` every node acts under the zero transport id.
A ROM error in the write loop of `flash_write_page` leaves a record that every later load refuses and that nothing erases: the
node announces nothing any more. An `N` whose save fails leaves the unsaved identity in `identity_current`,
where the transport uses it. `sx1262_poll_receive` reads the interrupt flags without the status byte it skips for
`GET_RX_BUFFER_STATUS`; the model takes what the driver reads for the chip's flags.
A link the node opens stays pending: nothing handles the proof that would establish it. Link requests are accepted for any destination. Data on a link does
not refresh `last_seen`. A third resource takes the first slot even if the second holds a complete one, and complete entries are
never freed. Two adjacent parts with equal 4-byte hashes stall a resource; upstream senders avoid them by choosing another random hash.
`lxmf_message_sign` wants the identity hash as the source, `lxmf_inbound_dispatch` looks the source up among destinations, so
nodes of this firmware refuse each other's messages (`PackedHereIsUnknownThere` states it). The cases of
`tests/lxmf/test_lxmf_inbound_dispatch.py` that are accepted, `direct-valid` first, have an identity hash as the source: the test writes an entry under it
into `transport_path_table` (line 266), which no announce can do; the dispatch does not ask whether the destination
is this node's, keeps no payload, and has no caller outside the tests yet. `lxmf_payload_build` checks of the fields only that they begin as a map.
`check_stack.py` says in its docstring that cycles are rejected as recursion; `main` reports them and fails only when the depth exceeds the limit.
`sx1262_send_frame` sets the chip's payload length to that of the frame and nothing restores it before the next `SET_RX`.

## Not modelled

* Ed25519 and SHA-512: numbers of 253 and 512 bits; a small field would not exercise their reductions as the code has them.
  Signatures are names of who signed what. The random generators: their output is fresh by assumption (`LinkTable`, `Persistence`).
* The UART's registers and the log: they keep no state a handler reads. `KissLine` takes the UART as a line that loses bytes.
* The self-test commands of the host in `_main.S`, which run one primitive and print the result.
* In `proofs/`, the harness that runs the binary and the checks that look for patterns in the source text; of the tools, the layout of reports.
* Reset code and linker layout (`_reset`, `_init_bss`, `_init_data`): a reset is the initial state of the RAM.

## Plan

Done: the components of the inventory above, each against its reference model, and the theorems listed in `PROJECT.json`.
What is left, in this order:

1. `MainLoop`: host bytes, radio and handlers together, with starvation of the radio by the host; `Mesh` over `Radio` instead of a
   one-frame buffer.
2. Proofs: the sets `missing` and `reachable` of the search of `check_stack.py`, for every graph (the run checks graphs of three functions).
3. The deterministic random generator and its counter across resets.
