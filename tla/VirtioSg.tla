------------------------------- MODULE VirtioSg -------------------------------
(***************************************************************************)
(* Virtio::Sg::Buffer: the private copy of a descriptor chain, the payload *)
(* behind it, and the cookies of the copies that are under way between     *)
(* buffers and linear memory.  A buffer has no lock: an action is one call *)
(* of its interface.                                                       *)
(*                                                                         *)
(* A chain comes from a guest, which may write anything into it            *)
(* (walk_chain), or is built for a device (add_link, modify_link).  The    *)
(* bytes are not modelled but which of them a copy moves where.            *)
(***************************************************************************)
EXTENDS Integers, Sequences, FiniteSets, FiniteSetsExt, SequencesExt

CONSTANTS
  Buf,          \* the buffers
  MaxLen,       \* _max_chain_length
  QueueSize,    \* the size of the queue
  MaxBytes,     \* UINT32_MAX
  SizeModulus,  \* SIZE_MAX + 1
  GuestLength,  \* the lengths that a guest writes into a descriptor
  LinkLength,   \* the lengths that a client gives to a link
  MaxLoad       \* bound: the bytes in all chains and the copies under way

Linear == "linear"  \* the other side of a copy to or from linear memory
None == "none"

ASSUME SgAssumption ==
  /\ MaxLen \in Nat \ {0} /\ QueueSize \in Nat \ {0} /\ MaxBytes \in Nat \ {0}
  /\ SizeModulus \in Nat /\ SizeModulus > 2 * MaxBytes
  /\ GuestLength \cup LinkLength \subseteq 0 .. MaxBytes
  /\ Linear \notin Buf

VARIABLES
  buf,      \* the chain of each buffer, with its R/W and size tracking
  cookie,   \* _async_copy_cookie
  copies,   \* the copies that clients have started and not seen concluded
  written   \* ghost: the bytes that were written into the chain, and whether a
            \* copy has ended within those tracked in its first writable one

sgVars == <<buf, cookie, copies, written>>

Sum(S, Op(_)) == MapThenSumSet(Op, S)
Lesser(a, b) == IF a < b THEN a ELSE b

(* The linear offset at which descriptor i of chain c starts. *)
StartOf(c, i) ==
  LET upTo[j \in 0 .. Len(c)] == IF j = 0 THEN 0 ELSE upTo[j - 1] + c[j].len
  IN upTo[i - 1]
Bytes(c) == StartOf(c, Len(c) + 1)

-----------------------------------------------------------------------------
(* The cookies. *)

(* AsyncCopyCookie::reset.  The requests are ~0 there: nobody reads them.  *)
NoCopy ==
  [started |-> FALSE, sg |-> FALSE, src |-> FALSE, pending |-> 0,
   sz |-> 0, d |-> 0, s |-> 0, from |-> None, linSrc |-> FALSE, linDst |-> FALSE]

InUse(b) == cookie[b].started
is_dst(b) ==
  InUse(b) /\ ~cookie[b].src /\ (cookie[b].sg \/ cookie[b].linSrc)
is_src_to_sg(b) ==
  InUse(b) /\ cookie[b].src /\ cookie[b].sg /\ cookie[b].pending > 0
is_src_to_linear(b) ==
  InUse(b) /\ cookie[b].src /\ ~cookie[b].sg /\ cookie[b].linDst /\ cookie[b].pending > 0
is_dst_from_linear(b) ==
  InUse(b) /\ ~cookie[b].src /\ ~cookie[b].sg /\ cookie[b].linSrc
is_src_to_matching_sg(s, d) ==
  /\ InUse(d) /\ ~cookie[d].src /\ cookie[d].sg
  /\ is_src_to_sg(s) /\ cookie[d].from = s

InitStatus(c, isSrc, otherSg) ==
  [c EXCEPT !.started = TRUE, !.sg = otherSg, !.src = isSrc,
            !.pending = IF ~isSrc THEN 0 ELSE IF otherSg THEN @ + 1 ELSE 1]

InitMetadata(c, isSrc, otherSg, sz, dOff, sOff) ==
  [InitStatus(c, isSrc, otherSg) EXCEPT !.sz = sz, !.d = dOff, !.s = sOff]

(* Mutant: the first destination to conclude frees the source. *)
MutConcludeSrc(c) == NoCopy

(* conclude_src: the last destination resets the cookie of the source. *)
ConcludeSrc(c) == IF c.pending = 1 THEN NoCopy ELSE [c EXCEPT !.pending = @ - 1]

Recorded(c, n) == [c EXCEPT !.sz = @ - n, !.d = @ + n, !.s = @ + n]

-----------------------------------------------------------------------------
(* The chain. *)

(* Buffer::reset *)
Empty ==
  [chain |-> <<>>, size |-> 0, complete |-> FALSE, forDevice |-> FALSE,
   seenR |-> FALSE, seenW |-> FALSE, firstW |-> 0]

NoBytes == [bytes |-> {}, rewritten |-> FALSE]

SgInit ==
  /\ buf = [b \in Buf |-> Empty]
  /\ cookie = [b \in Buf |-> NoCopy]
  /\ copies = {}
  /\ written = [b \in Buf |-> NoBytes]

Load == Sum(Buf, LAMBDA b : Bytes(buf[b].chain)) + Cardinality(copies)
Bounded == Load' <= MaxLoad

(* A descriptor joins the chain: its size and its direction are tracked.   *)
Joined(x, len, w) ==
  [x EXCEPT !.chain = Append(@, [len |-> len, w |-> w, prefix |-> 0]),
            !.size = @ + len,
            !.seenR = @ \/ ~w,
            !.firstW = IF w /\ ~x.seenW THEN Len(x.chain) + 1 ELSE @,
            !.seenW = @ \/ w]

(* What a guest offers: descriptors, and how the last of them ends.  More  *)
(* than MaxLen of them are a chain with a loop.                            *)
GuestChain ==
  [ds : BoundedSeq([len : GuestLength, w : BOOLEAN], MaxLen + 1) \ {<<>>},
   last : {"final", "index too large"}]

(* The chains that walk_chain accepts. *)
Walks(g) ==
  /\ QueueSize <= MaxLen /\ Len(g.ds) <= MaxLen /\ g.last = "final"
  /\ \A i \in DOMAIN g.ds : g.ds[i].len # 0
  /\ \A i, j \in DOMAIN g.ds : i < j /\ g.ds[i].w => g.ds[j].w
  /\ Bytes(g.ds) <= MaxBytes

Accepted == {g \in GuestChain : Walks(g)}
Refused == GuestChain \ Accepted

(* What walk_chain makes of such a chain. *)
Walked(ds) ==
  LET writable == {i \in DOMAIN ds : ds[i].w}
  IN [chain |-> [i \in DOMAIN ds |-> [len |-> ds[i].len, w |-> ds[i].w, prefix |-> 0]],
      size |-> Bytes(ds), complete |-> TRUE, forDevice |-> TRUE,
      seenR |-> writable # DOMAIN ds, seenW |-> writable # {},
      firstW |-> IF writable = {} THEN 0 ELSE Min(writable)]

(* walk_chain, on a buffer that was reset, *)
WalkChain(b) ==
  /\ buf[b].chain = <<>> /\ ~InUse(b)
  /\ \E g \in Accepted : buf' = [buf EXCEPT ![b] = Walked(g.ds)]
  /\ UNCHANGED <<cookie, copies, written>>
  /\ Bounded

(* and on a chain that it does not accept, the head of which goes back to  *)
(* the queue before it returns.                                            *)
WalkFails(b) ==
  /\ buf[b].chain = <<>> /\ ~InUse(b)
  /\ Refused # {}
  /\ buf' = [buf EXCEPT ![b] = Empty]
  /\ UNCHANGED <<cookie, copies, written>>

(* add_descriptor *)
Accepts(x, len, w) ==
  /\ len # 0
  /\ x.size + len <= MaxBytes
  /\ w \/ ~x.seenW

(* add_link and add_final_link.  A client has QueueSize descriptors.       *)
AddLink(b) ==
  /\ ~buf[b].complete /\ Len(buf[b].chain) < Lesser(MaxLen, QueueSize)
  /\ \E len \in LinkLength, w \in BOOLEAN, final \in BOOLEAN :
       /\ Accepts(buf[b], len, w)
       /\ buf' = [buf EXCEPT ![b] =
                    [Joined(@, len, w) EXCEPT !.complete = final]]
  /\ UNCHANGED <<cookie, copies, written>>
  /\ Bounded

(* modify_link.  A link that would make the chain too long is refused when *)
(* the size has already lost the old one, so that the next call may take   *)
(* more from the size than is left of it: it wraps.                        *)
ModifyLink(b) ==
  /\ ~buf[b].forDevice /\ ~InUse(b)
  /\ \E i \in DOMAIN buf[b].chain, len \in LinkLength \ {0} :
       LET rest == (buf[b].size - buf[b].chain[i].len) % SizeModulus
       IN buf' = [buf EXCEPT ![b] =
            IF rest > MaxBytes \/ rest + len > MaxBytes
              THEN [@ EXCEPT !.size = rest]
              ELSE [@ EXCEPT !.size = rest + len, !.chain[i].len = len]]
  /\ UNCHANGED <<cookie, copies, written>>
  /\ Bounded

(* conclude_chain_use: it may be called at any time that no copy is under  *)
(* way, and more than once.  What it sends to the queue is VirtioConsole's *)
(* matter.                                                                 *)
Conclude(b) ==
  /\ ~InUse(b)
  /\ buf' = [buf EXCEPT ![b] = Empty]
  /\ written' = [written EXCEPT ![b] = NoBytes]
  /\ UNCHANGED <<cookie, copies>>

-----------------------------------------------------------------------------
(* The payload. *)

End(x) == Len(x.chain) + 1

(* find: the descriptor that holds a linear offset, and the offset in it.  *)
find(x, off) ==
  IF off = 0 THEN <<1, 0>>
  ELSE LET I == {i \in DOMAIN x.chain : StartOf(x.chain, i + 1) > off}
       IN IF off > x.size \/ I = {} THEN <<End(x), off>>
          ELSE <<Min(I), off - StartOf(x.chain, Min(I))>>

(* check_copy_configuration.  It asserts what it tests: a client asks for  *)
(* bytes that are there.                                                   *)
InBounds(x, sz, off) == off + sz <= x.size

should_only_read(x, i) == x.forDevice /\ ~x.chain[i].w

(* Where a copy of rem bytes is: in descriptors d and s at these offsets,  *)
(* after n bytes, which have moved pairs of linear offsets.                *)
At(rem, d, s) ==
  [rem |-> rem, d |-> d[1], dOff |-> d[2], s |-> s[1], sOff |-> s[2],
   n |-> 0, moved |-> {}, err |-> "NONE"]

Pairs(d, s, n) == {<<d + i, s + i>> : i \in 0 .. n - 1}

(* How chunk number at ends, the first being 1: not translated, before or  *)
(* after the bytes were written, or left for later by an asynchronous      *)
(* implementation.  The others are copied.                                 *)
Ending(at) == IF at = 0 THEN {"NONE"} ELSE {"BADR", "BADR written", "AGAIN"}

Chunk(c, n, pairs, ending) ==
  LET done == ending = "NONE"
  IN [c EXCEPT !.moved = IF ending \in {"NONE", "BADR written"} THEN @ \cup pairs ELSE @,
               !.n = IF done THEN @ + n ELSE @,
               !.rem = IF done THEN @ - n ELSE @,
               !.err = IF ending = "BADR written" THEN "BADR" ELSE ending]

(* A turn of the loop in try_end_copy_to_sg_impl. *)
SgTurn(dst, src, c, ending) ==
  LET dl == dst.chain[c.d].len
      sl == src.chain[c.s].len
      n  == Lesser(c.rem, Lesser(sl - c.sOff, dl - c.dOff))
      pairs == Pairs(StartOf(dst.chain, c.d) + c.dOff, StartOf(src.chain, c.s) + c.sOff, n)
      next == Chunk(c, n, pairs, ending)
  IN IF should_only_read(dst, c.d) THEN [c EXCEPT !.err = "PERM"]
     ELSE IF next.err # "NONE" THEN next
     ELSE [next EXCEPT !.d = IF c.dOff + n = dl THEN @ + 1 ELSE @,
                       !.dOff = IF c.dOff + n = dl THEN 0 ELSE @ + n,
                       !.s = IF c.sOff + n = sl THEN @ + 1 ELSE @,
                       !.sOff = IF c.sOff + n = sl THEN 0 ELSE @ + n]

(* try_end_copy_to_sg_impl, whose chunk number at ends that way. *)
SgImpl(dst, src, sz, dOff, sOff, at, ending) ==
  LET loop[k \in 0 .. Len(dst.chain) + Len(src.chain)] ==
        IF k = 0 THEN At(sz, find(dst, dOff), find(src, sOff))
        ELSE LET c == loop[k - 1] IN
             IF c.rem = 0 \/ c.err # "NONE" \/ c.d = End(dst) \/ c.s = End(src) THEN c
             ELSE SgTurn(dst, src, c, IF k = at THEN ending ELSE "NONE")
  IN loop[Len(dst.chain) + Len(src.chain)]

(* Mutant: the offset into the first descriptor is kept for the next. *)
MutLinearTurn(x, toSg, c, l, ending) ==
  LET n == Lesser(x.chain[c.d].len - c.dOff, c.rem)
      off == StartOf(x.chain, c.d) + c.dOff
      next == Chunk(c, n, IF toSg THEN Pairs(off, l + c.n, n) ELSE Pairs(l + c.n, off, n), ending)
  IN IF toSg /\ should_only_read(x, c.d) THEN [c EXCEPT !.err = "PERM"]
     ELSE IF next.err # "NONE" THEN next
     ELSE [next EXCEPT !.d = @ + 1]

(* A turn of the loop in copy_fromto_linear_impl: l bytes of the linear    *)
(* memory are behind it.                                                   *)
LinearTurn(x, toSg, c, l, ending) ==
  LET n == Lesser(x.chain[c.d].len - c.dOff, c.rem)
      off == StartOf(x.chain, c.d) + c.dOff
      next == Chunk(c, n, IF toSg THEN Pairs(off, l + c.n, n) ELSE Pairs(l + c.n, off, n), ending)
  IN IF toSg /\ should_only_read(x, c.d) THEN [c EXCEPT !.err = "PERM"]
     ELSE IF next.err # "NONE" THEN next
     ELSE [next EXCEPT !.d = @ + 1, !.dOff = 0]

(* copy_fromto_linear_impl *)
LinearImpl(x, toSg, sz, off, l, at, ending) ==
  LET loop[k \in 0 .. Len(x.chain)] ==
        IF k = 0 THEN At(sz, find(x, off), <<0, 0>>)
        ELSE LET c == loop[k - 1] IN
             IF c.rem = 0 \/ c.err # "NONE" \/ c.d = End(x) THEN c
             ELSE LinearTurn(x, toSg, c, l, IF k = at THEN ending ELSE "NONE")
  IN loop[Len(x.chain)]

(* Mutant: a write beyond the prefix extends it. *)
MutTracked(desc, off, n) ==
  [desc EXCEPT !.prefix = off + n]

(* DescMetadata::heuristically_track_written_bytes.  A write that ends     *)
(* below the prefix saturates it.                                          *)
Tracked(desc, off, n) ==
  IF off > desc.prefix THEN desc
  ELSE [desc EXCEPT !.prefix =
          IF off + n < @ \/ off + n > MaxBytes THEN MaxBytes ELSE off + n]

(* Buffer::heuristically_track_written_bytes *)
TrackedChain(x, off, n) ==
  LET at == find(x, off)
      From(i) == IF i = at[1] THEN at[2] ELSE 0
      (* the bytes left of the n when the loop reaches descriptor i *)
      Remain(i) == IF i = at[1] THEN n ELSE n - (StartOf(x.chain, i) - off)
  IN [x EXCEPT !.chain =
        [i \in DOMAIN x.chain |->
           IF i < at[1] \/ Remain(i) <= 0 THEN x.chain[i]
           ELSE Tracked(x.chain[i], From(i), Lesser(x.chain[i].len - From(i), Remain(i)))]]

(* written_bytes_lowerbound_heuristic: the writable descriptors up to the  *)
(* first that is not full, all of those before it, in 32 bits.             *)
written_bytes_lowerbound(x) ==
  IF ~x.seenW THEN 0
  ELSE LET gaps == {i \in x.firstW .. Len(x.chain) : x.chain[i].prefix # x.chain[i].len}
           last == IF gaps = {} THEN Len(x.chain) ELSE Min(gaps)
       IN (StartOf(x.chain, last) - StartOf(x.chain, x.firstW) + x.chain[last].prefix)
            % (MaxBytes + 1)

-----------------------------------------------------------------------------
(* The copies.  The requests of clients are within the chains, and a       *)
(* client keeps to what the cookies support: a source has one linear       *)
(* destination or any number of buffers.  A request of no bytes at all,    *)
(* which only tests its offsets, is left out.                              *)

Offset == 0 .. MaxBytes
CopySize == 1 .. MaxBytes
Copy(s, d) == [s |-> s, d |-> d, again |-> FALSE]
Busy(s, d) == \E c \in copies : c.s = s /\ c.d = d

(* start_copy_to_sg *)
StartToSg(s, d) ==
  /\ s # d /\ ~is_src_to_linear(s)
  /\ ~is_dst(s) /\ ~InUse(d)
  /\ \E sz \in CopySize, dOff, sOff \in Offset :
       /\ InBounds(buf[d], sz, dOff) /\ InBounds(buf[s], sz, sOff)
       /\ cookie' = [cookie EXCEPT
            ![s] = InitStatus(@, TRUE, TRUE),
            ![d] = [InitMetadata(@, FALSE, TRUE, sz, dOff, sOff) EXCEPT !.from = s]]
  /\ copies' = copies \cup {Copy(s, d)}
  /\ UNCHANGED <<buf, written>>
  /\ Bounded

(* start_copy_to_linear *)
StartToLinear(s) ==
  /\ ~is_src_to_sg(s) /\ ~is_src_to_linear(s)
  /\ ~is_dst(s)
  /\ \E sz \in CopySize, sOff \in Offset :
       /\ InBounds(buf[s], sz, sOff)
       /\ cookie' = [cookie EXCEPT ![s] =
            [InitMetadata(@, TRUE, FALSE, sz, 0, sOff) EXCEPT !.linDst = TRUE]]
  /\ copies' = copies \cup {Copy(s, Linear)}
  /\ UNCHANGED <<buf, written>>
  /\ Bounded

(* start_copy_from_linear *)
StartFromLinear(d) ==
  /\ ~is_src_to_sg(d) /\ ~is_src_to_linear(d)
  /\ ~is_dst(d)
  /\ \E sz \in CopySize, dOff \in Offset :
       /\ InBounds(buf[d], sz, dOff)
       /\ cookie' = [cookie EXCEPT ![d] =
            [InitMetadata(@, FALSE, FALSE, sz, dOff, 0) EXCEPT !.linSrc = TRUE]]
  /\ copies' = copies \cup {Copy(Linear, d)}
  /\ UNCHANGED <<buf, written>>
  /\ Bounded

(* A copy of n bytes ends within the prefix of the first writable          *)
(* descriptor: it has written some of the bytes tracked there again.       *)
Rewrites(x, off, n) ==
  /\ x.seenW /\ n > 0
  /\ LET first == StartOf(x.chain, x.firstW)
     IN off + n \in first + 1 .. first + x.chain[x.firstW].prefix - 1

(* What a call of try_end leaves of a copy that moved these bytes: the     *)
(* destination tracks them, and the copy goes on only after AGAIN.  Of a   *)
(* chain that a client has built nobody asks for the written bytes.        *)
Wrote(d, dOff, r) ==
  IF ~buf[d].forDevice THEN UNCHANGED <<buf, written>>
  ELSE /\ buf' = [buf EXCEPT ![d] = TrackedChain(@, dOff, r.n)]
       /\ written' = [written EXCEPT ![d] =
            [bytes |-> @.bytes \cup {p[1] : p \in r.moved},
             rewritten |-> @.rewritten \/ Rewrites(buf[d], dOff, r.n)]]

Left(s, d, again) ==
  copies' = {c \in copies : ~(c.s = s /\ c.d = d)} \cup
              {c \in {[Copy(s, d) EXCEPT !.again = TRUE]} : again}

(* try_end_copy_to_sg *)
TryEndToSg(s, d) ==
  /\ Busy(s, d) /\ is_src_to_matching_sg(s, d)
  /\ \E at \in 0 .. Len(buf[d].chain) + Len(buf[s].chain) : \E ending \in Ending(at) :
       LET c == cookie[d]
           r == SgImpl(buf[d], buf[s], c.sz, c.d, c.s, at, ending)
       IN /\ Wrote(d, c.d, r)
          /\ Left(s, d, r.err = "AGAIN")
          /\ cookie' = IF r.err = "AGAIN"
               THEN [cookie EXCEPT ![d] = Recorded(@, r.n)]
               ELSE [cookie EXCEPT ![d] = NoCopy, ![s] = ConcludeSrc(@)]

(* try_end_copy_to_linear *)
TryEndToLinear(s) ==
  /\ Busy(s, Linear) /\ is_src_to_linear(s)
  /\ \E at \in 0 .. Len(buf[s].chain) : \E ending \in Ending(at) :
       LET c == cookie[s]
           r == LinearImpl(buf[s], FALSE, c.sz, c.s, c.d, at, ending)
       IN /\ Left(s, Linear, r.err = "AGAIN")
          /\ cookie' = [cookie EXCEPT ![s] =
               IF r.err = "AGAIN" THEN Recorded(@, r.n) ELSE ConcludeSrc(@)]
  /\ UNCHANGED <<buf, written>>

(* try_end_copy_from_linear *)
TryEndFromLinear(d) ==
  /\ Busy(Linear, d) /\ is_dst_from_linear(d)
  /\ \E at \in 0 .. Len(buf[d].chain) : \E ending \in Ending(at) :
       LET c == cookie[d]
           r == LinearImpl(buf[d], TRUE, c.sz, c.d, c.s, at, ending)
       IN /\ Wrote(d, c.d, r)
          /\ Left(Linear, d, r.err = "AGAIN")
          /\ cookie' = [cookie EXCEPT ![d] =
               IF r.err = "AGAIN" THEN Recorded(@, r.n) ELSE NoCopy]

(* copy_to_sg, copy_to_linear and copy_from_linear try a number of times   *)
(* and then conclude the cookies themselves.                               *)
Tired(s, d) ==
  /\ \E c \in copies : c.s = s /\ c.d = d /\ c.again
  /\ Left(s, d, FALSE)
  /\ UNCHANGED <<buf, written>>

GiveUpToSg(s, d) ==
  /\ Tired(s, d)
  /\ cookie' = [cookie EXCEPT ![d] = NoCopy, ![s] = ConcludeSrc(@)]

GiveUpToLinear(s) ==
  /\ Tired(s, Linear)
  /\ cookie' = [cookie EXCEPT ![s] = ConcludeSrc(@)]

GiveUpFromLinear(d) ==
  /\ Tired(Linear, d)
  /\ cookie' = [cookie EXCEPT ![d] = NoCopy]

SgNext ==
  \/ \E b \in Buf :
       WalkChain(b) \/ WalkFails(b) \/ AddLink(b) \/ ModifyLink(b) \/ Conclude(b)
         \/ StartToLinear(b) \/ StartFromLinear(b)
         \/ TryEndToLinear(b) \/ TryEndFromLinear(b)
         \/ GiveUpToLinear(b) \/ GiveUpFromLinear(b)
  \/ \E s, d \in Buf : StartToSg(s, d) \/ TryEndToSg(s, d) \/ GiveUpToSg(s, d)

SgSpec == SgInit /\ [][SgNext]_sgVars

-----------------------------------------------------------------------------
(* The size of a chain was not wrapped by a refused modify_link, which     *)
(* only a chain that a client has built can meet.                          *)
Sized(b) == buf[b].size <= Bytes(buf[b].chain)

(* Full copies move every byte to its place, whatever the two chains are   *)
(* made of and wherever an earlier try has left off: the loops over the    *)
(* descriptors do what one loop over bytes would.  All that stops a copy   *)
(* between chains whose sizes are right is a readable descriptor of the    *)
(* destination.                                                            *)
CopyExact ==
  \A c \in copies : (\A b \in {c.s, c.d} \ {Linear} : Sized(b)) =>
    LET k == cookie[IF c.d = Linear THEN c.s ELSE c.d]
        r == IF c.d = Linear THEN LinearImpl(buf[c.s], FALSE, k.sz, k.s, k.d, 0, "NONE")
             ELSE IF c.s = Linear THEN LinearImpl(buf[c.d], TRUE, k.sz, k.d, k.s, 0, "NONE")
             ELSE SgImpl(buf[c.d], buf[c.s], k.sz, k.d, k.s, 0, "NONE")
    IN /\ r.n = k.sz /\ r.moved = Pairs(k.d, k.s, k.sz)
       \/ r.err = "PERM"

(* The bytes from the start of the writable part on that were written.     *)
PrefixWritten(b) ==
  LET first == StartOf(buf[b].chain, buf[b].firstW)
  IN CHOOSE n \in 0 .. Bytes(buf[b].chain) :
       /\ first .. first + n - 1 \subseteq written[b].bytes
       /\ first + n \notin written[b].bytes

(* The used length that goes to the driver is a lower bound of the bytes   *)
(* that were written into the prefix, over any sequence of copies that     *)
(* fail, are continued and overlap, with one exception, in which it is     *)
(* UINT32_MAX: a copy has ended within the bytes already tracked in the    *)
(* first writable descriptor, being shorter than an earlier one to the     *)
(* same place or having failed earlier.  The prefix of the descriptor is   *)
(* then UINT32_MAX (virtio_sg.cpp:17-21) and is counted as it stands, so   *)
(* that the device claims more than it wrote, although virtio_sg.hpp:82    *)
(* and virtio_sg.cpp:572 call the result a lower bound.  In any later      *)
(* descriptor the sum wraps below what was written.                        *)
WrittenIsLowerBound ==
  \A b \in Buf :
    buf[b].forDevice /\ buf[b].seenW =>
      LET used == written_bytes_lowerbound(buf[b])
      IN used <= PrefixWritten(b) \/ (written[b].rewritten /\ used = MaxBytes)

(* A copy that was started can be ended: its cookies keep matching, until  *)
(* it is concluded and no longer.  A source is in use as long as one of    *)
(* its destinations is.                                                    *)
CopiesPaired ==
  /\ \A c \in copies :
       IF c.d = Linear THEN is_src_to_linear(c.s)
       ELSE IF c.s = Linear THEN is_dst_from_linear(c.d)
       ELSE is_src_to_matching_sg(c.s, c.d)
  /\ \A b \in Buf :
       /\ InUse(b) => \E c \in copies : b \in {c.s, c.d}
       /\ cookie[b].pending = Cardinality({c \in copies : c.s = b})
===============================================================================
