------------------------------ MODULE KvStore ------------------------------
(***************************************************************************)
(* The quantized KV pool of patches/kv_int8.py and patches/kv_int4.py: one *)
(* layer of it, the kernels that store tokens into its rows, and the       *)
(* kernels by which attention gets them back, that of                      *)
(* patches/kv_paged_prefix.py included.                                    *)
(*                                                                         *)
(* A launch is a grid of programs that run in any order; the launches of   *)
(* one stream follow one another.  Buffers are flat, as the kernels        *)
(* address them.  Numbers are counted in quanta, the distance of the       *)
(* smallest fp16 numbers, so that a scale is a natural number.  What       *)
(* rounding a product to bf16 takes away is left out, the approximate      *)
(* division of the int8 kernel is taken as exact, and the smoothing        *)
(* constants, which are 1, are left out.                                   *)
(*                                                                         *)
(* A definition whose comment starts with Fault is a plausible mistake in  *)
(* the one that follows it.                                                *)
(***************************************************************************)
EXTENDS Integers, FiniteSetsExt, SequencesExt, Prefixes

CONSTANTS
  Pools,  \* the pools there may be, records
  None

(* The fields of a pool:                                                   *)
(*   bits: of a channel;                                                   *)
(*   qMax, scaleMax: the largest code, the largest fp16 number;            *)
(*   one, nanCode: the scale of a group of zeros, the code the hardware    *)
(*     makes of 0 / 0;                                                     *)
(*   heads, dim, group: KV heads, channels of a head, channels that share  *)
(*     a scale;                                                            *)
(*   rows, reqs: rows of the pool, of which row 0 belongs to no token, and *)
(*     of req_to_token;                                                    *)
(*   topK, page, block: columns of a row of selected positions, rows of a  *)
(*     request in the trtllm scratch, rows that one program gathers;       *)
(*   maxNew, maxPad: new tokens of a request in a forward, padded tokens;  *)
(*   texts: the values of the tokens in the order of their arrival,        *)
(*     texts[n][side][head][channel].                                      *)
Sides == {"k", "v"}

PoolOK(f) ==
  /\ f.bits \in {4, 8} /\ f.qMax \in 1 .. 127 /\ (f.bits = 4 => f.qMax <= 7)
  /\ f.scaleMax \in Nat \ {0} /\ f.one \in 1 .. f.scaleMax /\ f.nanCode \in -f.qMax .. f.qMax
  /\ {f.heads, f.dim, f.group, f.rows, f.reqs, f.topK, f.page, f.block} \subseteq Nat \ {0}
  /\ f.group % (8 \div f.bits) = 0 /\ f.dim % f.group = 0 /\ f.topK <= f.page
  /\ {f.maxNew, f.maxPad} \subseteq Nat
  /\ f.texts \in Seq([Sides -> [0 .. f.heads - 1 -> [0 .. f.dim - 1 -> Int]]])

ASSUME PoolsAssumption == \A f \in Pools : PoolOK(f)
ASSUME NoneAssumption == None \notin Int

VARIABLES
  pool,     \* the pool this behavior is about
  payload,  \* payload[side]: the bytes of k_buffer or v_buffer, flat
  scales,   \* scales[side]: those of k_scale_buffer or v_scale_buffer
  table,    \* table[r]: the slots of the positions of request r (req_to_token)
  held,     \* held[slot]: the token that was given this slot, None if it is free
  arrived,  \* tokens that have arrived
  launch,   \* the kernel that runs: its kind and its arguments
  todo,     \* the programs of its grid that have not run
  out       \* out[side]: rows of the bf16 scratch by address, None: not written

vars == <<pool, payload, scales, table, held, arrived, launch, todo, out>>

QMax == pool.qMax
Heads == pool.heads
Dim == pool.dim
Group == pool.group
TopK == pool.topK
Block == pool.block
Texts == pool.texts
Reqs == 1 .. pool.reqs
Slots == 1 .. pool.rows - 1
Bytes == Dim \div (8 \div pool.bits)
NumGroups == Dim \div Group

Idle == [kind |-> "none"]

Init ==
  /\ pool \in Pools
  /\ payload = [s \in Sides |-> [i \in 0 .. pool.rows * Heads * Bytes - 1 |-> 0]]
  /\ scales = [s \in Sides |-> [i \in 0 .. pool.rows * Heads * NumGroups - 1 |-> 0]]
  /\ table = [r \in Reqs |-> <<>>]
  /\ held = [s \in Slots |-> None]
  /\ arrived = 0
  /\ launch = Idle /\ todo = {} /\ out = None

-----------------------------------------------------------------------------
(* Quantization.                                                           *)

Abs(x) == IF x < 0 THEN -x ELSE x

(* n / d to the nearest integer, ties to even.                             *)
Rint(n, d) ==
  LET f == n \div d
      r == n % d
  IN IF 2 * r < d \/ (2 * r = d /\ f % 2 = 0) THEN f ELSE f + 1

Clamp(q) == IF q > QMax THEN QMax ELSE IF q < -QMax THEN -QMax ELSE q

AbsMax(x, g) == Max({Abs(x[d]) : d \in g * Group .. (g + 1) * Group - 1})

(* The fp16 scale of group g of the channels x.                            *)
ScaleOf(x, g) ==
  IF AbsMax(x, g) = 0 THEN pool.one ELSE Min({Rint(AbsMax(x, g), QMax), pool.scaleMax})

(* Fault: what the rounding of the scale lets through is not clamped.      *)
CodeUnclamped(x, s) ==
  IF s = 0 THEN IF x > 0 THEN QMax ELSE IF x < 0 THEN -QMax ELSE pool.nanCode ELSE Rint(x, s)

(* A scale may round to 0 although its group is not all zeros.             *)
Code(x, s) ==
  IF s = 0 THEN IF x > 0 THEN QMax ELSE IF x < 0 THEN -QMax ELSE pool.nanCode
  ELSE Clamp(Rint(x, s))

Codes(x) == [d \in 0 .. Dim - 1 |-> Code(x[d], ScaleOf(x, d \div Group))]

(* What _quant_store_kv_int8 stores of the channels x of a head.           *)
Bytes8(x) == Codes(x)

(* _quant_store_kv_int4: the even channel of a pair is in the low nibble.  *)
Bytes4(x) ==
  [i \in 0 .. Bytes - 1 |-> (Codes(x)[2 * i] + 8) + 16 * (Codes(x)[2 * i + 1] + 8)]

Quantized(x) == IF pool.bits = 8 THEN Bytes8(x) ELSE Bytes4(x)

Row(slot, h) == (slot * Heads + h) * Bytes

(* Fault: the scales of all heads of a slot share a row.                   *)
ScaleRowOfSlot(slot, h) == slot * Heads * NumGroups

ScaleRow(slot, h) == (slot * Heads + h) * NumGroups

(* Channel d of head h in a slot of the int8 pool, dequantized.            *)
Channel8(s, slot, h, d) ==
  payload[s][Row(slot, h) + d] * scales[s][ScaleRow(slot, h) + d \div Group]

(* Of the int4 pool: a pair of channels has a byte, half a group of bytes  *)
(* a scale.                                                                *)
Channel4(s, slot, h, d) ==
  LET pair == d \div 2
      byte == payload[s][Row(slot, h) + pair]
      nibble == IF d % 2 = 0 THEN byte % 16 ELSE byte \div 16
  IN (nibble - 8) * scales[s][ScaleRow(slot, h) + pair \div (Group \div 2)]

Loaded(s, slot, h, d) ==
  IF pool.bits = 8 THEN Channel8(s, slot, h, d) ELSE Channel4(s, slot, h, d)

-----------------------------------------------------------------------------
(* A forward: new tokens are given free slots, req_to_token is written,    *)
(* and the store kernel is launched; the captured graph of a decode pads   *)
(* its tokens with slot 0.                                                 *)

Free == {s \in Slots : held[s] = None}

(* One program of the store kernel for every token and head.               *)
StoreGrid(n) == (1 .. n) \X (0 .. Heads - 1)

(* The lowest free slots in their order.                                   *)
Lowest(given) ==
  /\ \A i, j \in DOMAIN given : i < j => given[i] < given[j]
  /\ \A i \in DOMAIN given, s \in Free : s < given[i] => \E j \in DOMAIN given : given[j] = s

(* count[r] new tokens of every request r.  (The slots are taken lowest    *)
(* first: which ones are free is up to the requests that ended before.)    *)
Forward(count, pad) ==
  LET before == PrefixSums(count, pool.reqs)
      total == before[pool.reqs]
  IN \E given \in [1 .. total -> Free] :
       /\ Lowest(given)
       /\ launch = Idle /\ total > 0
       /\ pad > 0 => \A r \in Reqs : count[r] <= 1
       /\ arrived + total <= Len(Texts)
       /\ arrived' = arrived + total
       /\ held' = [s \in Slots |->
                     IF \E i \in 1 .. total : given[i] = s
                     THEN arrived + (CHOOSE i \in 1 .. total : given[i] = s) ELSE held[s]]
       /\ table' = [r \in Reqs |->
                      table[r] \o [i \in 1 .. count[r] |-> given[before[r - 1] + i]]]
       /\ launch' = [kind |-> "store", count |-> count,
                     loc |-> given \o [i \in 1 .. pad |-> 0],
                     ids |-> [i \in 1 .. total |-> arrived + i] \o [i \in 1 .. pad |-> 1]]
       /\ todo' = StoreGrid(total + pad)
       /\ out' = None
       /\ UNCHANGED <<pool, payload, scales>>

(* Program (t, h) of _quant_store_kv: one K row and one V row.             *)
Store(t, h) ==
  LET slot == launch.loc[t]
      x(s) == Texts[launch.ids[t]][s][h]
  IN /\ launch.kind = "store"
     /\ todo' = todo \ {<<t, h>>}
     /\ payload' = [s \in Sides |-> [i \in DOMAIN payload[s] |->
                      IF i \in Row(slot, h) .. Row(slot, h) + Bytes - 1
                      THEN Quantized(x(s))[i - Row(slot, h)] ELSE payload[s][i]]]
     /\ scales' = [s \in Sides |-> [i \in DOMAIN scales[s] |->
                     IF i \in ScaleRow(slot, h) .. ScaleRow(slot, h) + NumGroups - 1
                     THEN ScaleOf(x(s), i - ScaleRow(slot, h)) ELSE scales[s][i]]]
     /\ UNCHANGED <<pool, table, held, arrived, launch, out>>

-----------------------------------------------------------------------------
(* Attention reads back.  A launch has one row per request, or per query   *)
(* of the chunk (paged): the request, the number of its positions, and the *)
(* selected positions in ascending order, filled up with -1.               *)

PositionRows(n) ==
  {row \in [1 .. TopK -> -1 .. n - 1] : \E m \in 1 .. TopK :
     /\ \A i \in 1 .. TopK : row[i] >= 0 <=> i <= m
     /\ \A i, j \in 1 .. m : i < j => row[i] < row[j]}

(* The rows of a launch and, for every way to select, sel[b].              *)
Selected(rows) ==
  {f \in [DOMAIN rows -> UNION {PositionRows(rows[b].len) : b \in DOMAIN rows}] :
     \A b \in DOMAIN rows : f[b] \in PositionRows(rows[b].len)}

Batch == Select([r \in Reqs |-> r], {r \in Reqs : launch.count[r] > 0})

RequestRows ==
  [b \in 1 .. Len(Batch) |-> [req |-> Batch[b], len |-> Len(table[Batch[b]])]]

(* Query j of a chunk sees the positions before it and itself.             *)
QueryRows ==
  LET before == PrefixSums(launch.count, pool.reqs)
  IN [i \in 1 .. before[pool.reqs] |->
        LET r == CHOOSE r \in Reqs : before[r - 1] < i /\ i <= before[r]
        IN [req |-> r, len |-> Len(table[r]),
            visible |-> (i - before[r - 1] - 1) + Len(table[r]) - launch.count[r] + 1]]

Count(row) == Cardinality({c \in DOMAIN row : row[c] >= 0})

(* Where the region of each row begins, and one more entry for the end.    *)
Cumulative(sizes) ==
  [b \in 1 .. Len(sizes) + 1 |-> PrefixSums(sizes, Len(sizes))[b - 1]]

(* The grid of a gather over n rows of up to so many columns.              *)
Grid(n, cols) == (1 .. n) \X (0 .. Heads - 1) \X (0 .. ((cols + Block - 1) \div Block) - 1)

Stored == launch.kind = "store" /\ todo = {}

Launch(l, programs) ==
  /\ Stored
  /\ launch' = l /\ todo' = programs
  /\ out' = [s \in Sides |-> <<>>]
  /\ UNCHANGED <<pool, payload, scales, table, held, arrived>>

(* Decode: every request has one new token.  The FA2 scratch is packed by  *)
(* the counts, that of trtllm has a region of whole pages for every row.   *)
LaunchCompact(packed) ==
  LET n == Len(Batch)
  IN /\ Stored /\ \A r \in Reqs : launch.count[r] <= 1
     /\ \E sel \in Selected(RequestRows) :
          Launch([kind |-> "compact", rows |-> RequestRows, sel |-> sel,
                  cu |-> Cumulative([b \in 1 .. n |-> IF packed THEN Count(sel[b]) ELSE pool.page])],
                 Grid(n, TopK))

(* A chunk that continues a prefix: all rows of the request are gathered.  *)
LaunchPrefix ==
  LET n == Len(Batch)
      size == [b \in 1 .. n |-> RequestRows[b].len]
  IN /\ Stored
     /\ Launch([kind |-> "prefix", rows |-> RequestRows,
                sel |-> [b \in 1 .. n |-> [i \in 1 .. size[b] |-> i - 1]],
                cu |-> Cumulative(size)],
               Grid(n, Max(ToSet(size))))

(* The same by the paged kernel, which keeps the rows in registers: those  *)
(* of query b are written down from row (b - 1) * TopK of out.             *)
LaunchPaged ==
  LET n == Len(QueryRows)
      seen == [b \in 1 .. n |-> [QueryRows[b] EXCEPT !.len = QueryRows[b].visible]]
  IN /\ Stored
     /\ \E sel \in Selected(seen) :
          Launch([kind |-> "paged", rows |-> QueryRows, sel |-> sel,
                  cu |-> Cumulative([b \in 1 .. n |-> TopK])],
                 (1 .. n) \X (0 .. Heads - 1) \X {0})

(* Fault: the loop ends with the last whole tile.                          *)
RowLimitWhole(row) == (Min({TopK, row.visible}) \div Block) * Block

(* How far the paged kernel goes through the row of a query.               *)
RowLimit(row) == Min({TopK, ((Min({TopK, row.visible}) + Block - 1) \div Block) * Block})

(* The selected position in column c of row b, -1 if there is none.        *)
SelectedAt(b, c) == IF c < TopK THEN launch.sel[b][c + 1] ELSE -1

InRow(b, pos) == pos \in 0 .. launch.rows[b].len - 1

Address(b, c, h, d) == ((launch.cu[b] + c) * Heads + h) * Dim + d

(* Where program h of row b writes the columns cols.                       *)
Places(b, h, cols) == {Address(b, c, h, d) : c \in cols, d \in 0 .. Dim - 1}

(* What it writes at place a, bringing position pos[c] to column c.        *)
Carried(s, b, h, pos, a) ==
  LET p == CHOOSE p \in (DOMAIN pos) \X (0 .. Dim - 1) : Address(b, p[1], h, p[2]) = a
  IN Loaded(s, table[launch.rows[b].req][pos[p[1]] + 1], h, p[2])

Gather(b, h, pos) ==
  LET written == Places(b, h, DOMAIN pos)
  IN /\ out' = [s \in Sides |-> [a \in written \cup DOMAIN out[s] |->
                  IF a \in written THEN Carried(s, b, h, pos, a) ELSE out[s][a]]]
     /\ UNCHANGED <<pool, payload, scales, table, held, arrived, launch>>

Tile(k) == k * Block .. (k + 1) * Block - 1

Compact(b, h, k) ==
  /\ launch.kind = "compact"
  /\ todo' = todo \ {<<b, h, k>>}
  /\ LET valid == {c \in Tile(k) : /\ c < launch.cu[b + 1] - launch.cu[b]
                                   /\ InRow(b, SelectedAt(b, c))}
     IN Gather(b, h, [c \in valid |-> SelectedAt(b, c)])

Prefix(b, h, k) ==
  /\ launch.kind = "prefix"
  /\ todo' = todo \ {<<b, h, k>>}
  /\ Gather(b, h, [t \in {c \in Tile(k) : InRow(b, c)} |-> t])

Paged(b, h) ==
  /\ launch.kind = "paged"
  /\ todo' = todo \ {<<b, h, 0>>}
  /\ LET valid == {c \in 0 .. RowLimit(launch.rows[b]) - 1 : InRow(b, SelectedAt(b, c))}
     IN Gather(b, h, [c \in valid |-> SelectedAt(b, c)])

Gathered == launch.kind \in {"compact", "prefix", "paged"} /\ todo = {}

Return ==
  /\ Gathered
  /\ launch' = Idle /\ out' = None
  /\ UNCHANGED <<pool, payload, scales, table, held, arrived, todo>>

(* A request ends: its slots are free, what they hold stays.               *)
End(r) ==
  /\ launch = Idle /\ table[r] # <<>>
  /\ table' = [table EXCEPT ![r] = <<>>]
  /\ held' = [s \in Slots |-> IF s \in ToSet(table[r]) THEN None ELSE held[s]]
  /\ UNCHANGED <<pool, payload, scales, arrived, launch, todo, out>>

Next ==
  \/ \E count \in [Reqs -> 0 .. pool.maxNew], pad \in 0 .. pool.maxPad : Forward(count, pad)
  \/ \E p \in todo : Store(p[1], p[2])
  \/ \E packed \in BOOLEAN : LaunchCompact(packed)
  \/ LaunchPrefix \/ LaunchPaged
  \/ \E p \in todo : Compact(p[1], p[2], p[3]) \/ Prefix(p[1], p[2], p[3]) \/ Paged(p[1], p[2])
  \/ Return
  \/ \E r \in Reqs : End(r)

Spec == Init /\ [][Next]_vars

-----------------------------------------------------------------------------
(* y is what x may come back as: within half a step of absmax / QMax, and  *)
(* what rounding the scale adds; or the largest number there is of its     *)
(* sign when even the largest scale is too small.                          *)
Near(x, y, a) ==
  \/ 4 * QMax * Abs(x - y) <= Max({2 * a + QMax, 2 * QMax * QMax})
  \/ a > QMax * pool.scaleMax /\ Abs(y) = QMax * pool.scaleMax /\ Abs(x) > Abs(y) /\ x * y > 0

Returns(s, slot, h, d, y) ==
  LET x == Texts[held[slot]][s][h] IN Near(x[d], y, AbsMax(x, d \div Group))

Writing(slot) == launch.kind = "store" /\ \E p \in todo : launch.loc[p[1]] = slot

-----------------------------------------------------------------------------
(* Every token that was stored can be read from the pool as long as its    *)
(* slot is its own: no program of the grid writes into another's payload   *)
(* or scale row, whatever was in the slot before, with zeros, with groups  *)
(* whose scale rounds to 0, and with groups beyond the largest scale       *)
(* (kv_int8.py:302-328, kv_int4.py:308-357).                               *)
PoolHolds ==
  \A slot \in Slots : held[slot] # None /\ ~Writing(slot) =>
    \A s \in Sides, h \in 0 .. Heads - 1, d \in 0 .. Dim - 1 :
      Returns(s, slot, h, d, Loaded(s, slot, h, d))

(* The scratch rows that attention reads for row b.                        *)
Reads(b) == UNION {Places(b, h, 0 .. Count(launch.sel[b]) - 1) : h \in 0 .. Heads - 1}

(* When a gather is done, attention finds in the region of a row its       *)
(* selected positions in their order, each with its own token, although    *)
(* slots are recycled and the last tile of a row is not full; and "only    *)
(* valid (in-region, 0 <= pos < seq_len) columns are written"              *)
(* (kv_int8.py:383-420, kv_paged_prefix.py:203-228).                       *)
GatherReturns ==
  Gathered =>
    /\ \A s \in Sides : DOMAIN out[s] = UNION {Reads(b) : b \in DOMAIN launch.rows}
    /\ \A b \in DOMAIN launch.rows : \A c \in 0 .. Count(launch.sel[b]) - 1 :
         LET slot == table[launch.rows[b].req][launch.sel[b][c + 1] + 1]
         IN \A s \in Sides, h \in 0 .. Heads - 1, d \in 0 .. Dim - 1 :
              Returns(s, slot, h, d, out[s][Address(b, c, h, d)])
=============================================================================
