------------------------------- MODULE QrCode -------------------------------
(***************************************************************************)
(* The symbol a phone scans off the panel: qr_code.c, byte mode, level L,  *)
(* versions 1 to 6.  A byte is the set of its one bits, so exclusive or is *)
(* the symmetric difference; a drawing is the cells it covers and the dark *)
(* ones among them, so drawing over what is there needs no order of its    *)
(* own beyond Over.                                                        *)
(***************************************************************************)
EXTENDS Integers, Sequences, FiniteSetsExt

CONSTANTS
    Payloads,   \* bound: the texts, sequences of bytes
    Lines,      \* bound: the rows scored on their own, sequences of BOOLEAN
    NoText      \* NULL

ASSUME QrAssumption == Payloads \subseteq Seq(SUBSET (0 .. 7)) /\ NoText \notin Payloads

VARIABLES
    payload,    \* the text qr_encode() is given
    line,       \* a row or column penalty() walks over
    symbol      \* the caller's buffer: its side and its dark modules

qrVars == <<payload, line, symbol>>

NotEncoded == [size |-> -1, dark |-> {}]
TooLongToDraw == [size |-> 0, dark |-> {}]

QrTypeOK ==
    /\ payload = NoText \/ payload \in Payloads
    /\ line = <<>> \/ line \in Lines
    /\ symbol.size \in {-1, 0} \cup {4 * v + 17 : v \in 1 .. 6}
    /\ symbol.dark \subseteq (0 .. symbol.size - 1) \X (0 .. symbol.size - 1)

Versions6 == 1 .. 6
s_data_cw == <<19, 34, 55, 80, 108, 136>>
s_ecc_cw == <<7, 10, 15, 20, 26, 18>>
s_blocks == <<1, 1, 1, 1, 1, 2>>
s_capacity == <<17, 32, 53, 78, 106, 134>>
Side(v) == 4 * v + 17

------------------------------------------------------------------------------
(* Codewords. *)

Bits(n) == {b \in 0 .. 7 : (n \div 2 ^ b) % 2 = 1}
Shifted(z) == {b + 1 : b \in z}

(* One doubling step modulo x^8 + x^4 + x^3 + x^2 + 1. *)
Doubled(z) == LET s == Shifted(z \ {7}) IN IF 7 \in z THEN SymDiff(s, {0, 2, 3, 4}) ELSE s

gf_mul(x, y) ==
    LET z[i \in 0 .. 8] ==
            IF i = 8 THEN {}
            ELSE LET d == Doubled(z[i + 1]) IN IF i \in y THEN SymDiff(d, x) ELSE d
    IN z[0]

(* Without its leading 1, highest coefficient first. *)
rs_generator(degree) ==
    LET after[i \in 0 .. degree] ==
            IF i = 0
            THEN [gen |-> [j \in 1 .. degree |-> IF j = degree THEN {0} ELSE {}], root |-> {0}]
            ELSE LET s == after[i - 1]
                     times == [j \in 1 .. degree |-> gf_mul(s.gen[j], s.root)]
                 IN [gen |-> [j \in 1 .. degree |->
                                 IF j < degree THEN SymDiff(times[j], s.gen[j + 1]) ELSE times[j]],
                     root |-> gf_mul(s.root, {1})]
    IN after[degree].gen

rs_remainder(data, gen) ==
    LET degree == Len(gen)
        after[i \in 0 .. Len(data)] ==
            IF i = 0 THEN [j \in 1 .. degree |-> {}]
            ELSE LET out == after[i - 1]
                     factor == SymDiff(data[i], out[1])
                     moved == Append(Tail(out), {})
                 IN [j \in 1 .. degree |-> SymDiff(moved[j], gf_mul(gen[j], factor))]
    IN after[Len(data)]

(* A buffer is the set of the positions of its one bits. *)
put_bits(pos, value, count) == {pos + count - 1 - b : b \in value \cap (0 .. count - 1)}
CodewordAt(buf, k) == {b \in 0 .. 7 : 8 * k + 7 - b \in buf}

(* Mode, length, text, terminator, and pad codewords. *)
build_data(text, v) ==
    LET capacity == 8 * s_data_cw[v]
        written == 12 + 8 * Len(text)
        buf == put_bits(0, {2}, 4) \cup put_bits(4, Bits(Len(text)), 8)
               \cup UNION {put_bits(4 + 8 * i, text[i], 8) : i \in 1 .. Len(text)}
        ended == IF written + 4 <= capacity THEN written + 4 ELSE written
        used == (IF ended % 8 = 0 THEN ended ELSE ended + 8 - (ended % 8)) \div 8
    IN [k \in 1 .. s_data_cw[v] |->
           IF k <= used THEN CodewordAt(buf, k - 1)
           ELSE IF (k - used) % 2 = 1 THEN {2, 3, 5, 6, 7} ELSE {0, 4}]

(* The blocks take turns, in the data and then in the error correction:    *)
(* word k of a symbol is word i of block b.                                *)
Turn(k, v) == [i |-> (k - 1) \div s_blocks[v], b |-> (k - 1) % s_blocks[v]]
BlockAfterBlock(k, v) ==                            \* not interleaved
    LET per_block == (s_data_cw[v] \div s_blocks[v]) + s_ecc_cw[v]
    IN [i |-> (k - 1) % per_block, b |-> (k - 1) \div per_block]
Interleaved(k, v) == Turn(k, v)

Codewords(text, v) ==
    LET data == build_data(text, v)
        per_block == s_data_cw[v] \div s_blocks[v]
        gen == rs_generator(s_ecc_cw[v])
        ecc(b) == rs_remainder(SubSeq(data, b * per_block + 1, (b + 1) * per_block), gen)
        all == data \o ecc(0) \o (IF s_blocks[v] = 2 THEN ecc(1) ELSE <<>>)
    IN [k \in 1 .. Len(all) |->
           LET from == Interleaved(k, v)
           IN IF from.i < per_block THEN all[from.b * per_block + from.i + 1]
              ELSE all[Len(data) + from.b * s_ecc_cw[v] + from.i - per_block + 1]]

------------------------------------------------------------------------------
(* Drawing. *)

Drawing(cells, dark) == [cells |-> cells, dark |-> dark]
Over(below, d) == Drawing(below.cells \cup d.cells, (below.dark \ d.cells) \cup d.dark)

Apart(c, d) == Max({c[1] - d[1], d[1] - c[1], c[2] - d[2], d[2] - c[2]})

(* draw_finder(), draw_alignment(): rings about a centre, clipped to the   *)
(* symbol.                                                                 *)
Rings(size, centre, radius, light) ==
    LET near(n) == Max({0, n - radius}) .. Min({size - 1, n + radius})
        cells == near(centre[1]) \X near(centre[2])
    IN Drawing(cells, {c \in cells : Apart(c, centre) \notin light})
draw_finder(size, centre) == Rings(size, centre, 4, {2, 4})
draw_alignment(size, centre) == Rings(size, centre, 2, {1})

(* Level and mask under a (15,5) BCH code, times the fixed mask. *)
FormatBits(mask) ==
    LET data == {3} \cup Bits(mask)
        rem[i \in 0 .. 10] ==
            IF i = 0 THEN data
            ELSE LET r == rem[i - 1]
                 IN IF 9 \in r THEN SymDiff(Shifted(r), {0, 1, 2, 4, 5, 8, 10}) ELSE Shifted(r)
    IN SymDiff({b + 10 : b \in data} \cup rem[10], {1, 4, 10, 12, 14})

FirstCopy(i) ==
    IF i <= 5 THEN <<8, i>>
    ELSE IF i <= 7 THEN <<8, i + 1>>
    ELSE IF i = 8 THEN <<7, 8>> ELSE <<14 - i, 8>>
SecondCopy(size, i) == IF i < 8 THEN <<size - 1 - i, 8>> ELSE <<8, size - 15 + i>>

draw_format(size, mask) ==
    LET places(I) == {FirstCopy(i) : i \in I} \cup {SecondCopy(size, i) : i \in I}
                     \cup {<<8, size - 8>>}
    IN Drawing(places(0 .. 14), places(FormatBits(mask)))

Timing(size) ==
    LET cells == ({6} \X (0 .. size - 1)) \cup ((0 .. size - 1) \X {6})
    IN Drawing(cells, {c \in cells : IF c[1] = 6 /\ c[2] # 6 THEN c[2] % 2 = 0 ELSE c[1] % 2 = 0})

(* The alignment pattern's centre: size - 7, both ways. *)
AlignmentCentre(size) == <<size - 7, size - 7>>

draw_function_patterns(v) ==
    LET size == Side(v)
        finders == Over(Over(Over(Timing(size), draw_finder(size, <<3, 3>>)),
                             draw_finder(size, <<size - 4, 3>>)),
                        draw_finder(size, <<3, size - 4>>))
        aligned == IF v >= 2 THEN Over(finders, draw_alignment(size, AlignmentCentre(size))) ELSE finders
    IN Over(aligned, draw_format(size, 0))

(* Two columns at a time from the bottom right corner, up and down. *)
ZigZag(size) ==
    [t \in 1 .. size * (size - 1) |->
        LET step == (t - 1) % (2 * size)
            from == size - 1 - 2 * ((t - 1) \div (2 * size))
            right == IF from <= 6 THEN from - 1 ELSE from       \* column 6 is timing
            upward == ((right + 1) \div 2) % 2 = 0
            vert == step \div 2
        IN <<right - (step % 2), IF upward THEN size - 1 - vert ELSE vert>>]

place_codewords(size, patterns, cw) ==
    LET free == SelectSeq(ZigZag(size), LAMBDA c : c \notin patterns.cells)
    IN {free[k] : k \in {k \in 1 .. Min({Len(free), 8 * Len(cw)}) :
                            7 - ((k - 1) % 8) \in cw[(k - 1) \div 8 + 1]}}

mask_bit(mask, x, y) ==
    CASE mask = 0 -> (x + y) % 2 = 0
      [] mask = 1 -> y % 2 = 0
      [] mask = 2 -> x % 3 = 0
      [] mask = 3 -> (x + y) % 3 = 0
      [] mask = 4 -> ((x \div 3) + (y \div 2)) % 2 = 0
      [] mask = 5 -> ((x * y) % 2) + ((x * y) % 3) = 0
      [] mask = 6 -> (((x * y) % 2) + ((x * y) % 3)) % 2 = 0
      [] mask = 7 -> (((x + y) % 2) + ((x * y) % 3)) % 2 = 0

(* apply_mask(), then the format information of that mask over it. *)
Masked(size, patterns, placed, mask) ==
    LET flipped == {c \in ((0 .. size - 1) \X (0 .. size - 1)) \ patterns.cells :
                       mask_bit(mask, c[1], c[2])}
        drawn == Over(Drawing(patterns.cells, patterns.dark), draw_format(size, mask))
    IN drawn.dark \cup SymDiff(placed, flipped)

------------------------------------------------------------------------------
(* The penalty of a mask.  A run history holds the last seven runs, the    *)
(* latest first; the quiet zone is a run of light modules at either end.   *)

add_history(run, history, size) ==
    <<IF history[1] = 0 THEN run + size ELSE run>> \o SubSeq(history, 1, 6)

One(condition) == IF condition THEN 1 ELSE 0

count_finder_like(h) ==
    LET n == h[2]
        core == n > 0 /\ h[3] = n /\ h[4] = n * 3 /\ h[5] = n /\ h[6] = n
    IN One(core /\ h[1] >= n * 4 /\ h[7] >= n) + One(core /\ h[7] >= n * 4 /\ h[1] >= n)

terminate_and_count(color, run, history, size) ==
    IF color
    THEN count_finder_like(add_history(size, add_history(run, history, size), size))
    ELSE count_finder_like(add_history(run + size, history, size))

(* One row or column: runs of five and more, and finder-like patterns. *)
LinePenalty(row) ==
    LET size == Len(row)
        after[i \in 0 .. size] ==
            IF i = 0 THEN [color |-> FALSE, run |-> 0, history |-> [k \in 1 .. 7 |-> 0], score |-> 0]
            ELSE LET s == after[i - 1]
                     seen == add_history(s.run, s.history, size)
                 IN IF row[i] = s.color
                    THEN [s EXCEPT !.run = @ + 1,
                                   !.score = @ + (IF s.run = 4 THEN 3 ELSE One(s.run > 4))]
                    ELSE [color |-> row[i], run |-> 1, history |-> seen,
                          score |-> s.score + (IF s.color THEN 0 ELSE 40 * count_finder_like(seen))]
        last == after[size]
    IN last.score + 40 * terminate_and_count(last.color, last.run, last.history, size)

penalty(size, dark) ==
    LET rows == [y \in 1 .. size |-> [x \in 1 .. size |-> <<x - 1, y - 1>> \in dark]]
        columns == [x \in 1 .. size |-> [y \in 1 .. size |-> rows[y][x]]]
        blocks == {c \in (1 .. size - 1) \X (1 .. size - 1) :
                      rows[c[2]][c[1]] = rows[c[2]][c[1] + 1] /\ rows[c[2]][c[1]] = rows[c[2] + 1][c[1]]
                      /\ rows[c[2]][c[1]] = rows[c[2] + 1][c[1] + 1]}
        total == size * size
        off == 20 * Cardinality(dark) - 10 * total
        deviation == IF off < 0 THEN - off ELSE off
    IN 10 * (((deviation + total - 1) \div total) - 1) + 3 * Cardinality(blocks)
       + MapThenSumSet(LAMBDA i : LinePenalty(rows[i]) + LinePenalty(columns[i]), 1 .. size)

(* choose_mask(): every mask is tried; the first of the least penalty.     *)
Better(t, u) == t.score < u.score \/ (t.score = u.score /\ t.mask <= u.mask)
choose_mask(size, patterns, placed) ==
    LET trial(mask) ==
            LET dark == Masked(size, patterns, placed, mask)
            IN [mask |-> mask, score |-> penalty(size, dark), dark |-> dark]
        trials == {trial(mask) : mask \in 0 .. 7}
    IN CHOOSE t \in trials : \A u \in trials : Better(t, u)

(* qr_encode() *)
Fitting(text) == {v \in Versions6 : Len(text) <= s_capacity[v]}

qr_encode(text) ==
    IF Fitting(text) = {} THEN TooLongToDraw
    ELSE LET v == Min(Fitting(text))
             size == Side(v)
             patterns == draw_function_patterns(v)
             placed == place_codewords(size, patterns, Codewords(text, v))
         IN [size |-> size, dark |-> choose_mask(size, patterns, placed).dark]

Encode ==
    /\ symbol = NotEncoded
    /\ symbol' = IF payload = NoText THEN TooLongToDraw ELSE qr_encode(payload)
    /\ UNCHANGED <<payload, line>>

(* A text to draw, or a row on its own. *)
QrInit ==
    /\ \/ payload \in Payloads /\ line = <<>>
       \/ payload = NoText /\ line \in Lines
    /\ symbol = NotEncoded
QrNext == Encode

QrSpec == QrInit /\ [][QrNext]_qrVars

------------------------------------------------------------------------------
(* Reading a symbol the way a scanner does, from its modules alone. *)

(* What ISO/IEC 18004 lists for level L, bit 14 first. *)
ListedFormat ==
    << <<1,1,1,0,1,1,1,1,1,0,0,0,1,0,0>>, <<1,1,1,0,0,1,0,1,1,1,1,0,0,1,1>>,
       <<1,1,1,1,1,0,1,1,0,1,0,1,0,1,0>>, <<1,1,1,1,0,0,0,1,0,0,1,1,1,0,1>>,
       <<1,1,0,0,1,1,0,0,0,1,0,1,1,1,1>>, <<1,1,0,0,0,1,1,0,0,0,1,1,0,0,0>>,
       <<1,1,0,1,1,0,0,0,1,0,0,0,0,0,1>>, <<1,1,0,1,0,0,1,0,1,1,1,0,1,1,0>> >>

(* Bit 14 is nearest the corner in the first copy, in the row below the    *)
(* lower left finder's top in the second.                                  *)
CornerFormat(size) ==
    <<<<0,8>>, <<1,8>>, <<2,8>>, <<3,8>>, <<4,8>>, <<5,8>>, <<7,8>>, <<8,8>>,
      <<8,7>>, <<8,5>>, <<8,4>>, <<8,3>>, <<8,2>>, <<8,1>>, <<8,0>>>>
SplitFormat(size) ==
    [k \in 1 .. 15 |-> IF k <= 7 THEN <<8, size - k>> ELSE <<size - 16 + k, 8>>]

ReadMask(s) ==
    {m \in 0 .. 7 : \A k \in 1 .. 15 :
        /\ (CornerFormat(s.size)[k] \in s.dark) = (ListedFormat[m + 1][k] = 1)
        /\ (SplitFormat(s.size)[k] \in s.dark) = (ListedFormat[m + 1][k] = 1)}

(* The modules that hold no codeword. *)
Reserved(size, x, y) ==
    \/ x = 6 \/ y = 6
    \/ x <= 8 /\ y <= 8
    \/ x >= size - 8 /\ y <= 8
    \/ x <= 8 /\ y >= size - 8
    \/ size > 21 /\ x \in size - 9 .. size - 5 /\ y \in size - 9 .. size - 5

(* The patterns a scanner looks for: three finders, timing between them.   *)
LocatedBy(s) ==
    /\ \A x, y \in 0 .. 7 :
          LET dark == x < 7 /\ y < 7 /\ (x \in {0, 6} \/ y \in {0, 6} \/ {x, y} \subseteq 2 .. 4)
          IN \A c \in {<<x, y>>, <<s.size - 1 - x, y>>, <<x, s.size - 1 - y>>} : (c \in s.dark) = dark
    /\ \A i \in 8 .. s.size - 9 : /\ (<<i, 6>> \in s.dark) = (i % 2 = 0)
                                  /\ (<<6, i>> \in s.dark) = (i % 2 = 0)
    /\ s.size > 21 => \A x, y \in - 2 .. 2 :
          (<<s.size - 7 + x, s.size - 7 + y>> \in s.dark) =
              (x \in {-2, 2} \/ y \in {-2, 2} \/ {x, y} = {0})

(* Codewords in the order they are read: pairs of columns from the right,  *)
(* the first upwards, then by turns, leaving out column 6.                 *)
ReadOrder(size) ==
    LET column(p, side) == LET x == size - 1 - 2 * p - side
                           IN IF size - 1 - 2 * p > 6 THEN x ELSE x - 1
        row(p, r) == IF p % 2 = 0 THEN size - 1 - r ELSE r
    IN SelectSeq([t \in 1 .. size * (size - 1) |->
                     LET p == (t - 1) \div (2 * size)
                         r == ((t - 1) \div 2) % size
                     IN <<column(p, (t - 1) % 2), row(p, r)>>],
                 LAMBDA c : ~ Reserved(size, c[1], c[2]))

ReadCodewords(s, mask) ==
    LET order == ReadOrder(s.size)
        one(k) == (order[k] \in s.dark) # mask_bit(mask, order[k][1], order[k][2])
    IN [i \in 1 .. Len(order) \div 8 |-> {b \in 0 .. 7 : one(8 * i - b)}]

(* The powers of the field's generator, and what a byte times one is. *)
Power == LET power[i \in 0 .. 60] == IF i = 0 THEN {0} ELSE Doubled(power[i - 1]) IN power
TimesPower(z, s) ==
    {b \in 0 .. 7 : Cardinality({k \in z : b \in Power[k + s]}) % 2 = 1}

(* A block without errors is zero at every root of the generator. *)
NoErrors(block, corrections) ==
    \A s \in 0 .. corrections - 1 :
        LET value[i \in 0 .. Len(block)] ==
                IF i = 0 THEN {} ELSE SymDiff(TimesPower(value[i - 1], s), block[i])
        IN value[Len(block)] = {}

(* The text in what was read: each block checked, the data of the blocks   *)
(* one after the other, a mode, a length, and that many bytes.             *)
ReadsBack(s, text) ==
    LET v == (s.size - 17) \div 4
        read == ReadCodewords(s, CHOOSE m \in ReadMask(s) : TRUE)
        each == Len(read) \div s_blocks[v]
        block == [b \in 0 .. s_blocks[v] - 1 |-> [i \in 1 .. each |-> read[(i - 1) * s_blocks[v] + b + 1]]]
        data == each - s_ecc_cw[v]
        bit(k) == 7 - (k % 8) \in block[(k \div 8) \div data][((k \div 8) % data) + 1]
    IN /\ \A b \in DOMAIN block : NoErrors(block[b], s_ecc_cw[v])
       /\ \A k \in 0 .. 3 : bit(k) = (k = 1)
       /\ Len(text) = MapThenSumSet(LAMBDA k : 2 ^ k, {k \in 0 .. 7 : bit(11 - k)})
       /\ \A i \in DOMAIN text : \A b \in 0 .. 7 : bit(11 + 8 * i - b) = (b \in text[i])

(* A mode, a length and the text leave out two data codewords. *)
SmallestFor(n) == Min({v \in Versions6 : s_data_cw[v] >= n + 2})

(* Finder-like patterns by position: dark and light modules in the ratio   *)
(* 1:1:3:1:1 with a light module's worth on either side and four on one.   *)
FinderLike(row) ==
    LET size == Len(row)
        dark(i) == i \in DOMAIN row /\ row[i]
        light(from, n) == \A i \in from .. from + n - 1 : ~ dark(i)
        solid(from, n) == \A i \in from .. from + n - 1 : dark(i)
        at == {c \in (DOMAIN row) \X (1 .. size \div 7) :
                  LET p == c[1]
                      n == c[2]
                  IN /\ solid(p, n) /\ light(p + n, n) /\ solid(p + 2 * n, 3 * n)
                     /\ light(p + 5 * n, n) /\ solid(p + 6 * n, n)
                     /\ light(p - n, n) /\ light(p + 7 * n, n)}
    IN Cardinality({c \in at : light(c[1] - 4 * c[2], 4 * c[2])})
       + Cardinality({c \in at : light(c[1] + 7 * c[2], 4 * c[2])})

(* Runs by position: three for five modules of a kind, one for each more.  *)
RunScore(row) ==
    LET same(from, n) == \A i \in from .. from + n - 1 : i \in DOMAIN row /\ row[i] = row[from]
        starts == {i \in DOMAIN row : i = 1 \/ row[i - 1] # row[i]}
        length(i) == Max({n \in 1 .. Len(row) : same(i, n)})
    IN MapThenSumSet(LAMBDA i : IF length(i) >= 5 THEN length(i) - 2 ELSE 0, starts)

------------------------------------------------------------------------------
(* Properties *)

(* Every text of up to 134 bytes is drawn, in the smallest symbol with     *)
(* room for it, and only a longer one is refused (qr_code.c:341-353).      *)
SmallestDrawn ==
    symbol # NotEncoded /\ payload # NoText =>
        /\ symbol = TooLongToDraw <=> Len(payload) > 134
        /\ symbol # TooLongToDraw => symbol.size = Side(SmallestFor(Len(payload)))

(* A scanner that reads nothing but the modules finds the patterns, one    *)
(* mask in both copies of the format, blocks without an error, and the     *)
(* text (qr_code.c:341-388, the symbols that "let a phone join the         *)
(* PocketWiki access point", tests/test_qr_code.py:3-4).                   *)
SymbolReadsBack ==
    payload # NoText /\ symbol \notin {NotEncoded, TooLongToDraw} =>
        /\ LocatedBy(symbol)
        /\ Cardinality(ReadMask(symbol)) = 1
        /\ ReadsBack(symbol, payload)

(* The scores the masks are compared by count each run and each            *)
(* finder-like pattern of a row once, at its ends too, although the rows   *)
(* are walked once with seven runs in hand (qr_code.c:246-308).            *)
RowsScoredByPosition == LinePenalty(line) = RunScore(line) + 40 * FinderLike(line)

QrIsRight == SmallestDrawn /\ SymbolReadsBack /\ RowsScoredByPosition
==============================================================================
