------------------------------ MODULE TreeFile ------------------------------
(***************************************************************************)
(* The tree files between the stages: savenode writes a tree as nested     *)
(* parentheses, read_node (source/frontend/load_expression.cpp) rebuilds   *)
(* one.  A file is a sequence of lexemes with their widths; only a string  *)
(* that the reader cannot take back is written out character by character, *)
(* because the reader then skips as many characters as it has read.        *)
(***************************************************************************)
EXTENDS Tree, TLC, FiniteSets

Lexeme(l, w) == [lex |-> l, width |-> w, node |-> Nil]
Word(node, w) == [lex |-> "word", width |-> w, node |-> node]

Open  == Lexeme("open", 1)
Close == Lexeme("close", 1)
Blank == Lexeme("blank", 1)
Null  == Lexeme("nil", 3)
Char  == Lexeme("char", 1)

(* The characters that end a token: what isspace knows, and parentheses.   *)
Breaks == [c \in 9..13 \union {32, 40, 41} |-> IF c = 40 THEN Open ELSE IF c = 41 THEN Close ELSE Blank]

(* %g keeps six digits; a tie goes to the even one.  BOUND: on numbers, of
   at most ten digits.                                                     *)
SixDigits(n) ==
  LET k == IF n < 10^7 THEN 10 ELSE IF n < 10^8 THEN 100 ELSE IF n < 10^9 THEN 1000 ELSE 10000
      q == n \div k
      r == 2 * (n % k)
  IN  IF n < 10^6 THEN n ELSE k * IF r > k \/ (r = k /\ q % 2 = 1) THEN q + 1 ELSE q

-----------------------------------------------------------------------------
(* The digits of a number in six digits, and of one with an exponent.      *)
Numeral(n) ==
  IF n < 10^6 THEN ToString(n)
  ELSE LET e == CHOOSE e \in 0..9 : n % 10^e = 0 /\ (e < 9 => n % 10^(e + 1) # 0)
           m == ToString(n \div 10^e)
       IN  m \o (IF Len(m) = 1 THEN "" ELSE ".") \o "e+00"

(* savenode: the characters of the node itself.                            *)
TextOf(node) ==
  CASE node.kind = "NUMBER"     -> Numeral(SixDigits(node.num))
    [] node.kind = "IDENTIFIER" -> node.name \o "##" \o ToString(node.idx)
    [] IsStatement(node, "func_def") \/ IsStatement(node, "func_call") -> node.what \o "##" \o node.name
    [] OTHER -> node.what

(* What these characters tell of the node.                                 *)
Told(node) == [Over(node, Nil, Nil) EXCEPT !.num = SixDigits(@),
                 !.idx = IF node.kind = "IDENTIFIER" THEN @ ELSE 0]

Own(node) ==
  IF node.kind # "STRING" THEN <<Word(Told(node), Len(TextOf(node)))>>
  ELSE IF \A i \in 1..Len(node.chars) : node.chars[i] \notin DOMAIN Breaks
         THEN <<Word(Told(node), Len(node.chars) + 2)>>
  ELSE <<Char>> \o [i \in 1..Len(node.chars) |->
                      IF node.chars[i] \in DOMAIN Breaks THEN Breaks[node.chars[i]] ELSE Char]
                \o <<Char>>

(* Seeded fault: a child on the right is preceded by the missing left one. *)
FaultSave(tree) ==
  LET saved[node \in Trees[MaxHeight]] ==
        IF node = Nil THEN <<Blank, Null>>
        ELSE <<Open>> \o Own(node) \o saved[node.left] \o saved[node.right] \o <<Close>>
  IN  saved[tree]

(* A single child is written alone, whichever side it stands on.           *)
Children(node, left, right) ==
  IF node.left = Nil /\ node.right = Nil THEN <<Blank, Null, Blank, Null>> ELSE left \o right

Save(tree) ==
  LET savenode[node \in Trees[MaxHeight]] ==
        IF node = Nil THEN << >>
        ELSE <<Open>> \o Own(node) \o Children(node, savenode[node.left], savenode[node.right]) \o <<Close>>
  IN  savenode[tree]

-----------------------------------------------------------------------------
(* define_token_type: statements and operators are tried first, so that an *)
(* identifier by the name of func_call becomes a call of what its index    *)
(* spells.                                                                 *)
Classify(node) ==
  CASE node.kind = "IDENTIFIER" /\ node.name \in {"func_call", "func_def"} ->
         Named(node.name, ToString(node.idx), Nil, Nil)
    [] node.kind = "IDENTIFIER" /\ node.idx < 0 -> Nil
    [] OTHER -> node

AtLexeme(f, p, l) == p <= Len(f) /\ f[p].lex = l

(* The next position of no blank, or the end.                              *)
SkipBlanks(f, p) ==
  CHOOSE q \in p..Len(f) + 1 : ~ AtLexeme(f, q, "blank") /\ \A k \in p..q - 1 : AtLexeme(f, k, "blank")

(* get_token stops at the next blank or parenthesis.                       *)
Ends(f, p) == p > Len(f) \/ f[p].lex \in {"blank", "open", "close"}
SkipToken(f, p) ==
  CHOOSE q \in p..Len(f) + 1 : Ends(f, q) /\ \A k \in p..q - 1 : ~ Ends(f, k)

WidthOf(f, p, q) ==
  LET sum[i \in p..q] == IF i = p THEN 0 ELSE sum[i - 1] + f[i - 1].width IN sum[q]

(* n characters on; inside of a word nothing is recognised any more, which
   is where the file might as well end.                                    *)
SkipChars(f, p, n) ==
  IF \E q \in p..Len(f) + 1 : WidthOf(f, p, q) = n
    THEN CHOOSE q \in p..Len(f) + 1 : WidthOf(f, p, q) = n
    ELSE Len(f) + 1

(* What reads one child only.                                              *)
ReadsOneChild(node) == IsUnary(node)

(* read_node: the node at p and the position behind it; read holds what    *)
(* its calls of itself return, by the position they start at.              *)
Found(node, pos) == [node |-> node, pos |-> pos]

Token(f, t) == IF SkipToken(f, t) = t + 1 /\ f[t].lex = "word" THEN Classify(f[t].node) ELSE Nil

Behind(f, node, l, r) ==
  LET c == SkipBlanks(f, r.pos)
  IN  Found(Over(node, l.node, r.node), IF AtLexeme(f, c, "close") THEN c + 1 ELSE c)

ReadChildren(f, read, node, p) ==
  LET l == read[p]
  IN  Behind(f, node, l, IF ReadsOneChild(node) THEN Found(Nil, l.pos) ELSE read[l.pos])

ReadToken(f, read, t) ==
  LET e == SkipToken(f, t)
  IN  IF Token(f, t) = Nil THEN Found(Nil, SkipChars(f, e, WidthOf(f, t, e)))
      ELSE ReadChildren(f, read, Token(f, t), e)

read_node(f, read, p) ==
  LET q == SkipBlanks(f, p)
  IN  IF AtLexeme(f, q, "nil") THEN Found(Nil, q + 1)
      ELSE IF ~ AtLexeme(f, q, "open") THEN Found(Nil, q)
      ELSE ReadToken(f, read, SkipBlanks(f, q + 1))

Reader(f) == LET read[p \in 1..Len(f) + 1] == read_node(f, read, p) IN read

(* optimizer_ctor: a file without a tree is an error, here Nil.            *)
Load(f) == Reader(f)[1].node

-----------------------------------------------------------------------------
(* What the reader can tell apart from everything else it may read.        *)
Readable(node) ==
  /\ node.kind = "IDENTIFIER" => node.name \notin {"func_call", "func_def"} /\ node.idx >= 0
  /\ \A i \in 1..Len(node.chars) : node.chars[i] \notin DOMAIN Breaks
  /\ IsUnary(node) => (node.left = Nil <=> node.right # Nil)

AllReadable(tree) ==
  LET readable[node \in Trees[MaxHeight]] ==
        IF node = Nil THEN TRUE ELSE Readable(node) /\ readable[node.left] /\ readable[node.right]
  IN  readable[tree]

(* A tree with each single child on the left, numbers in six digits and    *)
(* without the indices of functions.                                       *)
Shortened(node) ==
  [node EXCEPT !.num = SixDigits(@), !.idx = IF node.kind = "IDENTIFIER" THEN @ ELSE 0]

LeftFirst(tree) ==
  LET moved[node \in Trees[MaxHeight]] ==
        IF node = Nil THEN Nil
        ELSE IF node.left = Nil THEN Over(Shortened(node), moved[node.right], Nil)
        ELSE Over(Shortened(node), moved[node.left], moved[node.right])
  IN  moved[tree]
=============================================================================
