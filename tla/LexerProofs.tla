---------------------------- MODULE LexerProofs ----------------------------
(***************************************************************************)
(* Proofs that the lexer stays in its text and in its list, releases what  *)
(* it has allocated and reads the text by maximal munch, for every text.   *)
(***************************************************************************)
EXTENDS Lexemes, Induction

Cells(block, n) == block \in [0..n - 1 -> Tokens \union {Undef}] \/ block = NoBlock

(* The strings that are allocated are those of the tokens in the list and
   of tokens that were dropped.                                            *)
StringsCounted ==
  /\ data # NoBlock => strings >= count
  /\ pc \in {"start", "loop", "discard"} =>
       /\ data = NoBlock => capacity = 0
       /\ ~starved => strings = count
  /\ pc = "return" /\ ~starved => IF FreedByLexer THEN data = NoBlock /\ strings = 0
                                  ELSE strings = count /\ (data = NoBlock => count = 0)

(* Which errors can be met where, and what they have left of the buffer.   *)
ErrorsHere ==
  /\ pc = "start" => buffer = "none" /\ error = "SUCCESS" /\ count = 0
  /\ pc = "loop" => error = "SUCCESS" /\ buffer = "live"
  /\ pc = "discard" /\ ~starved => FreedByLexer
  /\ pc = "return" => buffer # "live" /\ (FreedByLexer => buffer = "freed")

IInv == TypeOK /\ ListHolds /\ StaysInText /\ Released /\ StringsCounted /\ ErrorsHere

-----------------------------------------------------------------------------
(* What the pointer is advanced over ends, at the end of the text at last. *)
LEMMA PastIsThere ==
  ASSUME NEW class, text \in Seq(STRING), NEW i \in 1..Len(text) + 1
  PROVE  LET j == Past(class, i) IN
         /\ j \in i..Len(text) + 1
         /\ \A k \in i..j - 1 : text[k] \in class
         /\ j = Len(text) + 1 \/ text[j] \notin class
<1> DEFINE Stops == {j \in i..Len(text) + 1 : j = Len(text) + 1 \/ text[j] \notin class}
<1>1. Stops \subseteq Nat /\ Len(text) + 1 \in Stops
  OBVIOUS
<1>2. PICK j \in Stops : \A k \in Stops : j <= k
  BY <1>1, LeastElement
<1>3. \A k \in i..j - 1 : text[k] \in class
  <2> SUFFICES ASSUME NEW k \in i..j - 1, text[k] \notin class PROVE FALSE
    OBVIOUS
  <2>1. k \in Stops
    OBVIOUS
  <2> QED BY <1>2, <2>1
<1> QED BY <1>2, <1>3 DEF Past

(* What is taken of the text is a sequence of its characters.              *)
LEMMA CharsAreStrings ==
  ASSUME text \in Seq(STRING), NEW i \in Nat \ {0}, NEW j \in i..Len(text) + 1
  PROVE  Chars(i, j) \in Seq(STRING)
<1>1. j - i \in Nat
  OBVIOUS
<1>2. \A k \in 1..(j - i) : i + k - 1 \in 1..Len(text)
  OBVIOUS
<1>3. \A k \in 1..(j - i) : At(i + k - 1) \in STRING
  BY <1>2 DEF At
<1>4. Chars(i, j) \in [1..(j - i) -> STRING]
  BY <1>3 DEF Chars
<1> QED BY <1>1, <1>4

(* A character that is not the zero lies in the text.                      *)
LEMMA CharsInside ==
  ASSUME text \in Seq(STRING), NEW i \in Nat, At(i) # Zero
  PROVE  i \in 1..Len(text)
  BY DEF At

LEMMA SignsAreNotZero ==
  /\ Quote # Zero /\ Bang # Zero /\ "u" # Zero /\ "-" # Zero /\ "=" # Zero
  /\ Zero \notin Singles /\ Zero \notin Pairs
  BY DEF Quote, Bang, Zero, Singles, Pairs

-----------------------------------------------------------------------------
(* A block with cells is there.                                            *)
LEMMA BlockIsThere ==
  ASSUME NEW f, NEW S, NEW n \in Nat, n > 0, f \in [0..n - 1 -> S]
  PROVE  f # NoBlock
<1>1. 0 \in DOMAIN f
  OBVIOUS
<1>2. DOMAIN NoBlock = {}
  BY DEF NoBlock
<1> QED BY <1>1, <1>2

LEMMA GrownKeepsCells ==
  ASSUME NEW block, NEW n \in Nat, count \in Nat, count < n, \A i \in 0..count - 1 : block[i] \in Tokens
  PROVE  /\ Grown(block, n) \in [0..n - 1 -> Tokens \union {Undef}]
         /\ \A i \in 0..count - 1 : Grown(block, n)[i] \in Tokens
<1>1. \A i \in 0..n - 1 : (IF i < count THEN block[i] ELSE Undef) \in Tokens \union {Undef}
  <2> SUFFICES ASSUME NEW i \in 0..n - 1 PROVE (IF i < count THEN block[i] ELSE Undef) \in Tokens \union {Undef}
    OBVIOUS
  <2>1. CASE i < count
    <3>1. i \in 0..count - 1
      BY <2>1
    <3> QED BY <2>1, <3>1
  <2> QED BY <2>1
<1>2. \A i \in 0..count - 1 : Grown(block, n)[i] = block[i]
  BY DEF Grown
<1>3. Grown(block, n) \in [0..n - 1 -> Tokens \union {Undef}]
  BY <1>1 DEF Grown
<1> QED BY <1>2, <1>3

(* Pushing a token keeps the list what it is, whatever comes next.         *)
ListAfter ==
  /\ Cells(data', capacity') /\ capacity' \in Nat /\ count' \in Nat /\ strings' \in Nat
  /\ count' <= capacity' /\ strings' >= count'
  /\ data' # NoBlock => \A i \in 0..count' - 1 : data'[i] \in Tokens
  /\ data' = NoBlock => count' = 0 /\ capacity' = 0

Pushed(next) ==
  /\ ListAfter
  /\ starved' \in BOOLEAN /\ (starved => starved')
  /\ pc' = next \/ (pc' = "crashed" /\ starved')
  /\ ~starved' => strings' = count'

LEMMA PushKeepsList ==
  ASSUME TypeOK, ListHolds, StringsCounted, pc = "loop", NEW token \in Tokens, NEW next, Push(token, next)
  PROVE  Pushed(next)
<1>0. /\ Cells(data, capacity) /\ capacity \in Nat /\ count \in Nat /\ strings \in Nat
      /\ count <= capacity /\ strings >= count
      /\ data # NoBlock => \A i \in 0..count - 1 : data[i] \in Tokens
      /\ data = NoBlock => count = 0 /\ capacity = 0
  BY DEF TypeOK, ListHolds, StringsCounted, Cells
<1>b. starved \in BOOLEAN /\ (~starved => strings = count)
  BY DEF TypeOK, StringsCounted
<1>c. \A i \in 0..count - 1 : data[i] \in Tokens
  BY <1>0
<1>1. CASE PushInPlace(token) /\ strings' = strings + 1 /\ pc' = next
  <2>1. capacity > 0 /\ count < capacity /\ capacity' = capacity /\ count' = count + 1
    BY <1>0, <1>1 DEF PushInPlace
  <2>2. data \in [0..capacity - 1 -> Tokens \union {Undef}]
    BY <1>0, <2>1 DEF Cells
  <2>3. data' = [data EXCEPT ![count] = token]
    BY <1>1 DEF PushInPlace
  <2>4. data' \in [0..capacity - 1 -> Tokens \union {Undef}]
    BY <2>2, <2>3
  <2>5. data' # NoBlock
    BY <2>1, <2>4, <1>0, BlockIsThere
  <2>6. \A i \in 0..count : data'[i] \in Tokens
    BY <1>0, <1>c, <2>1, <2>2, <2>3
  <2>7. \A i \in 0..count' - 1 : data'[i] \in Tokens
    BY <1>0, <2>1, <2>6
  <2>8. ListAfter
    BY <1>0, <1>1, <2>1, <2>4, <2>5, <2>7 DEF ListAfter, Cells
  <2>9. starved' = starved /\ strings' = strings + 1 /\ count' = count + 1
    BY <1>1 DEF PushInPlace
  <2> QED BY <1>1, <1>b, <2>8, <2>9 DEF Pushed
<1>2. CASE PushGrowing(token) /\ strings' = strings + 1 /\ pc' = next
  <2>1. capacity' \in Nat /\ capacity' > count /\ capacity' > 0 /\ count' = count + 1
    BY <1>0, <1>2 DEF PushGrowing, NewCapacity
  <2>2. data' = [Grown(data, capacity') EXCEPT ![count] = token]
    BY <1>2 DEF PushGrowing
  <2> DEFINE n == capacity'
             old == Grown(data, n)
  <2>i. n \in Nat /\ n > 0 /\ count < n
    BY <1>0, <2>1
  <2>3. old \in [0..n - 1 -> Tokens \union {Undef}] /\ \A i \in 0..count - 1 : old[i] \in Tokens
    <3> HIDE DEF n
    <3> QED BY <1>0, <1>c, <2>i, GrownKeepsCells
  <2>4. data' \in [0..capacity' - 1 -> Tokens \union {Undef}]
    BY <2>2, <2>3
  <2>5. data' # NoBlock
    <3>1. data' \in [0..n - 1 -> Tokens \union {Undef}]
      BY <2>4
    <3> HIDE DEF n
    <3> QED BY <2>i, <3>1, BlockIsThere
  <2>6. \A i \in 0..count : data'[i] \in Tokens
    <3>1. data' = [old EXCEPT ![count] = token]
      BY <2>2
    <3> HIDE DEF n, old
    <3> QED BY <1>0, <2>i, <2>3, <3>1
  <2>7. \A i \in 0..count' - 1 : data'[i] \in Tokens
    BY <1>0, <2>1, <2>6
  <2>8. ListAfter
    <3>1. strings' >= count' /\ strings' \in Nat /\ count' \in Nat /\ count' <= capacity'
      BY <1>0, <1>2, <2>1
    <3> QED BY <2>1, <2>4, <2>5, <2>7, <3>1 DEF ListAfter, Cells
  <2>9. starved' = starved /\ strings' = strings + 1 /\ count' = count + 1
    BY <1>2 DEF PushGrowing
  <2> QED BY <1>2, <1>b, <2>8, <2>9 DEF Pushed
<1>3. CASE PushDropped /\ strings' = strings + 1 /\ pc' = next
  <2>1. ListAfter
    BY <1>0, <1>3 DEF PushDropped, ListAfter, Cells
  <2> QED BY <1>3, <2>1 DEF PushDropped, Pushed
<1>4. CASE starved' = TRUE /\ pc' = "crashed" /\ UNCHANGED listVars
  <2>1. ListAfter
    BY <1>0, <1>4 DEF listVars, ListAfter, Cells
  <2> QED BY <1>4, <2>1 DEF Pushed
<1> QED BY <1>1, <1>2, <1>3, <1>4 DEF Push

-----------------------------------------------------------------------------
(* A push from the loop leads to a state of the invariant, in each of the
   ways the lexer goes on.                                                 *)
GoesOn(next) ==
  \/ next = "loop" /\ UNCHANGED <<buffer, error>>
  \/ next = "discard" /\ buffer' = buffer /\ error' = "FORGOTTEN_QUATATION_MARK"
  \/ next = "return" /\ error' = error /\ buffer' = IF pc' = "return" THEN "freed" ELSE buffer

PointerStays ==
  /\ p' \in 1..Len(text) + 2
  /\ p' = Len(text) + 2 => text[Len(text)] \in Blanks

LEMMA PushKeepsInvariant ==
  ASSUME IInv, pc = "loop", NEW next, Pushed(next), GoesOn(next), PointerStays, text' = text
  PROVE  IInv'
<1>1. error = "SUCCESS" /\ buffer = "live"
  BY DEF IInv, ErrorsHere
<1>2. pc' \in {"loop", "discard", "return", "crashed"} /\ error' \in {"SUCCESS", "FORGOTTEN_QUATATION_MARK"}
  BY <1>1 DEF Pushed, GoesOn
<1>3. pc' = "crashed" => starved'
  BY DEF Pushed, GoesOn
<1>4. TypeOK'
  <2>1. buffer' \in {"none", "live", "freed"} /\ error' \in Errors
    BY <1>1, <1>2 DEF GoesOn, Errors
  <2>2. data' \in [0..capacity' - 1 -> Tokens \union {Undef}] \union {NoBlock}
    BY DEF Pushed, ListAfter, Cells
  <2> QED BY <1>2, <2>1, <2>2 DEF IInv, TypeOK, Pushed, ListAfter, PointerStays
<1>5. ListHolds'
  BY DEF Pushed, ListAfter, ListHolds
<1>6. StaysInText'
  <2>1. pc' # "wild" /\ (p' > Len(text) + 1 => p' = Len(text) + 2)
    BY <1>2 DEF PointerStays, IInv, TypeOK
  <2> QED BY <2>1 DEF StaysInText, PointerStays
<1>7. FreedByLexer' => error' = "FORGOTTEN_QUATATION_MARK" /\ pc' \in {"discard", "crashed"}
  BY <1>1, <1>2 DEF FreedByLexer, GoesOn, Pushed
<1>8. Released'
  BY <1>2, <1>3 DEF Released
<1>9. StringsCounted'
  BY <1>7 DEF StringsCounted, Pushed, ListAfter
<1>10. ErrorsHere'
  BY <1>1, <1>2, <1>7 DEF ErrorsHere, GoesOn, Pushed, FreedByLexer
<1> QED BY <1>4, <1>5, <1>6, <1>8, <1>9, <1>10 DEF IInv

LEMMA TurnKeepsInvariant ==
  ASSUME IInv, pc = "loop", text \in Seq(STRING), NEW type \in Kinds,
         NEW q \in Nat \ {0}, NEW r \in q..Len(text) + 1, Turn(type, q, r)
  PROVE  IInv'
<1>1. Token(type, Chars(q, r)) \in Tokens
  BY CharsAreStrings DEF Token, Tokens
<1>2. Pushed("loop")
  BY <1>1, PushKeepsList DEF Turn, IInv
<1>3. PointerStays /\ GoesOn("loop") /\ text' = text
  BY DEF PointerStays, GoesOn, Turn
<1> QED BY <1>2, <1>3, PushKeepsInvariant

(* A step that leaves the list alone, still in front of the parser.        *)
LEMMA ListAloneKeepsInvariant ==
  ASSUME IInv, UNCHANGED <<text, listVars>>, PointerStays, ErrorsHere', error' \in Errors,
         buffer' \in {"none", "live", "freed"}, starved' \in BOOLEAN, starved => starved',
         pc \in {"start", "loop"}, pc' \in {"loop", "discard", "return"},
         pc' = "return" => ~FreedByLexer'
  PROVE  IInv'
<1>1. TypeOK'
  BY DEF IInv, TypeOK, listVars, PointerStays
<1>2. ListHolds'
  BY DEF IInv, ListHolds, listVars
<1>3. StaysInText'
  <2>1. pc' # "wild" /\ (p' > Len(text) + 1 => p' = Len(text) + 2)
    BY DEF PointerStays, IInv, TypeOK
  <2> QED BY <2>1 DEF StaysInText, PointerStays
<1>4. Released'
  BY DEF Released
<1>5. StringsCounted'
  BY DEF IInv, StringsCounted, ListHolds, listVars
<1> QED BY <1>1, <1>2, <1>3, <1>4, <1>5 DEF IInv

-----------------------------------------------------------------------------
LEMMA InitHolds == Init => IInv
<1> SUFFICES ASSUME Init PROVE IInv
  OBVIOUS
<1>1. text \in Seq(STRING)
  BY TextAssumption DEF Init
<1>2. TypeOK
  <2>1. data \in [0..capacity - 1 -> Tokens \union {Undef}] \union {NoBlock}
    BY DEF Init
  <2>2. p \in 1..Len(text) + 2
    BY <1>1 DEF Init
  <2>3. count \in Nat /\ capacity \in Nat /\ strings \in Nat /\ starved \in BOOLEAN /\ error \in Errors
    BY DEF Init, Errors
  <2>4. text \in Texts /\ pc = "start" /\ buffer = "none"
    BY DEF Init
  <2> QED BY <2>1, <2>2, <2>3, <2>4 DEF TypeOK
<1>3. ListHolds /\ Released /\ StringsCounted /\ ErrorsHere
  BY DEF Init, ListHolds, Released, StringsCounted, ErrorsHere, FreedByLexer
<1>4. StaysInText
  BY <1>1 DEF Init, StaysInText
<1> QED BY <1>2, <1>3, <1>4 DEF IInv

(* A turn of the loop: the pointer first steps over blanks.                *)
LEMMA LexKeepsInvariant ==
  ASSUME IInv, Lex
  PROVE  IInv'
<1> DEFINE q == Past(Blanks, p)
<1>1. text \in Seq(STRING) /\ pc = "loop" /\ p \in 1..Len(text) + 1 /\ Len(text) \in Nat
  BY TextAssumption DEF IInv, TypeOK, Lex
<1>2. /\ q \in p..Len(text) + 1
      /\ \A k \in p..q - 1 : text[k] \in Blanks
  BY <1>1, PastIsThere
<1>3. UnaryMinus(q) \/ Word(q) \/ Number(q) \/ String(q) \/ StringUnclosed(q)
      \/ Symbol(q) \/ LoneBang(q) \/ Unknown(q) \/ TrailingBlanks(q)
  BY DEF Lex
<1>4. q \in Nat \ {0} /\ q <= Len(text) + 1 /\ p <= q
  BY <1>1, <1>2
<1>p. p <= Len(text)
  BY DEF Lex
<1> HIDE DEF q
<1>h. error = "SUCCESS" /\ buffer = "live" /\ starved \in BOOLEAN
  BY <1>1 DEF IInv, ErrorsHere, TypeOK
<1>5. CASE UnaryMinus(q)
  <2>1. At(q) # Zero /\ At(q + 1) # Zero
    BY <1>5, SignsAreNotZero DEF UnaryMinus, IsUnaryMinus
  <2>2. q + 2 \in q..Len(text) + 1
    BY <1>1, <1>4, <2>1, CharsInside
  <2> QED BY <1>1, <1>4, <1>5, <2>2, TurnKeepsInvariant DEF UnaryMinus, Kinds
<1>6. CASE Word(q)
  <2> DEFINE r == Past(Letters \union Digits, q)
  <2>1. r \in q..Len(text) + 1
    BY <1>1, <1>4, PastIsThere
  <2>2. CASE Turn(IF Chars(q, r) \in Keywords THEN "KEYWORD" ELSE "IDENTIFIER", q, r)
    <3> DEFINE type == IF Chars(q, r) \in Keywords THEN "KEYWORD" ELSE "IDENTIFIER"
    <3>1. type \in Kinds
      BY DEF Kinds
    <3>2. Turn(type, q, r)
      BY <2>2
    <3> HIDE DEF type, r
    <3> QED BY <1>1, <1>4, <2>1, <3>1, <3>2, TurnKeepsInvariant
  <2>3. CASE /\ pc' = "discard" /\ error' = "MEMORY_ALLOCATION_ERROR" /\ starved' = TRUE
             /\ p' = r
             /\ UNCHANGED <<text, buffer, listVars>>
    <3>1. PointerStays
      BY <1>1, <1>4, <2>1, <2>3 DEF PointerStays
    <3>2. ErrorsHere'
      BY <2>3 DEF ErrorsHere
    <3> QED BY <1>1, <1>h, <2>3, <3>1, <3>2, ListAloneKeepsInvariant DEF Errors
  <2> QED BY <1>6, <2>2, <2>3 DEF Word
<1>7. CASE Number(q)
  <2>1. Past(Digits, q) \in q..Len(text) + 1
    BY <1>1, <1>4, PastIsThere
  <2> QED BY <1>1, <1>4, <1>7, <2>1, TurnKeepsInvariant DEF Number, Kinds
<1>q. ASSUME At(q) = Quote
      PROVE  /\ q \in 1..Len(text) /\ StringInside(q) \in q + 1..Len(text) + 1
             /\ Chars(q + 1, StringInside(q)) \in Seq(STRING)
  <2>1. q \in 1..Len(text)
    BY <1>1, <1>4, <1>q, CharsInside, SignsAreNotZero
  <2>2. StringInside(q) \in q + 1..Len(text) + 1
    BY <1>1, <2>1, PastIsThere DEF StringInside
  <2>3. q + 1 \in Nat \ {0}
    BY <2>1
  <2> QED BY <1>1, <2>1, <2>2, <2>3, CharsAreStrings
<1>8. CASE String(q)
  <2>1. At(StringInside(q)) # Zero /\ At(q) = Quote
    BY <1>8, SignsAreNotZero DEF String
  <2>2. StringInside(q) \in 1..Len(text)
    BY <1>1, <1>q, <2>1, CharsInside
  <2>3. Token("STRING", Chars(q + 1, StringInside(q))) \in Tokens
    BY <1>q, <2>1 DEF Token, Tokens, Kinds
  <2>4. Pushed("loop")
    BY <1>1, <1>8, <2>3, PushKeepsList DEF String, IInv
  <2>5. PointerStays /\ GoesOn("loop") /\ text' = text
    BY <1>1, <1>8, <2>2 DEF PointerStays, GoesOn, String
  <2> QED BY <1>1, <2>4, <2>5, PushKeepsInvariant
<1>9. CASE StringUnclosed(q)
  <2>1. At(q) = Quote
    BY <1>9 DEF StringUnclosed
  <2>2. Token("STRING", Chars(q + 1, StringInside(q))) \in Tokens
    BY <1>q, <2>1 DEF Token, Tokens, Kinds
  <2>3. Pushed("discard")
    BY <1>1, <1>9, <2>2, PushKeepsList DEF StringUnclosed, IInv
  <2>4. PointerStays /\ GoesOn("discard") /\ text' = text
    BY <1>1, <1>9, <1>q, <2>1 DEF PointerStays, GoesOn, StringUnclosed
  <2> QED BY <1>1, <2>3, <2>4, PushKeepsInvariant
<1>10. CASE Symbol(q)
  <2>1. At(q) # Zero
    BY <1>10, SignsAreNotZero DEF Symbol
  <2>2. q + 1 \in q..Len(text) + 1 /\ q + 1 \in Nat
    BY <1>1, <1>4, <2>1, CharsInside
  <2>3. CASE Turn("SYMBOL", q, q + 1)
    BY <1>1, <1>4, <2>2, <2>3, TurnKeepsInvariant DEF Kinds
  <2>4. CASE At(q + 1) = "=" /\ Turn("SYMBOL", q, q + 2)
    <3>1. q + 2 \in q..Len(text) + 1
      BY <1>1, <1>4, <2>2, <2>4, CharsInside, SignsAreNotZero
    <3> QED BY <1>1, <1>4, <2>4, <3>1, TurnKeepsInvariant DEF Kinds
  <2> QED BY <1>10, <2>3, <2>4 DEF Symbol
<1>11. CASE LoneBang(q)
  <2>1. PointerStays
    BY <1>1, <1>4, <1>11 DEF PointerStays, LoneBang
  <2>2. At(p)' = Bang
    BY <1>11 DEF LoneBang, At
  <2>3. ErrorsHere'
    BY <1>11, <2>2 DEF ErrorsHere, LoneBang, FreedByLexer
  <2> QED BY <1>1, <1>h, <1>11, <2>1, <2>3, ListAloneKeepsInvariant DEF LoneBang, Errors
<1>12. CASE Unknown(q)
  <2>1. PointerStays
    BY <1>1, <1>4, <1>12 DEF PointerStays, Unknown
  <2>2. At(p)' # Bang
    BY <1>12 DEF Unknown, At, Known
  <2>3. ErrorsHere' /\ ~FreedByLexer'
    BY <1>12, <2>2 DEF ErrorsHere, Unknown, FreedByLexer
  <2> QED BY <1>1, <1>h, <1>12, <2>1, <2>3, ListAloneKeepsInvariant DEF Unknown, Errors
<1>13. CASE TrailingBlanks(q)
  <2>1. CASE q \in 1..Len(text)
    <3>1. PointerStays
      BY <1>1, <1>4, <1>13, <2>1 DEF PointerStays, TrailingBlanks
    <3>2. ErrorsHere'
      BY <1>1, <1>h, <1>13 DEF ErrorsHere, TrailingBlanks
    <3> QED BY <1>1, <1>h, <1>13, <3>1, <3>2, ListAloneKeepsInvariant DEF TrailingBlanks, Errors
  <2>2. CASE q = Len(text) + 1
    <3>1. Len(text) \in p..q - 1
      BY <1>1, <1>p, <2>2
    <3>2. text[Len(text)] \in Blanks
      BY <1>2, <3>1 DEF q
    <3>3. PointerStays
      BY <1>1, <1>4, <1>13, <2>2, <3>2 DEF PointerStays, TrailingBlanks
    <3>4. ErrorsHere'
      BY <1>1, <1>h, <1>13 DEF ErrorsHere, TrailingBlanks
    <3> QED BY <1>1, <1>h, <1>13, <3>3, <3>4, ListAloneKeepsInvariant DEF TrailingBlanks, Errors
  <2> QED BY <1>1, <1>4, <2>1, <2>2
<1> QED BY <1>3, <1>5, <1>6, <1>7, <1>8, <1>9, <1>10, <1>11, <1>12, <1>13

(* The steps around the loop.                                              *)
LEMMA LoadKeepsInvariant ==
  ASSUME IInv, Load
  PROVE  IInv'
<1>1. PointerStays /\ pc = "start" /\ text' = text /\ starved \in BOOLEAN
  BY DEF IInv, TypeOK, StaysInText, Load, PointerStays
<1>2. ErrorsHere' /\ (pc' = "return" => ~FreedByLexer')
  BY <1>1 DEF IInv, ErrorsHere, Load, FreedByLexer, listVars
<1> QED BY <1>1, <1>2, ListAloneKeepsInvariant DEF IInv, TypeOK, Load, Errors

LEMMA EndKeepsInvariant ==
  ASSUME IInv, End
  PROVE  IInv'
<1>1. EOF \in Tokens
  BY DEF EOF, Token, Tokens, Kinds
<1>2. Pushed("return") /\ pc = "loop"
  BY <1>1, PushKeepsList DEF End, IInv
<1>3. PointerStays /\ GoesOn("return") /\ text' = text
  BY DEF IInv, TypeOK, StaysInText, End, PointerStays, GoesOn
<1> QED BY <1>2, <1>3, PushKeepsInvariant

LEMMA WildKeepsInvariant ==
  ASSUME IInv, ReadBehindBuffer
  PROVE  IInv'
<1>1. TypeOK'
  BY DEF IInv, TypeOK, ReadBehindBuffer, listVars
<1>2. ListHolds'
  BY DEF IInv, ListHolds, ReadBehindBuffer, listVars
<1>3. StaysInText'
  BY DEF IInv, StaysInText, ReadBehindBuffer
<1>4. Released' /\ StringsCounted' /\ ErrorsHere'
  BY DEF IInv, Released, StringsCounted, ErrorsHere, ReadBehindBuffer, listVars
<1> QED BY <1>1, <1>2, <1>3, <1>4 DEF IInv

LEMMA DiscardKeepsInvariant ==
  ASSUME IInv, Discard
  PROVE  IInv'
<1>1. /\ count \in Nat /\ strings \in Nat /\ pc = "discard" /\ (data = NoBlock => count = 0)
      /\ strings >= count /\ (~starved => strings = count /\ FreedByLexer)
  BY DEF IInv, TypeOK, ListHolds, StringsCounted, ErrorsHere, Discard
<1>2. /\ pc' = "return" /\ data' = NoBlock /\ strings' = strings - count
      /\ UNCHANGED <<text, p, error, starved, count, capacity>> /\ buffer' = "freed"
  BY <1>1 DEF Discard, token_list_dtor
<1>3. FreedByLexer' = FreedByLexer
  BY <1>2 DEF FreedByLexer, At
<1>4. TypeOK'
  BY <1>1, <1>2 DEF IInv, TypeOK
<1>5. ListHolds' /\ StaysInText' /\ Released'
  BY <1>2 DEF IInv, ListHolds, StaysInText, Released
<1>6. StringsCounted' /\ ErrorsHere'
  BY <1>1, <1>2, <1>3 DEF StringsCounted, ErrorsHere
<1> QED BY <1>4, <1>5, <1>6 DEF IInv

LEMMA ReleaseKeepsInvariant ==
  ASSUME IInv, Release
  PROVE  IInv'
<1>1. /\ count \in Nat /\ strings \in Nat /\ pc = "return" /\ buffer # "live"
      /\ data # NoBlock => strings >= count
      /\ FreedByLexer => buffer = "freed"
  BY DEF IInv, TypeOK, StringsCounted, ErrorsHere, Release
<1>2. ~starved => IF FreedByLexer THEN data = NoBlock /\ strings = 0
                  ELSE strings = count /\ (data = NoBlock => count = 0)
  BY <1>1 DEF IInv, StringsCounted
<1>3. UNCHANGED <<text, p, buffer, error, starved, count, capacity>>
  BY DEF Release, token_list_dtor
<1>4. FreedByLexer' = FreedByLexer
  BY <1>3 DEF FreedByLexer, At
<1>5. CASE data = NoBlock /\ count > 0
  <2>1. pc' = "crashed" /\ UNCHANGED <<data, strings>>
    BY <1>5 DEF Release, token_list_dtor
  <2>2. TypeOK'
    BY <1>3, <2>1 DEF IInv, TypeOK
  <2>3. ListHolds' /\ StaysInText'
    BY <1>3, <2>1 DEF IInv, ListHolds, StaysInText
  <2>4. Released'
    BY <1>1, <1>2, <1>3, <1>4, <1>5, <2>1 DEF Released
  <2>5. StringsCounted' /\ ErrorsHere'
    BY <1>3, <1>5, <2>1 DEF StringsCounted, ErrorsHere
  <2> QED BY <2>2, <2>3, <2>4, <2>5 DEF IInv
<1>6. CASE ~(data = NoBlock /\ count > 0)
  <2>1. pc' = "exit" /\ data' = NoBlock /\ strings' = strings - count
    BY <1>6 DEF Release, token_list_dtor
  <2>2. strings - count \in Nat
    BY <1>1, <1>6
  <2>3. TypeOK'
    BY <1>3, <2>1, <2>2 DEF IInv, TypeOK
  <2>4. ListHolds' /\ StaysInText'
    BY <1>3, <2>1 DEF IInv, ListHolds, StaysInText
  <2>5. Released'
    BY <1>1, <1>2, <1>3, <1>4, <1>6, <2>1 DEF Released
  <2>6. StringsCounted' /\ ErrorsHere'
    BY <1>3, <2>1 DEF StringsCounted, ErrorsHere
  <2> QED BY <2>3, <2>4, <2>5, <2>6 DEF IInv
<1> QED BY <1>5, <1>6

LEMMA StutterKeepsInvariant ==
  ASSUME IInv, UNCHANGED vars
  PROVE  IInv'
<1>1. TypeOK'
  BY DEF IInv, TypeOK, vars
<1>2. ListHolds' /\ StaysInText'
  BY DEF IInv, ListHolds, StaysInText, vars
<1>3. Released' /\ StringsCounted' /\ ErrorsHere'
  BY DEF IInv, Released, StringsCounted, ErrorsHere, FreedByLexer, At, vars
<1> QED BY <1>1, <1>2, <1>3 DEF IInv

LEMMA Invariance == Spec => []IInv
<1>1. IInv /\ [Next]_vars => IInv'
  BY LexKeepsInvariant, LoadKeepsInvariant, EndKeepsInvariant, WildKeepsInvariant,
     DiscardKeepsInvariant, ReleaseKeepsInvariant, StutterKeepsInvariant DEF Next
<1> QED BY <1>1, InitHolds, PTL DEF Spec

-----------------------------------------------------------------------------
(* What the kinds of token ask of the characters that spell them.          *)
LEMMA SpelledMeans ==
  ASSUME NEW s, NEW k
  PROVE  k \in Spelled(s) <=>
           \/ k = "UNARY_MINUS" /\ s = <<"u", "-">>
           \/ k = "KEYWORD" /\ s \in Keywords
           \/ k = "IDENTIFIER" /\ s[1] \in Letters /\ AllIn(s, Letters \union Digits) /\ s \notin Keywords
           \/ k = "NUMBER" /\ AllIn(s, Digits)
           \/ k = "STRING" /\ Len(s) > 1 /\ {k2 \in DOMAIN s : s[k2] = Quote} = {1, Len(s)}
           \/ k = "SYMBOL" /\ \/ Len(s) = 1 /\ s[1] \in Singles \union Pairs
                              \/ Len(s) = 2 /\ s[1] \in Pairs \union {Bang} /\ s[2] = "="
  BY DEF Spelled, Kinds

(* The characters of a piece of a text are those of the text.              *)
LEMMA PieceIs ==
  ASSUME NEW t \in Seq(STRING), NEW i \in 1..Len(t), NEW j \in i..Len(t)
  PROVE  LET s == SubSeq(t, i, j) IN
         /\ s \in Seq(STRING) /\ Len(s) = j - i + 1 /\ DOMAIN s = 1..j - i + 1
         /\ \A k \in 1..j - i + 1 : s[k] = t[i + k - 1]
         /\ s[1] = t[i]
         /\ \A k \in i..j : s[k - i + 1] = t[k]
<1> DEFINE s == SubSeq(t, i, j)
<1>1. s \in Seq(STRING) /\ Len(s) = j - i + 1 /\ \A k \in 1..j - i + 1 : s[k] = t[i + k - 1]
  OBVIOUS
<1>2. DOMAIN s = 1..j - i + 1
  BY <1>1
<1>3. s[1] = t[i]
  BY <1>1
<1>4. \A k \in i..j : s[k - i + 1] = t[k]
  <2> TAKE k \in i..j
  <2>1. k - i + 1 \in 1..j - i + 1 /\ i + (k - i + 1) - 1 = k
    OBVIOUS
  <2> HIDE DEF s
  <2> QED BY <1>1, <2>1
<1> QED BY <1>1, <1>2, <1>3, <1>4

LEMMA CharsArePiece ==
  ASSUME text \in Seq(STRING), NEW q \in 1..Len(text), NEW r \in q + 1..Len(text) + 1
  PROVE  Chars(q, r) = SubSeq(text, q, r - 1)
<1>1. \A k \in 1..(r - q) : At(q + k - 1) = text[q + k - 1]
  BY DEF At
<1>2. SubSeq(text, q, r - 1) = [k \in 1..(r - q) |-> text[q + k - 1]]
  <2>1. SubSeq(text, q, r - 1) = [k \in 1..((r - 1) - q + 1) |-> text[q + k - 1]]
    OBVIOUS
  <2>2. (r - 1) - q + 1 = r - q
    OBVIOUS
  <2> QED BY <2>1, <2>2
<1> QED BY <1>1, <1>2 DEF Chars

(* A class of characters decides which kinds can begin with one of it.     *)
LEMMA KeywordsAreWords ==
  ASSUME NEW s \in Keywords
  PROVE  s[1] \in Letters /\ AllIn(s, Letters \union Digits) /\ s # << >>
<1>1. s \in Seq(Letters \union Digits) /\ s # << >> /\ s[1] \in Letters
  BY KeywordAssumption
<1> QED BY <1>1 DEF AllIn

LEMMA Classes ==
  /\ \A c \in Letters : c \notin Digits /\ c \notin Blanks /\ c \notin Singles /\ c \notin Pairs /\ c # Bang /\ c # Quote
  /\ \A c \in Digits : c \notin Blanks /\ c \notin Singles /\ c \notin Pairs /\ c # Bang /\ c # Quote /\ c # "u" /\ c # "-"
  /\ \A c \in Blanks : c \notin Singles /\ c \notin Pairs /\ c # Bang /\ c # Quote /\ c # "u"
  /\ \A c \in Singles : c \notin Pairs /\ c # Bang /\ c # Quote
  /\ \A c \in Pairs : c # Bang /\ c # Quote
  /\ Bang # Quote /\ "u" \in Letters /\ "-" \in Singles /\ "=" \in Pairs
<1>1. \A c \in Letters \union Digits \union Blanks : c \notin Singles \union Pairs \union {Bang, Quote}
  BY CharAssumption
<1>2. \A c \in Letters : c \notin Digits /\ c \notin Blanks
  BY CharAssumption
<1>3. \A c \in Digits : c \notin Blanks
  BY CharAssumption
<1>4. "u" \in Letters /\ "-" \in Singles /\ "=" \in Pairs
  BY CharAssumption DEF Singles, Pairs
<1>5. \A c \in Singles : c \notin Pairs /\ c # Bang /\ c # Quote
  BY DEF Singles, Pairs, Bang, Quote
<1>6. (\A c \in Pairs : c # Bang /\ c # Quote) /\ Bang # Quote
  BY DEF Pairs, Bang, Quote
<1>7. \A c \in Digits : c # "u" /\ c # "-"
  BY <1>1, <1>2, <1>4
<1>8. \A c \in Blanks : c # "u"
  BY <1>2, <1>4
<1> QED BY <1>1, <1>2, <1>3, <1>4, <1>5, <1>6, <1>7, <1>8

(* How a spelled lexeme begins, and what that says of the rest of it.      *)
LEMMA Beginnings ==
  ASSUME NEW s \in Seq(STRING), s # << >>, NEW k \in Spelled(s)
  PROVE  \/ k = "UNARY_MINUS" /\ s[1] = "u" /\ Len(s) = 2 /\ s[2] = "-"
         \/ /\ s[1] \in Letters /\ AllIn(s, Letters \union Digits)
            /\ k = IF s \in Keywords THEN "KEYWORD" ELSE "IDENTIFIER"
         \/ k = "NUMBER" /\ s[1] \in Digits /\ AllIn(s, Digits)
         \/ /\ k = "STRING" /\ s[1] = Quote /\ Len(s) > 1 /\ s[Len(s)] = Quote
            /\ \A i \in 2..Len(s) - 1 : s[i] # Quote
         \/ /\ k = "SYMBOL"
            /\ \/ Len(s) = 1 /\ s[1] \in Singles \union Pairs
               \/ Len(s) = 2 /\ s[1] \in Pairs \union {Bang} /\ s[2] = "="
<1>1. 1 \in DOMAIN s /\ Len(s) \in DOMAIN s /\ DOMAIN s = 1..Len(s) /\ Len(s) \in Nat
  OBVIOUS
<1>2. CASE k = "UNARY_MINUS" /\ s = <<"u", "-">>
  BY <1>2
<1>3. CASE k = "KEYWORD" /\ s \in Keywords
  BY <1>3, KeywordsAreWords
<1>4. CASE k = "IDENTIFIER" /\ s[1] \in Letters /\ AllIn(s, Letters \union Digits) /\ s \notin Keywords
  BY <1>4
<1>5. CASE k = "NUMBER" /\ AllIn(s, Digits)
  BY <1>1, <1>5 DEF AllIn
<1>6. CASE k = "STRING" /\ Len(s) > 1 /\ {k2 \in DOMAIN s : s[k2] = Quote} = {1, Len(s)}
  <2>1. s[1] = Quote /\ s[Len(s)] = Quote
    BY <1>6
  <2>2. \A i \in 2..Len(s) - 1 : s[i] # Quote
    <3> SUFFICES ASSUME NEW i \in 2..Len(s) - 1, s[i] = Quote PROVE FALSE
      OBVIOUS
    <3> DEFINE n == Len(s)
    <3>1. n \in Nat /\ i \in 2..n - 1
      OBVIOUS
    <3>2. i \in DOMAIN s
      OBVIOUS
    <3>3. i \in {1, n}
      BY <1>6, <3>2
    <3> HIDE DEF n
    <3> QED BY <3>1, <3>3
  <2> QED BY <1>6, <2>1, <2>2
<1>7. CASE k = "SYMBOL" /\ \/ Len(s) = 1 /\ s[1] \in Singles \union Pairs
                           \/ Len(s) = 2 /\ s[1] \in Pairs \union {Bang} /\ s[2] = "="
  BY <1>7
<1> QED BY <1>2, <1>3, <1>4, <1>5, <1>6, <1>7, SpelledMeans

-----------------------------------------------------------------------------
(* Where the text holds a lexeme, and where it holds none.                 *)
LexemeAt(q, r, type) ==
  /\ q \in 1..Len(text) /\ r \in q + 1..Len(text) + 1 /\ text[q] \notin Blanks
  /\ Spelled(SubSeq(text, q, r - 1)) = {type}
  /\ \A j \in r..Len(text) : Spelled(SubSeq(text, q, j)) = {}

NoLexemeAt(q) ==
  /\ q \in 1..Len(text) /\ text[q] \notin Blanks
  /\ \A j \in q..Len(text) : Spelled(SubSeq(text, q, j)) = {}

LEMMA WordIsLexeme ==
  ASSUME text \in Seq(STRING), NEW q \in 1..Len(text), text[q] \in Letters, ~ IsUnaryMinus(q)
  PROVE  LET r == Past(Letters \union Digits, q) IN
         LexemeAt(q, r, IF Chars(q, r) \in Keywords THEN "KEYWORD" ELSE "IDENTIFIER")
<1> DEFINE r == Past(Letters \union Digits, q)
           s(j) == SubSeq(text, q, j)
           type == IF s(r - 1) \in Keywords THEN "KEYWORD" ELSE "IDENTIFIER"
<1>1. /\ r \in q..Len(text) + 1 /\ \A k \in q..r - 1 : text[k] \in Letters \union Digits
      /\ r = Len(text) + 1 \/ text[r] \notin Letters \union Digits
  BY PastIsThere
<1>2. r \in q + 1..Len(text) + 1
  BY <1>1
<1> HIDE DEF r
<1>3. \A j \in q..Len(text) : s(j)[1] = text[q]
  BY PieceIs
<1>4. \A j \in q..Len(text) : ~ (s(j)[1] = "u" /\ Len(s(j)) = 2 /\ s(j)[2] = "-")
  <2> SUFFICES ASSUME NEW j \in q..Len(text), text[q] = "u", Len(s(j)) = 2, s(j)[2] = "-" PROVE FALSE
    BY <1>3
  <2>1. j = q + 1 /\ text[q + 1] = "-"
    BY PieceIs
  <2> QED BY <2>1 DEF IsUnaryMinus, At
<1>5. \A j \in q..Len(text) : \A k \in Spelled(s(j)) :
         AllIn(s(j), Letters \union Digits) /\ k = IF s(j) \in Keywords THEN "KEYWORD" ELSE "IDENTIFIER"
  <2> SUFFICES ASSUME NEW j \in q..Len(text), NEW k \in Spelled(s(j))
               PROVE  AllIn(s(j), Letters \union Digits) /\ k = IF s(j) \in Keywords THEN "KEYWORD" ELSE "IDENTIFIER"
    OBVIOUS
  <2>0. s(j) \in Seq(STRING) /\ Len(s(j)) = j - q + 1
    BY PieceIs
  <2>1. s(j) # << >> /\ s(j)[1] = text[q]
    BY <1>3, <2>0
  <2>2. text[q] \notin Digits /\ text[q] # Quote /\ text[q] \notin Singles \union Pairs \union {Bang}
    BY Classes
  <2> HIDE DEF s
  <2> QED BY <1>4, <2>0, <2>1, <2>2, Beginnings
<1>6. \A j \in r..Len(text) : Spelled(s(j)) = {}
  <2> SUFFICES ASSUME NEW j \in r..Len(text), AllIn(s(j), Letters \union Digits) PROVE FALSE
    <3>1. \A j \in r..Len(text) : j \in q..Len(text)
      BY <1>2
    <3> HIDE DEF s
    <3> QED BY <1>5, <3>1
  <2>1. s(j)[r - q + 1] = text[r] /\ r - q + 1 \in DOMAIN s(j)
    BY <1>2, PieceIs
  <2>2. text[r] \in Letters \union Digits
    BY <2>1 DEF AllIn
  <2> QED BY <1>1, <1>2, <2>2
<1>7. Spelled(s(r - 1)) = {type}
  <2>1. r - 1 \in q..Len(text)
    BY <1>2
  <2>2. AllIn(s(r - 1), Letters \union Digits) /\ s(r - 1)[1] \in Letters
    <3>1. \A k \in DOMAIN s(r - 1) : k \in 1..(r - 1) - q + 1 /\ s(r - 1)[k] = text[q + k - 1]
      BY <2>1, PieceIs
    <3>2. \A k \in 1..(r - 1) - q + 1 : q + k - 1 \in q..r - 1
      BY <1>2
    <3> QED BY <1>1, <1>3, <2>1, <3>1, <3>2 DEF AllIn
  <2>3. type \in Spelled(s(r - 1))
    BY <2>2, SpelledMeans
  <2> QED BY <1>5, <2>1, <2>3
<1>8. Chars(q, r) = s(r - 1)
  BY <1>2, CharsArePiece
<1>9. LexemeAt(q, r, type)
  BY <1>2, <1>6, <1>7, Classes DEF LexemeAt
<1> QED BY <1>8, <1>9 DEF r

LEMMA NumberIsLexeme ==
  ASSUME text \in Seq(STRING), NEW q \in 1..Len(text), text[q] \in Digits
  PROVE  LexemeAt(q, Past(Digits, q), "NUMBER")
<1> DEFINE r == Past(Digits, q)
           s(j) == SubSeq(text, q, j)
<1>1. /\ r \in q..Len(text) + 1 /\ \A k \in q..r - 1 : text[k] \in Digits
      /\ r = Len(text) + 1 \/ text[r] \notin Digits
  BY PastIsThere
<1>2. r \in q + 1..Len(text) + 1
  BY <1>1
<1> HIDE DEF r
<1>3. \A j \in q..Len(text) : \A k \in Spelled(s(j)) : k = "NUMBER" /\ AllIn(s(j), Digits)
  <2> SUFFICES ASSUME NEW j \in q..Len(text), NEW k \in Spelled(s(j))
               PROVE  k = "NUMBER" /\ AllIn(s(j), Digits)
    OBVIOUS
  <2>1. s(j) \in Seq(STRING) /\ s(j) # << >> /\ s(j)[1] = text[q]
    BY PieceIs
  <2>2. /\ text[q] \notin Letters /\ text[q] # "u" /\ text[q] # Quote
        /\ text[q] \notin Singles \union Pairs \union {Bang}
    BY Classes
  <2> HIDE DEF s
  <2> QED BY <2>1, <2>2, Beginnings
<1>4. \A j \in r..Len(text) : Spelled(s(j)) = {}
  <2> SUFFICES ASSUME NEW j \in r..Len(text), AllIn(s(j), Digits) PROVE FALSE
    <3>1. \A j \in r..Len(text) : j \in q..Len(text)
      BY <1>2
    <3> HIDE DEF s
    <3> QED BY <1>3, <3>1
  <2>1. s(j)[r - q + 1] = text[r] /\ r - q + 1 \in DOMAIN s(j)
    BY <1>2, PieceIs
  <2>2. text[r] \in Digits
    BY <2>1 DEF AllIn
  <2> QED BY <1>1, <1>2, <2>2
<1>5. Spelled(s(r - 1)) = {"NUMBER"}
  <2>1. r - 1 \in q..Len(text)
    BY <1>2
  <2>2. AllIn(s(r - 1), Digits)
    <3>1. \A k \in DOMAIN s(r - 1) : k \in 1..(r - 1) - q + 1 /\ s(r - 1)[k] = text[q + k - 1]
      BY <2>1, PieceIs
    <3>2. \A k \in 1..(r - 1) - q + 1 : q + k - 1 \in q..r - 1
      BY <1>2
    <3> QED BY <1>1, <3>1, <3>2 DEF AllIn
  <2>3. "NUMBER" \in Spelled(s(r - 1))
    BY <2>2, SpelledMeans
  <2> QED BY <1>3, <2>1, <2>3
<1>6. LexemeAt(q, r, "NUMBER")
  BY <1>2, <1>4, <1>5, Classes DEF LexemeAt
<1> QED BY <1>6 DEF r

(* Nothing but a string begins with a quote, and it ends with the next.    *)
LEMMA QuoteBegins ==
  ASSUME text \in Seq(STRING), NEW q \in 1..Len(text), text[q] = Quote,
         NEW j \in q..Len(text), NEW k \in Spelled(SubSeq(text, q, j))
  PROVE  k = "STRING" /\ j > q /\ text[j] = Quote /\ \A i \in q + 1..j - 1 : text[i] # Quote
<1> DEFINE s == SubSeq(text, q, j)
<1>1. s \in Seq(STRING) /\ Len(s) = j - q + 1 /\ s # << >> /\ s[1] = text[q]
  BY PieceIs
<1>2. \A i \in q..j : s[i - q + 1] = text[i]
  BY PieceIs
<1>3. /\ Quote \notin Letters /\ Quote \notin Digits /\ Quote # "u"
      /\ Quote \notin Singles \union Pairs \union {Bang}
  BY Classes
<1>4. k \in Spelled(s)
  OBVIOUS
<1> HIDE DEF s
<1>5. k = "STRING" /\ Len(s) > 1 /\ s[Len(s)] = Quote /\ \A i \in 2..Len(s) - 1 : s[i] # Quote
  BY <1>1, <1>3, <1>4, Beginnings
<1>6. j > q /\ text[j] = Quote
  BY <1>1, <1>2, <1>5
<1>7. \A i \in q + 1..j - 1 : text[i] # Quote
  <2> TAKE i \in q + 1..j - 1
  <2>1. i - q + 1 \in 2..Len(s) - 1 /\ i \in q..j
    BY <1>1
  <2> QED BY <1>2, <1>5, <2>1
<1> QED BY <1>5, <1>6, <1>7

LEMMA StringIsLexeme ==
  ASSUME text \in Seq(STRING), NEW q \in 1..Len(text), text[q] = Quote,
         StringInside(q) <= Len(text)
  PROVE  LexemeAt(q, StringInside(q) + 1, "STRING")
<1> DEFINE e == StringInside(q)
           s(j) == SubSeq(text, q, j)
<1>1. /\ e \in q + 1..Len(text) + 1 /\ \A k \in q + 1..e - 1 : text[k] \in STRING \ {Quote}
      /\ e = Len(text) + 1 \/ text[e] \notin STRING \ {Quote}
  <2>1. q + 1 \in 1..Len(text) + 1
    OBVIOUS
  <2> QED BY <2>1, PastIsThere DEF StringInside
<1>2. e \in q + 1..Len(text)
  BY <1>1
<1> HIDE DEF e
<1>3. text[e] = Quote
  <2>1. text[e] \in STRING
    BY <1>2
  <2> QED BY <1>1, <1>2, <2>1
<1>4. \A j \in e + 1..Len(text) : Spelled(s(j)) = {}
  <2> SUFFICES ASSUME NEW j \in e + 1..Len(text), NEW k \in Spelled(s(j)) PROVE FALSE
    OBVIOUS
  <2>1. j \in q..Len(text) /\ e \in q + 1..j - 1
    BY <1>2
  <2> QED BY <1>3, <2>1, QuoteBegins
<1>5. Spelled(s(e)) = {"STRING"}
  <2>1. e \in q..Len(text)
    BY <1>2
  <2>2. /\ Len(s(e)) = e - q + 1 /\ DOMAIN s(e) = 1..e - q + 1
        /\ \A k \in 1..e - q + 1 : s(e)[k] = text[q + k - 1]
    BY <2>1, PieceIs
  <2> DEFINE n == e - q + 1
  <2>3. n \in Nat /\ n > 1
    BY <1>2
  <2>4. \A k \in 1..n : s(e)[k] = Quote <=> k \in {1, n}
    <3> TAKE k \in 1..n
    <3>1. CASE k = 1
      <4>1. q + k - 1 = q
        BY <3>1
      <4> QED BY <2>2, <3>1, <4>1
    <3>2. CASE k = n
      <4>1. q + k - 1 = e
        BY <1>2, <3>2
      <4> QED BY <1>3, <2>2, <3>2, <4>1
    <3>3. CASE k \in 2..n - 1
      <4>1. q + k - 1 \in q + 1..e - 1
        BY <1>2, <3>3
      <4>2. k \notin {1, n}
        BY <2>3, <3>3
      <4> QED BY <1>1, <2>2, <4>1, <4>2
    <3>4. k = 1 \/ k = n \/ k \in 2..n - 1
      <4> HIDE DEF n
      <4> QED BY <2>3
    <3> QED BY <3>1, <3>2, <3>3, <3>4
  <2>5. {k2 \in DOMAIN s(e) : s(e)[k2] = Quote} = {1, Len(s(e))}
    <3>1. DOMAIN s(e) = 1..n /\ Len(s(e)) = n /\ 1 \in 1..n /\ n \in 1..n
      BY <2>2, <2>3
    <3> HIDE DEF n, s
    <3> QED BY <2>4, <3>1
  <2>6. "STRING" \in Spelled(s(e))
    BY <2>2, <2>3, <2>5, SpelledMeans
  <2> QED BY <2>1, <2>6, QuoteBegins
<1>6. (e + 1) - 1 = e /\ e + 1 \in q + 1..Len(text) + 1
  BY <1>2
<1>7. Quote \notin Blanks
  BY Classes
<1>8. LexemeAt(q, e + 1, "STRING")
  BY <1>4, <1>5, <1>6, <1>7 DEF LexemeAt
<1> QED BY <1>8 DEF e

LEMMA UnclosedIsNoLexeme ==
  ASSUME text \in Seq(STRING), NEW q \in 1..Len(text), text[q] = Quote,
         StringInside(q) = Len(text) + 1
  PROVE  NoLexemeAt(q)
<1>1. \A k \in q + 1..Len(text) : text[k] # Quote
  <2>1. q + 1 \in 1..Len(text) + 1
    OBVIOUS
  <2>2. \A k \in q + 1..StringInside(q) - 1 : text[k] \in STRING \ {Quote}
    BY <2>1, PastIsThere DEF StringInside
  <2> QED BY <2>2
<1>2. \A j \in q..Len(text) : \A k \in Spelled(SubSeq(text, q, j)) : FALSE
  BY <1>1, QuoteBegins
<1> QED BY <1>2, Classes DEF NoLexemeAt

(* Signs: the pieces that are spelled end at the first or second place.    *)
LEMMA SignBegins ==
  ASSUME text \in Seq(STRING), NEW q \in 1..Len(text), text[q] \in Singles \union Pairs \union {Bang},
         NEW j \in q..Len(text), NEW k \in Spelled(SubSeq(text, q, j))
  PROVE  /\ k = "SYMBOL"
         /\ \/ j = q /\ text[q] \in Singles \union Pairs
            \/ j = q + 1 /\ text[q] \in Pairs \union {Bang} /\ text[q + 1] = "="
<1> DEFINE s == SubSeq(text, q, j)
<1>1. s \in Seq(STRING) /\ Len(s) = j - q + 1 /\ s # << >> /\ s[1] = text[q]
  BY PieceIs
<1>2. \A i \in q..j : s[i - q + 1] = text[i]
  BY PieceIs
<1>3. text[q] \notin Letters /\ text[q] \notin Digits /\ text[q] # "u" /\ text[q] # Quote
  BY Classes
<1>4. k \in Spelled(s)
  OBVIOUS
<1> HIDE DEF s
<1>5. k = "SYMBOL" /\ \/ Len(s) = 1 /\ s[1] \in Singles \union Pairs
                      \/ Len(s) = 2 /\ s[1] \in Pairs \union {Bang} /\ s[2] = "="
  BY <1>1, <1>3, <1>4, Beginnings
<1> DEFINE n == Len(s)
<1>l. n = j - q + 1 /\ n \in Nat /\ q \in Nat /\ j \in Nat
  BY <1>1
<1> HIDE DEF n
<1>6. n = 2 => q + 1 \in q..j /\ (q + 1) - q + 1 = 2 /\ j = q + 1
  BY <1>l
<1>7. n = 1 => j = q
  BY <1>l
<1> QED BY <1>1, <1>2, <1>5, <1>6, <1>7 DEF n

LEMMA OneSignIsLexeme ==
  ASSUME text \in Seq(STRING), NEW q \in 1..Len(text),
         \/ text[q] \in Singles
         \/ text[q] \in Pairs /\ At(q + 1) # "="
  PROVE  LexemeAt(q, q + 1, "SYMBOL")
<1>1. \A j \in q..Len(text) : \A k \in Spelled(SubSeq(text, q, j)) : k = "SYMBOL" /\ j = q
  <2> SUFFICES ASSUME NEW j \in q..Len(text), NEW k \in Spelled(SubSeq(text, q, j)) PROVE k = "SYMBOL" /\ j = q
    OBVIOUS
  <2>1. j = q + 1 => text[q + 1] = At(q + 1)
    BY DEF At
  <2> QED BY <2>1, SignBegins, Classes
<1>2. "SYMBOL" \in Spelled(SubSeq(text, q, q))
  <2>1. Len(SubSeq(text, q, q)) = 1 /\ SubSeq(text, q, q)[1] = text[q]
    BY PieceIs
  <2> QED BY <2>1, SpelledMeans
<1>3. Spelled(SubSeq(text, q, (q + 1) - 1)) = {"SYMBOL"}
  <2>1. (q + 1) - 1 = q /\ q \in q..Len(text)
    OBVIOUS
  <2> QED BY <1>1, <1>2, <2>1
<1>4. \A j \in q + 1..Len(text) : Spelled(SubSeq(text, q, j)) = {}
  BY <1>1
<1> QED BY <1>3, <1>4, Classes DEF LexemeAt

LEMMA TwoSignsAreLexeme ==
  ASSUME text \in Seq(STRING), NEW q \in 1..Len(text), q + 1 \in 1..Len(text),
         text[q] \in Pairs \union {Bang}, text[q + 1] = "="
  PROVE  LexemeAt(q, q + 2, "SYMBOL")
<1>1. \A j \in q + 2..Len(text) : Spelled(SubSeq(text, q, j)) = {}
  BY SignBegins
<1>2. Spelled(SubSeq(text, q, (q + 2) - 1)) = {"SYMBOL"}
  <2>1. (q + 2) - 1 = q + 1 /\ q + 1 \in q..Len(text)
    OBVIOUS
  <2>2. /\ Len(SubSeq(text, q, q + 1)) = 2 /\ SubSeq(text, q, q + 1)[1] = text[q]
        /\ SubSeq(text, q, q + 1)[2] = text[q + 1]
    BY <2>1, PieceIs
  <2>3. "SYMBOL" \in Spelled(SubSeq(text, q, q + 1))
    BY <2>2, SpelledMeans
  <2>4. \A k \in Spelled(SubSeq(text, q, q + 1)) : k = "SYMBOL"
    BY <2>1, SignBegins
  <2> QED BY <2>1, <2>3, <2>4
<1> QED BY <1>1, <1>2, Classes DEF LexemeAt

LEMMA LoneBangIsNoLexeme ==
  ASSUME text \in Seq(STRING), NEW q \in 1..Len(text), text[q] = Bang, At(q + 1) # "="
  PROVE  NoLexemeAt(q)
<1>1. \A j \in q..Len(text) : \A k \in Spelled(SubSeq(text, q, j)) : FALSE
  <2> SUFFICES ASSUME NEW j \in q..Len(text), NEW k \in Spelled(SubSeq(text, q, j)) PROVE FALSE
    OBVIOUS
  <2>1. j = q + 1 => text[q + 1] = At(q + 1)
    BY DEF At
  <2> QED BY <2>1, SignBegins, Classes
<1> QED BY <1>1, Classes DEF NoLexemeAt

LEMMA UnaryMinusIsLexeme ==
  ASSUME text \in Seq(STRING), NEW q \in 1..Len(text), IsUnaryMinus(q)
  PROVE  LexemeAt(q, q + 2, "UNARY_MINUS") /\ q + 1 \in 1..Len(text)
<1>1. text[q] = "u" /\ q + 1 \in 1..Len(text) /\ text[q + 1] = "-"
  BY SignsAreNotZero DEF IsUnaryMinus, At
<1>2. "-" \notin Letters /\ "-" \notin Digits /\ "u" \notin Digits /\ "u" # Quote
      /\ "u" \notin Singles \union Pairs \union {Bang} /\ "u" \notin Blanks
  BY Classes
<1>3. \A j \in q..Len(text) : \A k \in Spelled(SubSeq(text, q, j)) : j <= q + 1
  <2> SUFFICES ASSUME NEW j \in q + 2..Len(text), NEW k \in Spelled(SubSeq(text, q, j)) PROVE FALSE
    OBVIOUS
  <2>1. /\ SubSeq(text, q, j) \in Seq(STRING) /\ Len(SubSeq(text, q, j)) = j - q + 1
        /\ SubSeq(text, q, j)[1] = "u"  /\ SubSeq(text, q, j)[2] = "-" /\ 2 \in DOMAIN SubSeq(text, q, j)
    BY <1>1, PieceIs
  <2> DEFINE s == SubSeq(text, q, j)
  <2>2. s \in Seq(STRING) /\ s # << >> /\ Len(s) > 2 /\ k \in Spelled(s)
    BY <2>1
  <2>3. s[1] = "u" /\ ~ AllIn(s, Letters \union Digits)
    BY <1>2, <2>1 DEF AllIn
  <2> HIDE DEF s
  <2>4. s[1] \notin Digits /\ s[1] # Quote
    BY <1>2, <2>3
  <2>5. Len(s) # 1 /\ Len(s) # 2
    <3> DEFINE n == Len(s)
    <3>1. n \in Nat /\ n > 2
      BY <2>2
    <3> HIDE DEF n
    <3>2. n # 1 /\ n # 2
      BY <3>1
    <3> QED BY <3>2 DEF n
  <2> QED BY <2>2, <2>3, <2>4, <2>5, Beginnings
<1>4. Spelled(SubSeq(text, q, q + 1)) = {"UNARY_MINUS"}
  <2> DEFINE s == SubSeq(text, q, q + 1)
  <2>1. s \in Seq(STRING) /\ Len(s) = 2 /\ s[1] = "u" /\ s[2] = "-" /\ 2 \in DOMAIN s
    <3>1. q + 1 \in q..Len(text) /\ (q + 1) - q + 1 = 2 /\ (q + 1) + 1 - q = 2
      BY <1>1
    <3> QED BY <1>1, <3>1, PieceIs
  <2> HIDE DEF s
  <2>2. s = <<"u", "-">>
    BY <2>1
  <2>3. ~ AllIn(s, Letters \union Digits)
    BY <1>2, <2>1 DEF AllIn
  <2>4. \A k \in Spelled(s) : k = "UNARY_MINUS"
    <3>1. s # << >>
      BY <2>1
    <3> QED BY <1>2, <2>1, <2>3, <3>1, Beginnings
  <2>5. "UNARY_MINUS" \in Spelled(s)
    BY <2>2, SpelledMeans
  <2>6. Spelled(s) = {"UNARY_MINUS"}
    BY <2>4, <2>5
  <2> QED BY <2>6 DEF s
<1>5. (q + 2) - 1 = q + 1 /\ \A j \in q + 2..Len(text) : Spelled(SubSeq(text, q, j)) = {}
  BY <1>3
<1> QED BY <1>1, <1>2, <1>4, <1>5 DEF LexemeAt

LEMMA UnknownIsNoLexeme ==
  ASSUME text \in Seq(STRING), NEW q \in 1..Len(text), text[q] \notin Known, text[q] \notin Blanks
  PROVE  NoLexemeAt(q)
<1>1. \A j \in q..Len(text) : \A k \in Spelled(SubSeq(text, q, j)) : FALSE
  <2> SUFFICES ASSUME NEW j \in q..Len(text), NEW k \in Spelled(SubSeq(text, q, j)) PROVE FALSE
    OBVIOUS
  <2>0. SubSeq(text, q, j) \in Seq(STRING) /\ Len(SubSeq(text, q, j)) = j - q + 1
    BY PieceIs
  <2>1. SubSeq(text, q, j) # << >> /\ SubSeq(text, q, j)[1] = text[q]
    BY <2>0, PieceIs
  <2>2. /\ text[q] \notin Letters /\ text[q] \notin Digits /\ text[q] # "u" /\ text[q] # Quote
        /\ text[q] \notin Singles \union Pairs \union {Bang}
    BY Classes DEF Known
  <2> QED BY <2>0, <2>1, <2>2, Beginnings
<1> QED BY <1>1 DEF NoLexemeAt

-----------------------------------------------------------------------------
(* The reading of a text is well defined.                                  *)
Results == [tokens : Seq(Tokens), error : Errors]

LEMMA LongestIsThere ==
  ASSUME NEW t \in Seq(STRING), NEW i \in 1..Len(t), Ends(t, i) # {}
  PROVE  Longest(t, i) \in Ends(t, i) /\ Longest(t, i) \in i..Len(t) /\ \A k \in Ends(t, i) : k <= Longest(t, i)
<1> DEFINE Left == {Len(t) - j : j \in Ends(t, i)}
<1>1. Ends(t, i) \subseteq i..Len(t)
  BY DEF Ends
<1>2. Left \subseteq Nat /\ Left # {}
  BY <1>1
<1>3. PICK d \in Left : \A e \in Left : d <= e
  BY <1>2, LeastElement
<1>4. PICK j \in Ends(t, i) : d = Len(t) - j
  OBVIOUS
<1>5. \A k \in Ends(t, i) : k <= j
  <2> TAKE k \in Ends(t, i)
  <2>1. d <= Len(t) - k /\ j \in i..Len(t) /\ k \in i..Len(t)
    BY <1>1, <1>3
  <2> QED BY <1>4, <2>1
<1>6. Longest(t, i) \in Ends(t, i) /\ \A k \in Ends(t, i) : k <= Longest(t, i)
  BY <1>5 DEF Longest
<1> QED BY <1>1, <1>6

(* What is read from a place on depends on later places only.              *)
LEMMA ReadsOnlyLater ==
  ASSUME NEW t \in Seq(STRING), NEW i \in 1..Len(t) + 1, NEW g, NEW h,
         \A j \in i + 1..Len(t) + 1 : g[j] = h[j]
  PROVE  ReadOn(t, i, g) = ReadOn(t, i, h)
<1>1. CASE i > Len(t)
  BY <1>1 DEF ReadOn
<1>2. CASE ~ (i > Len(t)) /\ Ends(t, i) = {}
  <2>1. g[i + 1] = h[i + 1]
    BY <1>2
  <2> QED BY <1>2, <2>1 DEF ReadOn
<1>3. CASE ~ (i > Len(t)) /\ Ends(t, i) # {}
  <2>1. Longest(t, i) + 1 \in i + 1..Len(t) + 1
    <3>1. i \in 1..Len(t)
      BY <1>3
    <3> QED BY <1>3, <3>1, LongestIsThere
  <2>2. g[Longest(t, i) + 1] = h[Longest(t, i) + 1] /\ g[i + 1] = h[i + 1]
    BY <1>3, <2>1
  <2> QED BY <1>3, <2>2 DEF ReadOn
<1> QED BY <1>1, <1>2, <1>3

LEMMA ReadingUnfolds ==
  ASSUME NEW t \in Seq(STRING)
  PROVE  \A i \in 1..Len(t) + 1 : Readings(t)[i] = ReadOn(t, i, Readings(t))
<1> DEFINE n == Len(t)
           From(m) == n + 1 - m..n + 1
           P(g, m) == g = [i \in From(m) |-> ReadOn(t, i, g)]
           S == {m \in Nat : m <= n => \E g : P(g, m)}
<1>1. n \in Nat
  OBVIOUS
<1>2. 0 \in S
  <2> DEFINE g == [i \in From(0) |-> ReadOn(t, i, << >>)]
  <2>1. \A i \in From(0) : i \in 1..n + 1 /\ i + 1 > n + 1
    BY <1>1
  <2>2. \A i \in From(0) : ReadOn(t, i, << >>) = ReadOn(t, i, g)
    <3> TAKE i \in From(0)
    <3>1. i \in 1..n + 1 /\ \A j \in i + 1..n + 1 : << >>[j] = g[j]
      BY <1>1, <2>1
    <3> HIDE DEF g
    <3> QED BY <3>1, ReadsOnlyLater
  <2>3. P(g, 0)
    BY <2>2
  <2> QED BY <2>3
<1>3. \A m \in Nat : m \in S => m + 1 \in S
  <2> SUFFICES ASSUME NEW m \in Nat, m \in S, m + 1 <= n PROVE \E g : P(g, m + 1)
    <3> HIDE DEF P, n
    <3> QED OBVIOUS
  <2>1. PICK g : P(g, m)
    BY <1>1
  <2> DEFINE h == [i \in From(m + 1) |-> IF i = n - m THEN ReadOn(t, i, g) ELSE g[i]]
  <2>2. From(m + 1) \subseteq 1..n + 1 /\ \A i \in From(m + 1) : i = n - m \/ i \in From(m)
    BY <1>1
  <2>3. \A i \in From(m + 1) : \A j \in i + 1..n + 1 : g[j] = h[j]
    <3> TAKE i \in From(m + 1)
    <3> TAKE j \in i + 1..n + 1
    <3>1. j \in From(m + 1) /\ j # n - m
      BY <1>1
    <3> QED BY <3>1
  <2>4. \A i \in From(m + 1) : ReadOn(t, i, g) = ReadOn(t, i, h)
    <3> TAKE i \in From(m + 1)
    <3>1. i \in 1..n + 1 /\ \A j \in i + 1..n + 1 : g[j] = h[j]
      BY <2>2, <2>3
    <3> HIDE DEF h
    <3> QED BY <3>1, ReadsOnlyLater
  <2>5. \A i \in From(m + 1) : h[i] = ReadOn(t, i, h)
    <3> TAKE i \in From(m + 1)
    <3>1. CASE i = n - m
      BY <2>4, <3>1
    <3>2. CASE i # n - m
      <4>1. i \in From(m) /\ h[i] = g[i]
        BY <2>2, <3>2
      <4>2. g[i] = ReadOn(t, i, g)
        BY <2>1, <4>1
      <4> QED BY <2>4, <4>1, <4>2
    <3> QED BY <3>1, <3>2
  <2>6. P(h, m + 1)
    <3>1. h = [i \in From(m + 1) |-> h[i]]
      OBVIOUS
    <3> HIDE DEF h
    <3> QED BY <2>5, <3>1
  <2> QED BY <2>6
<1>4. n \in S
  <2> HIDE DEF S
  <2> QED BY <1>1, <1>2, <1>3, SetInduction
<1> DEFINE Q(g) == g = [i \in 1..n + 1 |-> ReadOn(t, i, g)]
<1>5. \E g : Q(g)
  <2>1. From(n) = 1..n + 1
    BY <1>1
  <2> QED BY <1>4, <2>1
<1>6. Readings(t) = CHOOSE g : Q(g)
  BY DEF Readings
<1>7. Q(Readings(t))
  <2> HIDE DEF Q
  <2> QED BY <1>5, <1>6
<1> QED BY <1>7

LEMMA LexemesAreTokens ==
  ASSUME NEW t \in Seq(STRING), NEW i \in 1..Len(t), NEW j \in Ends(t, i)
  PROVE  TokenOf(SubSeq(t, i, j)) \in Tokens
<1> DEFINE s == SubSeq(t, i, j)
<1>1. j \in i..Len(t) /\ Spelled(s) # {}
  BY DEF Ends
<1>2. KindOf(s) \in Kinds
  BY <1>1 DEF KindOf, Spelled
<1>3. s \in Seq(STRING) /\ Len(s) \in Nat
  BY <1>1
<1> HIDE DEF s
<1>4. SubSeq(s, 2, Len(s) - 1) \in Seq(STRING)
  <2>1. \A k \in 2..Len(s) - 1 : s[k] \in STRING
    BY <1>3
  <2> QED BY <1>3, <2>1
<1>5. TokenOf(s) \in Tokens
  BY <1>2, <1>3, <1>4 DEF TokenOf, Token, Tokens, Kept
<1> QED BY <1>5 DEF s

LEMMA ReadingTyped ==
  ASSUME NEW t \in Seq(STRING)
  PROVE  \A i \in 1..Len(t) + 1 : Readings(t)[i] \in Results
<1> DEFINE n == Len(t)
           R == Readings(t)
           S == {m \in Nat : m <= n => \A i \in n + 1 - m..n + 1 : R[i] \in Results}
<1>1. n \in Nat /\ \A i \in 1..n + 1 : R[i] = ReadOn(t, i, R)
  BY ReadingUnfolds
<1>2. 0 \in S
  <2>1. EOF \in Tokens /\ "SUCCESS" \in Errors
    BY DEF EOF, Token, Tokens, Kinds, Errors
  <2>2. ReadOn(t, n + 1, R) \in Results
    BY <1>1, <2>1 DEF ReadOn, Results
  <2>3. R[n + 1] \in Results
    BY <1>1, <2>2
  <2> QED BY <1>1, <2>3
<1>3. \A m \in Nat : m \in S => m + 1 \in S
  <2> SUFFICES ASSUME NEW m \in Nat, m + 1 <= n, \A i \in n + 1 - m..n + 1 : R[i] \in Results
               PROVE  R[n - m] \in Results
    BY <1>1
  <2> DEFINE i == n - m
  <2>1. i \in 1..n /\ i \in 1..n + 1 /\ \A j \in i + 1..n + 1 : R[j] \in Results
    BY <1>1
  <2>2. R[i] = ReadOn(t, i, R)
    BY <1>1, <2>1
  <2> SUFFICES ReadOn(t, i, R) \in Results
    BY <2>2
  <2> HIDE DEF i, R
  <2>3. CASE t[i] \in Blanks
    BY <2>1, <2>3 DEF ReadOn
  <2>4. CASE t[i] \notin Blanks /\ Ends(t, i) = {}
    BY <2>1, <2>4 DEF ReadOn, Results, Errors
  <2>5. CASE t[i] \notin Blanks /\ Ends(t, i) # {}
    <3>1. Longest(t, i) \in Ends(t, i) /\ Longest(t, i) + 1 \in i + 1..n + 1
      BY <2>1, <2>5, LongestIsThere
    <3>2. TokenOf(SubSeq(t, i, Longest(t, i))) \in Tokens /\ R[Longest(t, i) + 1] \in Results
      BY <2>1, <3>1, LexemesAreTokens
    <3> QED BY <2>1, <2>5, <3>2 DEF ReadOn, Results
  <2> QED BY <2>3, <2>4, <2>5
<1>4. n \in S
  <2> HIDE DEF S
  <2> QED BY <1>1, <1>2, <1>3, SetInduction
<1> QED BY <1>1, <1>4

(* How the reading goes on over blanks and lexemes, and where it stops.    *)
LEMMA BlanksAreSkipped ==
  ASSUME text \in Seq(STRING), NEW i \in 1..Len(text) + 1, NEW q \in i..Len(text) + 1,
         \A k \in i..q - 1 : text[k] \in Blanks
  PROVE  Readings(text)[i] = Readings(text)[q]
<1> DEFINE R == Readings(text)
           S == {m \in Nat : m <= q - i => R[i] = R[i + m]}
<1>1. 0 \in S
  OBVIOUS
<1>2. \A m \in Nat : m \in S => m + 1 \in S
  <2> SUFFICES ASSUME NEW m \in Nat, m + 1 <= q - i, R[i] = R[i + m] PROVE R[i] = R[i + (m + 1)]
    OBVIOUS
  <2>1. i + m \in i..q - 1 /\ i + m \in 1..Len(text) + 1 /\ ~ (i + m > Len(text)) /\ (i + m) + 1 = i + (m + 1)
    OBVIOUS
  <2>2. R[i + m] = ReadOn(text, i + m, R)
    BY <2>1, ReadingUnfolds
  <2>3. ReadOn(text, i + m, R) = R[(i + m) + 1]
    BY <2>1 DEF ReadOn
  <2> QED BY <2>1, <2>2, <2>3
<1>3. q - i \in S
  <2>1. q - i \in Nat
    OBVIOUS
  <2> HIDE DEF S
  <2> QED BY <1>1, <1>2, <2>1, SetInduction
<1>4. i + (q - i) = q
  OBVIOUS
<1> QED BY <1>3, <1>4

LEMMA LexemeIsRead ==
  ASSUME text \in Seq(STRING), NEW q, NEW r, NEW type, LexemeAt(q, r, type)
  PROVE  LET token == Token(type, Kept(type, SubSeq(text, q, r - 1))) IN
         /\ Readings(text)[q].tokens = <<token>> \o Readings(text)[r].tokens
         /\ Readings(text)[q].error = Readings(text)[r].error
         /\ token \in Tokens
<1> DEFINE R == Readings(text)
           s == SubSeq(text, q, r - 1)
<1>1. /\ q \in 1..Len(text) /\ r \in q + 1..Len(text) + 1 /\ text[q] \notin Blanks /\ ~ (q > Len(text))
      /\ Spelled(s) = {type} /\ \A j \in r..Len(text) : Spelled(SubSeq(text, q, j)) = {}
  BY DEF LexemeAt
<1>2. r - 1 \in Ends(text, q) /\ \A k \in Ends(text, q) : k <= r - 1 /\ k \in Nat
  <2>1. r - 1 \in q..Len(text)
    BY <1>1
  <2>2. \A k \in q..Len(text) : k \in r..Len(text) \/ (k <= r - 1 /\ k \in Nat)
    BY <1>1
  <2> QED BY <1>1, <2>1, <2>2 DEF Ends
<1>3. Longest(text, q) = r - 1
  BY <1>1, <1>2, LongestIsThere
<1>4. KindOf(s) = type
  BY <1>1 DEF KindOf
<1>5. R[q] = ReadOn(text, q, R)
  BY <1>1, ReadingUnfolds
<1>6. (r - 1) + 1 = r
  BY <1>1
<1>7. ReadOn(text, q, R) = [tokens |-> <<TokenOf(s)>> \o R[r].tokens, error |-> R[r].error]
  BY <1>1, <1>2, <1>3, <1>6 DEF ReadOn
<1>8. TokenOf(s) = Token(type, Kept(type, s))
  BY <1>4 DEF TokenOf
<1>9. TokenOf(s) \in Tokens
  BY <1>1, <1>2, LexemesAreTokens
<1> QED BY <1>5, <1>7, <1>8, <1>9

LEMMA NothingIsRead ==
  ASSUME text \in Seq(STRING), NEW q, NoLexemeAt(q)
  PROVE  Readings(text)[q].error = IF text[q] = Quote THEN "FORGOTTEN_QUATATION_MARK" ELSE "UNKNOWN_CHAR"
<1>1. q \in 1..Len(text) /\ text[q] \notin Blanks /\ ~ (q > Len(text)) /\ Ends(text, q) = {}
  BY DEF NoLexemeAt, Ends
<1>2. Readings(text)[q] = ReadOn(text, q, Readings(text))
  BY <1>1, ReadingUnfolds
<1> QED BY <1>1, <1>2 DEF ReadOn

LEMMA EndIsRead ==
  ASSUME text \in Seq(STRING)
  PROVE  Readings(text)[Len(text) + 1] = [tokens |-> <<EOF>>, error |-> "SUCCESS"]
<1>1. Len(text) + 1 \in 1..Len(text) + 1 /\ Len(text) + 1 > Len(text)
  OBVIOUS
<1>2. Readings(text)[Len(text) + 1] = ReadOn(text, Len(text) + 1, Readings(text))
  BY <1>1, ReadingUnfolds
<1> QED BY <1>1, <1>2 DEF ReadOn

-----------------------------------------------------------------------------
(* What is in the list, and what is still to be read.  While the lexer is
   in the text the one in front of the other is the text's reading.        *)
Here == Readings(text)[IF p > Len(text) THEN Len(text) + 1 ELSE p]

AsRead ==
  /\ pc = "start" => p = 1 /\ count = 0
  /\ pc = "loop" /\ ~starved => /\ Reading(text).tokens = Listed \o Here.tokens
                                /\ Reading(text).error = Here.error
  /\ pc = "discard" /\ ~starved => error = Reading(text).error /\ error # "SUCCESS"
  /\ LongestLexemes

LEMMA PushAppends ==
  ASSUME IInv, pc = "loop", NEW token \in Tokens, NEW next, Push(token, next), ~starved'
  PROVE  pc' = next /\ ~starved /\ Listed \in Seq(Tokens) /\ Listed' = Append(Listed, token)
<1>0. /\ Cells(data, capacity) /\ capacity \in Nat /\ count \in Nat /\ count <= capacity
      /\ data # NoBlock => \A i \in 0..count - 1 : data[i] \in Tokens
      /\ data = NoBlock => count = 0 /\ capacity = 0
      /\ starved \in BOOLEAN
  BY DEF IInv, TypeOK, ListHolds, StringsCounted, Cells
<1>1. pc' = next /\ ~starved /\ (PushInPlace(token) \/ PushGrowing(token))
  BY <1>0 DEF Push, PushInPlace, PushGrowing, PushDropped
<1>2. \A i \in 0..count - 1 : data[i] \in Tokens
  BY <1>0
<1>3. Listed \in [1..count -> Tokens]
  <2>1. \A i \in 1..count : i - 1 \in 0..count - 1
    BY <1>0
  <2> QED BY <1>2, <2>1 DEF Listed
<1>4. Listed \in Seq(Tokens) /\ Len(Listed) = count
  BY <1>0, <1>3
<1>5. count' = count + 1 /\ data'[count] = token /\ \A i \in 0..count - 1 : data'[i] = data[i]
  <2>1. CASE PushInPlace(token)
    <3>1. count < capacity /\ data' = [data EXCEPT ![count] = token] /\ count' = count + 1
      BY <1>0, <2>1 DEF PushInPlace
    <3>2. data \in [0..capacity - 1 -> Tokens \union {Undef}]
      BY <1>0, <3>1 DEF Cells
    <3> QED BY <1>0, <3>1, <3>2
  <2>2. CASE PushGrowing(token)
    <3> DEFINE n == capacity'
               old == Grown(data, n)
    <3>1. n \in Nat /\ count < n /\ count' = count + 1 /\ data' = [old EXCEPT ![count] = token]
      BY <1>0, <2>2 DEF PushGrowing, NewCapacity
    <3>2. old = [i \in 0..n - 1 |-> IF i < count THEN data[i] ELSE Undef]
      BY DEF Grown
    <3> HIDE DEF n, old
    <3>3. \A i \in 0..count - 1 : i \in 0..n - 1 /\ i < count /\ i # count
      BY <1>0, <3>1
    <3>4. count \in 0..n - 1
      BY <1>0, <3>1
    <3> QED BY <3>1, <3>2, <3>3, <3>4
  <2> QED BY <1>1, <2>1, <2>2
<1>6. Listed' = [i \in 1..count + 1 |-> IF i = count + 1 THEN token ELSE Listed[i]]
  <2>1. Listed' = [i \in 1..count + 1 |-> data'[i - 1]]
    BY <1>5 DEF Listed
  <2>2. \A i \in 1..count + 1 : data'[i - 1] = IF i = count + 1 THEN token ELSE Listed[i]
    <3> TAKE i \in 1..count + 1
    <3>1. CASE i = count + 1
      <4>1. i - 1 = count
        BY <1>0, <3>1
      <4> QED BY <1>5, <3>1, <4>1
    <3>2. CASE i # count + 1
      <4>1. i \in 1..count /\ i - 1 \in 0..count - 1
        BY <1>0, <3>2
      <4> QED BY <1>5, <3>2, <4>1 DEF Listed
    <3> QED BY <3>1, <3>2
  <2> QED BY <2>1, <2>2
<1>7. Append(Listed, token) = [i \in 1..count + 1 |-> IF i = count + 1 THEN token ELSE Listed[i]]
  <2> DEFINE L == Listed
  <2>1. L \in Seq(Tokens) /\ Len(L) = count
    BY <1>4
  <2> HIDE DEF L
  <2>2. Append(L, token) \in Seq(Tokens) /\ Len(Append(L, token)) = count + 1
    BY <2>1
  <2>3. Append(L, token) = [i \in 1..count + 1 |-> Append(L, token)[i]]
    <3> DEFINE A == Append(L, token)
    <3>1. A \in Seq(Tokens) /\ Len(A) = count + 1
      BY <2>2
    <3> HIDE DEF A
    <3>2. A \in [1..count + 1 -> Tokens]
      BY <3>1
    <3>3. A = [i \in 1..count + 1 |-> A[i]]
      BY <3>2
    <3> QED BY <3>3 DEF A
  <2>4. \A i \in 1..count + 1 : Append(L, token)[i] = IF i = count + 1 THEN token ELSE L[i]
    BY <2>1
  <2> QED BY <2>3, <2>4 DEF L
<1> QED BY <1>1, <1>4, <1>6, <1>7

LEMMA AppendBefore ==
  ASSUME NEW S, NEW a \in Seq(S), NEW x \in S, NEW b \in Seq(S)
  PROVE  Append(a, x) \o b = a \o (<<x>> \o b)
  OBVIOUS

(* A turn of the loop takes the next lexeme of the reading.                *)
LEMMA TurnReads ==
  ASSUME IInv, AsRead, pc = "loop", text \in Seq(STRING), text' = text,
         NEW q, NEW r, NEW type, LexemeAt(q, r, type), Here = Readings(text)[q],
         Push(Token(type, Kept(type, SubSeq(text, q, r - 1))), "loop"), p' = r
  PROVE  AsRead'
<1> DEFINE token == Token(type, Kept(type, SubSeq(text, q, r - 1)))
           R == Readings(text)
<1>1. /\ R[q].tokens = <<token>> \o R[r].tokens /\ R[q].error = R[r].error
      /\ token \in Tokens
  BY LexemeIsRead
<1>2. r \in 1..Len(text) + 1
  BY DEF LexemeAt
<1>3. Here' = R[r]
  BY <1>2 DEF Here
<1>4. pc' = "loop" \/ starved'
  <2>1. starved \in BOOLEAN
    BY DEF IInv, TypeOK
  <2> QED BY <2>1 DEF Push
<1>5. ASSUME ~starved' PROVE /\ Reading(text).tokens = Listed' \o Here'.tokens
                             /\ Reading(text).error = Here'.error
                             /\ pc' = "loop"
  <2>1. pc' = "loop" /\ ~starved /\ Listed \in Seq(Tokens) /\ Listed' = Append(Listed, token)
    <3> HIDE DEF token
    <3> QED BY <1>1, <1>5, PushAppends DEF token
  <2>2. Reading(text).tokens = Listed \o R[q].tokens /\ Reading(text).error = R[q].error
    BY <2>1 DEF AsRead
  <2>3. R[r].tokens \in Seq(Tokens)
    BY <1>2, ReadingTyped DEF Results
  <2> HIDE DEF token, R
  <2>4. Append(Listed, token) \o R[r].tokens = Listed \o (<<token>> \o R[r].tokens)
    <3>1. \A b \in Seq(Tokens) : Append(Listed, token) \o b = Listed \o (<<token>> \o b)
      BY <1>1, <2>1, AppendBefore
    <3> QED BY <2>3, <3>1
  <2> QED BY <1>1, <1>3, <2>1, <2>2, <2>4
<1>6. pc' \in {"loop", "crashed"}
  BY DEF Push
<1> QED BY <1>5, <1>6 DEF AsRead, LongestLexemes

(* A turn that ends the loop with an error, and leaves the list alone or
   gives up what it has pushed.                                            *)
LEMMA ErrorIsRead ==
  ASSUME AsRead, starved \in BOOLEAN, starved => starved', pc = "loop", text' = text,
         NEW q, Here = Readings(text)[q], error' # "SUCCESS",
         pc' \in {"discard", "return", "crashed"},
         pc' # "crashed" => error' = Readings(text)[q].error
  PROVE  AsRead'
<1>1. ~starved' => Reading(text).error = Readings(text)[q].error
  BY DEF AsRead
<1> QED BY <1>1 DEF AsRead, LongestLexemes

LEMMA LexReads ==
  ASSUME IInv, AsRead, Lex
  PROVE  AsRead'
<1> DEFINE q == Past(Blanks, p)
<1>1. text \in Seq(STRING) /\ (\A i \in 1..Len(text) : text[i] # Zero) /\ pc = "loop" /\ p \in 1..Len(text)
  BY TextAssumption DEF IInv, TypeOK, Lex, Zero
<1>2. /\ q \in p..Len(text) + 1
      /\ \A k \in p..q - 1 : text[k] \in Blanks
      /\ q = Len(text) + 1 \/ text[q] \notin Blanks
  BY <1>1, PastIsThere
<1>3. UnaryMinus(q) \/ Word(q) \/ Number(q) \/ String(q) \/ StringUnclosed(q)
      \/ Symbol(q) \/ LoneBang(q) \/ Unknown(q) \/ TrailingBlanks(q)
  BY DEF Lex
<1> HIDE DEF q
<1>4. Here = Readings(text)[q]
  BY <1>1, <1>2, BlanksAreSkipped DEF Here
<1>5. q \in 1..Len(text) + 1 /\ starved \in BOOLEAN
  BY <1>1, <1>2 DEF IInv, TypeOK
<1>6. ASSUME At(q) # Zero PROVE q \in 1..Len(text) /\ At(q) = text[q]
  BY <1>6 DEF At
<1>7. Zero \notin Letters /\ Zero \notin Digits /\ Zero \in Known
  BY CharAssumption DEF Zero, Known
<1>8. ASSUME NEW r, NEW type, type # "STRING", LexemeAt(q, r, type), Turn(type, q, r) PROVE AsRead'
  <2>1. Chars(q, r) = SubSeq(text, q, r - 1) /\ Kept(type, SubSeq(text, q, r - 1)) = SubSeq(text, q, r - 1)
    BY <1>1, <1>8, CharsArePiece DEF LexemeAt, Kept
  <2> QED BY <1>1, <1>4, <1>8, <2>1, TurnReads DEF Turn
<1>9. CASE UnaryMinus(q)
  <2>1. LexemeAt(q, q + 2, "UNARY_MINUS")
    BY <1>1, <1>6, <1>9, SignsAreNotZero, UnaryMinusIsLexeme DEF UnaryMinus, IsUnaryMinus
  <2> QED BY <1>8, <1>9, <2>1 DEF UnaryMinus
<1>10. CASE Word(q)
  <2> DEFINE r == Past(Letters \union Digits, q)
             type == IF Chars(q, r) \in Keywords THEN "KEYWORD" ELSE "IDENTIFIER"
  <2>1. q \in 1..Len(text) /\ text[q] \in Letters /\ ~ IsUnaryMinus(q)
    BY <1>6, <1>7, <1>10 DEF Word
  <2>2. LexemeAt(q, r, type)
    BY <1>1, <2>1, WordIsLexeme
  <2>3. CASE Turn(type, q, r)
    <3>1. type # "STRING"
      OBVIOUS
    <3> HIDE DEF type, r
    <3> QED BY <1>8, <2>2, <2>3, <3>1
  <2>4. CASE pc' = "discard" /\ error' = "MEMORY_ALLOCATION_ERROR" /\ starved' = TRUE
    BY <2>4 DEF AsRead, LongestLexemes
  <2> QED BY <1>10, <2>3, <2>4 DEF Word
<1>11. CASE Number(q)
  <2>1. LexemeAt(q, Past(Digits, q), "NUMBER")
    BY <1>1, <1>6, <1>7, <1>11, NumberIsLexeme DEF Number
  <2> QED BY <1>8, <1>11, <2>1 DEF Number
<1>12. ASSUME At(q) = Quote
       PROVE  /\ q \in 1..Len(text) /\ text[q] = Quote
              /\ StringInside(q) \in q + 1..Len(text) + 1
  <2>1. q \in 1..Len(text) /\ text[q] = Quote
    BY <1>6, <1>12, SignsAreNotZero
  <2>2. q + 1 \in 1..Len(text) + 1
    BY <2>1
  <2> QED BY <1>1, <2>1, <2>2, PastIsThere DEF StringInside
<1>13. CASE String(q)
  <2> DEFINE e == StringInside(q)
  <2>1. At(q) = Quote /\ At(e) = Quote /\ Push(Token("STRING", Chars(q + 1, e)), "loop") /\ p' = e + 1
        /\ text' = text
    BY <1>13 DEF String
  <2>2. e \in q + 1..Len(text) /\ q \in 1..Len(text) /\ text[q] = Quote
    BY <1>12, <2>1, SignsAreNotZero DEF At
  <2>3. LexemeAt(q, e + 1, "STRING")
    BY <1>1, <2>2, StringIsLexeme
  <2> HIDE DEF e
  <2>4. Chars(q + 1, e) = Kept("STRING", SubSeq(text, q, (e + 1) - 1))
    <3> DEFINE s == SubSeq(text, q, e)
    <3>1. s \in Seq(STRING) /\ Len(s) = e - q + 1 /\ \A k \in 1..e - q + 1 : s[k] = text[q + k - 1]
      BY <1>1, <2>2, PieceIs
    <3>2. (e + 1) - 1 = e /\ Len(s) - 1 = e - q /\ e - q \in Nat /\ e - q >= 1
      BY <2>2, <3>1
    <3>3. Kept("STRING", s) = SubSeq(s, 2, e - q)
      BY <3>2 DEF Kept
    <3> HIDE DEF s
    <3>4. SubSeq(s, 2, e - q) = [k \in 1..(e - q) - 2 + 1 |-> s[2 + k - 1]]
      BY <3>1, <3>2
    <3>5. (e - q) - 2 + 1 = e - (q + 1)
      BY <2>2
    <3>6. \A k \in 1..e - (q + 1) : At(q + 1 + k - 1) = s[2 + k - 1]
      <4> TAKE k \in 1..e - (q + 1)
      <4>1. 2 + k - 1 \in 1..e - q + 1 /\ q + (2 + k - 1) - 1 = q + 1 + k - 1 /\ q + 1 + k - 1 \in 1..Len(text)
        BY <1>1, <2>2
      <4>2. s[2 + k - 1] = text[q + (2 + k - 1) - 1]
        BY <3>1, <4>1
      <4> QED BY <4>1, <4>2 DEF At
    <3>7. Chars(q + 1, e) = SubSeq(s, 2, e - q)
      BY <3>4, <3>5, <3>6 DEF Chars
    <3> QED BY <3>2, <3>3, <3>7 DEF s
  <2> QED BY <1>1, <1>4, <2>1, <2>3, <2>4, TurnReads
<1>14. CASE StringUnclosed(q)
  <2>1. At(q) = Quote /\ At(StringInside(q)) = Zero /\ error' = "FORGOTTEN_QUATATION_MARK" /\ text' = text
    BY <1>14 DEF StringUnclosed
  <2>2. StringInside(q) = Len(text) + 1
    BY <1>1, <1>12, <2>1 DEF At
  <2>3. Readings(text)[q].error = "FORGOTTEN_QUATATION_MARK"
    BY <1>1, <1>12, <2>1, <2>2, UnclosedIsNoLexeme, NothingIsRead
  <2>4. pc' \in {"discard", "crashed"} /\ (starved => starved')
    BY <1>5, <1>14 DEF StringUnclosed, Push, PushInPlace, PushGrowing, PushDropped, listVars
  <2> QED BY <1>1, <1>4, <1>5, <2>1, <2>3, <2>4, ErrorIsRead
<1>15. CASE Symbol(q)
  <2>1. At(q) \in Singles \union Pairs \union {Bang}
    BY <1>15 DEF Symbol
  <2>2. q \in 1..Len(text) /\ text[q] = At(q)
    BY <1>6, <2>1, SignsAreNotZero
  <2>3. CASE (At(q) \in Singles \/ (At(q) \in Pairs /\ At(q + 1) # "=")) /\ Turn("SYMBOL", q, q + 1)
    <3>1. LexemeAt(q, q + 1, "SYMBOL")
      BY <1>1, <2>2, <2>3, OneSignIsLexeme
    <3> QED BY <1>8, <2>3, <3>1
  <2>4. CASE At(q) \in Pairs \union {Bang} /\ At(q + 1) = "=" /\ Turn("SYMBOL", q, q + 2)
    <3>1. q + 1 \in 1..Len(text) /\ text[q + 1] = "="
      BY <2>4, SignsAreNotZero DEF At
    <3>2. LexemeAt(q, q + 2, "SYMBOL")
      BY <1>1, <2>2, <2>4, <3>1, TwoSignsAreLexeme
    <3> QED BY <1>8, <2>4, <3>2
  <2> QED BY <1>15, <2>3, <2>4 DEF Symbol
<1>16. CASE LoneBang(q)
  <2>1. At(q) = Bang /\ At(q + 1) # "=" /\ text' = text /\ starved' = starved
        /\ pc' = "discard" /\ error' = "UNKNOWN_CHAR"
    BY <1>16 DEF LoneBang
  <2>2. q \in 1..Len(text) /\ text[q] = Bang
    BY <1>6, <2>1, SignsAreNotZero
  <2>3. Readings(text)[q].error = "UNKNOWN_CHAR"
    BY <1>1, <2>1, <2>2, LoneBangIsNoLexeme, NothingIsRead, Classes
  <2> QED BY <1>1, <1>4, <1>5, <2>1, <2>3, ErrorIsRead
<1>17. CASE Unknown(q)
  <2>1. At(q) \notin Known /\ text' = text /\ starved' = starved
        /\ pc' = "return" /\ error' = "UNKNOWN_CHAR"
    BY <1>17 DEF Unknown
  <2>2. q \in 1..Len(text) /\ text[q] \notin Known /\ text[q] # Quote /\ text[q] \notin Blanks
    BY <1>2, <1>6, <1>7, <2>1 DEF Known
  <2>3. Readings(text)[q].error = "UNKNOWN_CHAR"
    BY <1>1, <2>2, UnknownIsNoLexeme, NothingIsRead
  <2> QED BY <1>1, <1>4, <1>5, <2>1, <2>3, ErrorIsRead
<1>18. CASE TrailingBlanks(q)
  <2>1. q = Len(text) + 1
    BY <1>1, <1>5, <1>18 DEF TrailingBlanks, At
  <2>2. p' = Len(text) + 2 /\ UNCHANGED <<text, pc, starved, data, count>>
    BY <1>1, <1>18, <2>1 DEF TrailingBlanks, listVars
  <2>3. Here' = Readings(text)[q] /\ Listed' = Listed
    BY <1>1, <2>1, <2>2 DEF Here, Listed
  <2> QED BY <1>1, <1>4, <2>2, <2>3 DEF AsRead, LongestLexemes
<1> QED BY <1>3, <1>9, <1>10, <1>11, <1>13, <1>14, <1>15, <1>16, <1>17, <1>18

(* At the end of the text the end is read, and nothing is left.            *)
LEMMA EndReads ==
  ASSUME IInv, AsRead, End
  PROVE  AsRead'
<1>1. /\ text \in Seq(STRING) /\ pc = "loop" /\ p > Len(text) /\ Push(EOF, "return") /\ text' = text
      /\ error' = error /\ error = "SUCCESS" /\ EOF \in Tokens /\ starved \in BOOLEAN
  BY TextAssumption DEF IInv, TypeOK, ErrorsHere, End, EOF, Token, Tokens, Kinds
<1>2. Here = [tokens |-> <<EOF>>, error |-> "SUCCESS"]
  BY <1>1, EndIsRead DEF Here
<1>3. ASSUME ~starved' PROVE /\ Reading(text).tokens = Listed'
                             /\ Reading(text).error = error'
  <2>1. ~starved /\ Listed \in Seq(Tokens) /\ Listed' = Append(Listed, EOF)
    BY <1>1, <1>3, PushAppends
  <2>2. Reading(text).tokens = Listed \o <<EOF>> /\ Reading(text).error = "SUCCESS"
    BY <1>1, <1>2, <2>1 DEF AsRead
  <2>3. Append(Listed, EOF) = Listed \o <<EOF>>
    BY <1>1, <2>1
  <2> QED BY <1>1, <2>1, <2>2, <2>3
<1>4. pc' \in {"return", "crashed"}
  BY <1>1 DEF Push
<1> QED BY <1>1, <1>3, <1>4 DEF AsRead, LongestLexemes

LEMMA ReadingInvariance == Spec => []AsRead
<1>1. Init => AsRead
  BY DEF Init, AsRead, LongestLexemes
<1>2. IInv /\ AsRead /\ [Next]_vars => AsRead'
  <2> SUFFICES ASSUME IInv, AsRead, [Next]_vars PROVE AsRead'
    OBVIOUS
  <2>1. CASE Load
    <3>1. UNCHANGED <<text, p, starved, data, count>> /\ pc = "start" /\ p = 1 /\ count = 0
      BY <2>1 DEF Load, AsRead, listVars
    <3>2. CASE pc' = "loop"
      <4>1. text \in Seq(STRING)
        BY TextAssumption DEF IInv, TypeOK
      <4>2. Here' = Reading(text) /\ Listed' = << >>
        BY <3>1, <4>1, EndIsRead DEF Here, Reading, Listed
      <4>3. Reading(text).tokens \in Seq(Tokens)
        BY <4>1, ReadingTyped DEF Reading, Results
      <4>4. << >> \o Reading(text).tokens = Reading(text).tokens
        BY <4>3
      <4> QED BY <3>1, <3>2, <4>2, <4>4 DEF AsRead, LongestLexemes
    <3>3. CASE pc' = "return" /\ error' = "LOADING_EXPRESSION_ERROR"
      BY <3>3 DEF AsRead, LongestLexemes
    <3> QED BY <2>1, <3>2, <3>3 DEF Load
  <2>2. CASE ReadBehindBuffer
    BY <2>2 DEF ReadBehindBuffer, AsRead, LongestLexemes
  <2>3. CASE Discard
    <3>1. pc = "discard" /\ UNCHANGED <<text, error, starved>> /\ pc' \in {"return", "crashed"}
      BY <2>3 DEF Discard, token_list_dtor
    <3> QED BY <3>1 DEF AsRead, LongestLexemes
  <2>4. CASE Release
    <3>1. pc' \in {"exit", "crashed"}
      BY <2>4 DEF Release, token_list_dtor
    <3> QED BY <3>1 DEF AsRead, LongestLexemes
  <2>5. CASE UNCHANGED vars
    <3>1. Here' = Here /\ Listed' = Listed
      BY <2>5 DEF vars, Here, Listed
    <3> QED BY <2>5, <3>1 DEF vars, AsRead, LongestLexemes
  <2> QED BY <2>1, <2>2, <2>3, <2>4, <2>5, LexReads, EndReads DEF Next
<1> QED BY <1>1, <1>2, Invariance, PTL DEF Spec

-----------------------------------------------------------------------------
(* The variables keep their types; the pointer never lies more than two
   characters behind the text's last.                                      *)
THEOREM TypesHold == Spec => []TypeOK
  BY Invariance, PTL DEF IInv

(* Every cell the list counts has been written and lies in its array
   (token_list_push, lexer.cpp), whichever of its allocations fail.        *)
THEOREM ListHoldsItsTokens == Spec => []ListHolds
  BY Invariance, PTL DEF IInv

(* The pointer leaves a text by one character only, and only one that ends
   in a blank (skip_spaces_buffer and the p++ behind the loop's end).      *)
THEOREM PointerStaysInText == Spec => []StaysInText
  BY Invariance, PTL DEF IInv

(* Unless an allocation fails, everything is released once, or twice after
   exactly the errors that free the list themselves.                       *)
THEOREM EverythingReleased == Spec => []Released
  BY Invariance, PTL DEF IInv

(* The tokens are the longest lexemes of the text and the error is that of
   its first place without one (the tests of lexical_analysis in their
   order), whatever the text: maximal munch.                               *)
THEOREM LexerReadsLongestLexemes == Spec => []LongestLexemes
  BY ReadingInvariance, PTL DEF AsRead
=============================================================================
