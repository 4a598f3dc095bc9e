------------------------------- MODULE Lexer -------------------------------
(***************************************************************************)
(* The lexer of source/frontend/lexer.cpp and the beginning of the         *)
(* frontend that calls it: from the characters of the program to the list  *)
(* of tokens, with the buffer the text is read into and the growing array  *)
(* the tokens are pushed on.                                               *)
(*                                                                         *)
(* data is the array: a function on 0..capacity-1, or NoBlock for the NULL *)
(* pointer.  One turn of the loop is a step.  Every allocation may fail;   *)
(* where the result is not looked at, the process writes through NULL and  *)
(* ends ("crashed").                                                       *)
(***************************************************************************)
EXTENDS Naturals, Sequences, FiniteSets

CONSTANTS
  Texts,      (* the programs: sequences of characters                      *)
  Letters,    (* isalpha, and '_'                                           *)
  Digits,     (* isdigit                                                    *)
  Blanks,     (* what skip_spaces_buffer skips                              *)
  Keywords,   (* the words of is_token_keyword                              *)
  Undef       (* an indeterminate cell                                      *)

VARIABLES
  text,       (* the program in input_program.txt                           *)
  pc,         (* where the frontend is                                      *)
  p,          (* the position of the pointer p, from 1                      *)
  buffer,     (* "none" | "live" | "freed"                                  *)
  data,       (* token_list->data                                           *)
  count,      (* token_list->count                                          *)
  capacity,   (* token_list->capasity                                       *)
  error,      (* the result of lexical_analysis                             *)
  strings,    (* ghost: the strings of tokens that are allocated            *)
  starved     (* ghost: an allocation has failed                            *)

listVars == <<data, count, capacity, strings>>
vars     == <<text, pc, p, buffer, data, count, capacity, error, strings, starved>>

NoBlock == << >>

Quote   == "\""
Singles == {";", "{", "}", "(", ")", "+", "-", "*", "^", "/", "$", ","}
Pairs   == {"<", ">", "="}     \* tokens alone, and with a '=' behind
Bang    == "!"                 \* only with a '=' behind

Token(type, chars) == [type |-> type, chars |-> chars]

EOF == Token("EOF", << >>)

Errors == {"SUCCESS", "LOADING_EXPRESSION_ERROR", "MEMORY_ALLOCATION_ERROR",
           "FORGOTTEN_QUATATION_MARK", "UNKNOWN_CHAR"}

ASSUME TextAssumption == \A t \in Texts : t \in Seq(STRING) /\ \A i \in DOMAIN t : t[i] # "NUL"
ASSUME CharAssumption ==
  /\ Letters \intersect (Digits \union Blanks) = {} /\ Digits \intersect Blanks = {}
  /\ (Letters \union Digits \union Blanks) \intersect (Singles \union Pairs \union {Bang, Quote}) = {}
  /\ "u" \in Letters
  /\ "NUL" \notin Letters \union Digits \union Blanks
ASSUME KeywordAssumption ==
  \A w \in Keywords : w \in Seq(Letters \union Digits) /\ w # << >> /\ w[1] \in Letters

-----------------------------------------------------------------------------
(* The text.  The zero that ends it lies at Len(text) + 1.                 *)
Zero == "NUL"

At(i) == IF i \in 1..Len(text) THEN text[i] ELSE Zero

(* The first position from i on whose character is not of the class.       *)
Past(class, i) ==
  CHOOSE j \in i..Len(text) + 1 :
    /\ \A k \in i..j - 1 : text[k] \in class
    /\ j = Len(text) + 1 \/ text[j] \notin class

Chars(i, j) == [k \in 1..(j - i) |-> At(i + k - 1)]

-----------------------------------------------------------------------------
Init ==
  /\ text \in Texts
  /\ pc = "start"
  /\ p = 1
  /\ buffer = "none"
  /\ data = NoBlock /\ count = 0 /\ capacity = 0     \* token_list_ctor
  /\ error = "SUCCESS"
  /\ strings = 0
  /\ starved = FALSE

(* buffer_ctor: a file that cannot be read, or no memory for it.           *)
Load ==
  /\ pc = "start"
  /\ \/ buffer' = "live" /\ pc' = "loop" /\ UNCHANGED error
     \/ buffer' = buffer /\ pc' = "return" /\ error' = "LOADING_EXPRESSION_ERROR"
  /\ UNCHANGED <<text, p, starved, listVars>>

(* token_list_push of a token whose string has been allocated.  Without
   memory for a larger array the token is dropped: nobody looks at the -1. *)
Grown(block, n) == [i \in 0..n - 1 |-> IF i < count THEN block[i] ELSE Undef]

PushInPlace(token) ==
  /\ count # capacity
  /\ data' = [data EXCEPT ![count] = token]
  /\ count' = count + 1
  /\ UNCHANGED <<capacity, starved>>

(* Seeded fault: eight more cells at the first resize only.                *)
FaultNewCapacity == 8

NewCapacity == IF capacity = 0 THEN 8 ELSE capacity * 2

PushGrowing(token) ==
  /\ count = capacity
  /\ capacity' = NewCapacity
  /\ data' = [Grown(data, capacity') EXCEPT ![count] = token]
  /\ count' = count + 1
  /\ UNCHANGED starved

PushDropped ==
  /\ count = capacity
  /\ starved' = TRUE
  /\ UNCHANGED <<data, count, capacity>>

(* TOKEN_PUSH(make_token(...)), then on to label next.                     *)
Push(token, next) ==
  \/ /\ PushInPlace(token) \/ PushGrowing(token) \/ PushDropped
     /\ strings' = strings + 1
     /\ pc' = next
  \/ /\ starved' = TRUE
     /\ pc' = "crashed"
     /\ UNCHANGED listVars

(* token_list_dtor: count and capasity keep their values.                  *)
token_list_dtor(next) ==
  /\ UNCHANGED <<count, capacity>>
  /\ IF data = NoBlock /\ count > 0
     THEN pc' = "crashed" /\ UNCHANGED <<data, strings>>
     ELSE pc' = next /\ data' = NoBlock /\ strings' = strings - count

-----------------------------------------------------------------------------
(* A turn of the loop that pushes a token of the characters from q to r - 1
   and goes on at r.                                                       *)
Turn(type, q, r) ==
  /\ Push(Token(type, Chars(q, r)), "loop")
  /\ p' = r
  /\ UNCHANGED <<text, buffer, error>>

(* Seeded fault: any u is taken for the sign.                              *)
FaultIsUnaryMinus(q) == At(q) = "u" /\ At(q + 1) \notin Letters

IsUnaryMinus(q) == At(q) = "u" /\ At(q + 1) = "-"

UnaryMinus(q) == IsUnaryMinus(q) /\ Turn("UNARY_MINUS", q, q + 2)

Word(q) ==
  /\ At(q) \in Letters /\ ~IsUnaryMinus(q)
  /\ LET r == Past(Letters \union Digits, q) IN
       \/ Turn(IF Chars(q, r) \in Keywords THEN "KEYWORD" ELSE "IDENTIFIER", q, r)
       \/ /\ pc' = "discard" /\ error' = "MEMORY_ALLOCATION_ERROR" /\ starved' = TRUE
          /\ p' = r
          /\ UNCHANGED <<text, buffer, listVars>>

Number(q) == At(q) \in Digits /\ Turn("NUMBER", q, Past(Digits, q))

StringInside(q) == Past(STRING \ {Quote}, q + 1)

String(q) ==
  /\ At(q) = Quote
  /\ At(StringInside(q)) = Quote
  /\ Push(Token("STRING", Chars(q + 1, StringInside(q))), "loop")
  /\ p' = StringInside(q) + 1
  /\ UNCHANGED <<text, buffer, error>>

StringUnclosed(q) ==
  /\ At(q) = Quote
  /\ At(StringInside(q)) = Zero
  /\ Push(Token("STRING", Chars(q + 1, StringInside(q))), "discard")
  /\ p' = StringInside(q)
  /\ error' = "FORGOTTEN_QUATATION_MARK"
  /\ UNCHANGED <<text, buffer>>

(* Seeded fault: p += 2 for either form.                                   *)
FaultSymbol(q) ==
  \/ At(q) \in Singles /\ Turn("SYMBOL", q, q + 1)
  \/ /\ At(q) \in Pairs \/ (At(q) = Bang /\ At(q + 1) = "=")
     /\ Turn("SYMBOL", q, q + 2)

Symbol(q) ==
  \/ At(q) \in Singles /\ Turn("SYMBOL", q, q + 1)
  \/ At(q) \in Pairs \union {Bang} /\ At(q + 1) = "=" /\ Turn("SYMBOL", q, q + 2)
  \/ At(q) \in Pairs /\ At(q + 1) # "=" /\ Turn("SYMBOL", q, q + 1)

(* A '!' alone frees the list, any other unknown character does not.       *)
LoneBang(q) ==
  /\ At(q) = Bang /\ At(q + 1) # "="
  /\ pc' = "discard" /\ error' = "UNKNOWN_CHAR" /\ p' = q
  /\ UNCHANGED <<text, buffer, starved, listVars>>

Known == Letters \union Digits \union Singles \union Pairs \union {Bang, Quote, Zero}

(* Seeded fault: the buffer is not freed.                                  *)
FaultUnknown(q) ==
  /\ At(q) \notin Known
  /\ pc' = "return" /\ error' = "UNKNOWN_CHAR" /\ p' = q
  /\ UNCHANGED <<text, buffer, starved, listVars>>

Unknown(q) ==
  /\ At(q) \notin Known
  /\ buffer' = "freed"
  /\ pc' = "return" /\ error' = "UNKNOWN_CHAR" /\ p' = q
  /\ UNCHANGED <<text, starved, listVars>>

(* Seeded fault: no p++.                                                   *)
FaultTrailingBlanks(q) ==
  /\ At(q) = Zero
  /\ UNCHANGED vars

(* Blanks up to the end: p is advanced past the zero it stands on.         *)
TrailingBlanks(q) ==
  /\ At(q) = Zero
  /\ p' = q + 1
  /\ UNCHANGED <<text, pc, buffer, error, starved, listVars>>

Lex ==
  /\ pc = "loop" /\ p <= Len(text)
  /\ LET q == Past(Blanks, p) IN
       \/ UnaryMinus(q) \/ Word(q) \/ Number(q) \/ String(q) \/ StringUnclosed(q)
       \/ Symbol(q) \/ LoneBang(q) \/ Unknown(q) \/ TrailingBlanks(q)

(* The zero: the end of the text, or whatever byte lies behind the buffer
   after TrailingBlanks.                                                   *)
End ==
  /\ pc = "loop" /\ p > Len(text)
  /\ Push(EOF, "return")
  /\ buffer' = IF pc' = "return" THEN "freed" ELSE buffer
  /\ UNCHANGED <<text, p, error>>

(* Any other byte there: what is read from now on is not the program.      *)
ReadBehindBuffer ==
  /\ pc = "loop" /\ p > Len(text) + 1
  /\ pc' = "wild"
  /\ UNCHANGED <<text, p, buffer, error, starved, listVars>>

(* buffer_dtor and token_list_dtor of an error inside the loop.            *)
Discard ==
  /\ pc = "discard"
  /\ buffer' = "freed"
  /\ token_list_dtor("return")
  /\ UNCHANGED <<text, p, error, starved>>

(* LEXICAL_ANALYSIS_ERROR in the frontend: after an error it frees the list
   and returns -1; otherwise the list is freed behind the parser.          *)
Release ==
  /\ pc = "return"
  /\ token_list_dtor("exit")
  /\ UNCHANGED <<text, p, buffer, error, starved>>

Next == Load \/ Lex \/ End \/ ReadBehindBuffer \/ Discard \/ Release

Spec == Init /\ [][Next]_vars

(* The frontend is one thread that blocks on nothing but the file.         *)
FairSpec == Spec /\ WF_vars(Next)

-----------------------------------------------------------------------------
Kinds == {"EOF", "UNARY_MINUS", "KEYWORD", "IDENTIFIER", "NUMBER", "STRING", "SYMBOL"}

Tokens == [type : Kinds, chars : Seq(STRING)]

TypeOK ==
  /\ text \in Texts
  /\ pc \in {"start", "loop", "discard", "return", "exit", "crashed", "wild"}
  /\ p \in 1..Len(text) + 2
  /\ buffer \in {"none", "live", "freed"}
  /\ count \in Nat /\ capacity \in Nat /\ strings \in Nat
  /\ data \in [0..capacity - 1 -> Tokens \union {Undef}] \union {NoBlock}
  /\ error \in Errors
  /\ starved \in BOOLEAN

(* Every cell below count was pushed, and lies in the array.  The array of
   a list that has been freed is gone while count still counts it.         *)
ListHolds ==
  /\ count <= capacity
  /\ data # NoBlock => \A i \in 0..count - 1 : data[i] \in Tokens
  /\ pc \in {"start", "loop", "discard"} => (data = NoBlock => count = 0)

(* The pointer leaves the text by one character at most, and only when the
   text ends in a blank: skip_spaces_buffer has run up to the zero, and the
   p++ at the end of the loop steps over it.  Only then is a byte read that
   is not of the buffer.                                                   *)
StaysInText ==
  (p > Len(text) + 1 \/ pc = "wild") =>
    /\ p = Len(text) + 2
    /\ text[Len(text)] \in Blanks

(* The errors for which lexical_analysis frees the list itself.            *)
FreedByLexer ==
  \/ error = "FORGOTTEN_QUATATION_MARK"
  \/ error = "UNKNOWN_CHAR" /\ At(p) = Bang

(* Every way out releases what was allocated, once: unless an allocation
   has failed, the frontend ends with the buffer, the array and the strings
   freed.  The errors that free the list themselves are the exception: the
   frontend frees it again, through the NULL pointer the first time has
   left and the count it has kept, and crashes if there was a token.       *)
Released ==
  ~starved =>
    /\ pc = "exit" => buffer # "live" /\ data = NoBlock /\ strings = 0
    /\ pc = "crashed" => count > 0 /\ FreedByLexer /\ buffer = "freed" /\ strings = 0
    /\ pc = "exit" => ~(count > 0 /\ FreedByLexer)

(* The frontend comes to an end for every text: each turn of the loop moves
   the pointer.                                                            *)
Terminates == <>(pc \in {"exit", "crashed", "wild"})
=============================================================================
