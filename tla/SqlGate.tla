------------------------------- MODULE SqlGate -------------------------------
(***************************************************************************)
(* What happens to the text of a statement on its way to the database:     *)
(* SafetyPipeline.evaluate (safety/pipeline.py) with its whitelist and     *)
(* row-limit layers, and the limit argument of run_sql.  The timeout layer *)
(* only sets a field that no explorer reads.                               *)
(*                                                                         *)
(* A text is a sequence of tokens, those the layers or the database tell   *)
(* apart: the words SELECT (WITH is treated alike), EXPLAIN, ANALYZE (the  *)
(* option words), INSERT (the mutating keywords), a LIMIT with its number, *)
(* "name" for any other word, parentheses, semicolons, line ends, the      *)
(* signs of comments, and the quote that begins and ends a literal.  The   *)
(* layers read a text in ways of their own, each without a notion of       *)
(* literals; Read is how the database reads it.                            *)
(***************************************************************************)
EXTENDS Positions, Integers, Sequences, FiniteSets

CONSTANTS
  MaxTokens,     (* bound: tokens in a text                                *)
  DefaultLimit,  (* 1000, the default of run_sql and of the row limit      *)
  MaxRows        (* bound: rows a statement has in the database            *)

ASSUME SqlGateAssumption ==
  /\ MaxTokens \in Nat
  /\ DefaultLimit \in Nat \ {0}
  /\ MaxRows \in Nat

Tokens == {"SELECT", "EXPLAIN", "ANALYZE", "INSERT", "LIMIT", "name",
           "(", ")", ";", "newline", "--", "/*", "*/", "'"}
-------------------------------------------------------------------------------
(* The positions from the first to the last token outside blanks.          *)
Core(s, blanks) ==
  {i \in DOMAIN s : /\ \E j \in 1 .. i : s[j] \notin blanks
                    /\ \E j \in i .. Len(s) : s[j] \notin blanks}

(* str.strip: a text without the line ends around it.                      *)
Trim(s) == Pick(s, Core(s, {"newline"}))

(* What run_sql passes on: it strips the text it is given.                 *)
Texts ==
  {t \in UNION {[1 .. n -> Tokens] : n \in 0 .. MaxTokens} :
     t # <<>> => "newline" \notin {t[1], t[Len(t)]}}

(* _BLOCK_COMMENT: from a sign that opens to the next one that closes,     *)
(* wherever the signs stand.                                               *)
InBlock(s, i) ==
  \E j \in 1 .. i, k \in i .. Len(s) :
    /\ j < k /\ s[j] = "/*" /\ s[k] = "*/"
    /\ \A l \in (j + 1) .. (i - 1) : s[l] # "*/"

InLine(s, i) ==
  \E j \in 1 .. i : s[j] = "--" /\ \A k \in j .. i : s[k] # "newline"

(* _strip_comments: what is left without the block comments, then without  *)
(* the line comments of that.                                              *)
Code(s) ==
  LET rest == Pick(s, {i \in DOMAIN s : ~InBlock(s, i)})
  IN  Pick(rest, {i \in DOMAIN rest : ~InLine(rest, i)})

(* _split_statements: the one statement of a text, or none if there is no  *)
(* statement or more than one.                                             *)
Statement(s) ==
  LET body == Pick(s, Core(s, {"newline", ";"}))
  IN  IF \E i \in DOMAIN body : body[i] = ";" THEN <<>> ELSE body

Occurrences(s, i, token) == Cardinality({j \in 1 .. i : s[j] = token})

(* Open parentheses after the first i tokens.                              *)
Depth(s, i) == Occurrences(s, i, "(") - Occurrences(s, i, ")")

After(s, i) == Trim(SubSeq(s, i + 1, Len(s)))

OneLine(s) == \A i \in DOMAIN s : s[i] # "newline"

(* What follows EXPLAIN once its options are dropped: one block of options *)
(* in parentheses nested at most twice, or else option words, as long as   *)
(* what follows the first of them is on one line.                          *)
Explained(s) ==
  LET closings == {i \in DOMAIN s :
                     /\ s[1] = "(" /\ Depth(s, i) = 0
                     /\ \A j \in 1 .. (i - 1) : Depth(s, j) \in {1, 2}}
      rest  == After(s, 1)
      words == {i \in DOMAIN rest : \A j \in 1 .. i : rest[j] = "ANALYZE"}
  IN  IF closings # {} THEN After(s, CHOOSE i \in closings : TRUE)
      ELSE IF s # <<>> /\ s[1] = "ANALYZE" /\ OneLine(rest)
      THEN After(rest, Cardinality(words))
      ELSE s

Query(s) == IF s # <<>> /\ s[1] = "EXPLAIN" THEN Explained(After(s, 1)) ELSE s

(* WhitelistLayer.check lets a text pass.                                  *)
Accepted(t) ==
  LET query == Query(Statement(Code(t)))
  IN  /\ query # <<>>
      /\ query[1] = "SELECT"
      /\ \A i \in DOMAIN query : query[i] # "INSERT"
-------------------------------------------------------------------------------
(* _has_top_level_limit: it looks into comments and literals too.          *)
HasTopLevelLimit(t) ==
  \E i \in DOMAIN t : t[i] = "LIMIT" /\ Depth(t, i) = 0

(* Mistake: the semicolon at the end stays.                                *)
BadUnended(t) == Trim(t)

(* rstrip().rstrip(";") of a text.                                         *)
Unended(t) ==
  LET s == Trim(t)
  IN  Pick(s, {i \in DOMAIN s : \E j \in i .. Len(s) : s[j] # ";"})

(* Mistake: the LIMIT is appended to the last line.                        *)
BadRewrite(t) ==
  IF HasTopLevelLimit(t) THEN t ELSE Append(Unended(t), "LIMIT")

(* RowLimitLayer.check.                                                    *)
Rewrite(t) ==
  IF HasTopLevelLimit(t) THEN t ELSE Unended(t) \o <<"newline", "LIMIT">>
-------------------------------------------------------------------------------
(* The limit argument of a call: missing (None, false and empty values are *)
(* alike), an integer, another value that int() makes one of (a text, a    *)
(* fraction), a value it makes none of, or an infinite number.             *)
Forms == {"missing", "integer", "other", "malformed", "infinite"}
Numbered == {"integer", "other"}

Arguments ==
  {arg \in [form : Forms, value : -2 .. MaxRows] :
     arg.form \notin Numbered => arg.value = 0}

(* `... or 1000`: the argument itself, before int() sees it, is nothing.   *)
Nothing(arg) ==
  arg.form = "missing" \/ arg = [form |-> "integer", value |-> 0]

(* Mistake: a limit of zero is kept.                                       *)
BadLimitOf(arg) == IF arg.form \in Numbered THEN arg.value ELSE DefaultLimit

(* run_sql: int(args.get("limit") or 1000), 1000 if that fails.  An        *)
(* infinite number is not caught there: the call ends as an error result.  *)
LimitOf(arg) ==
  IF Nothing(arg) \/ arg.form = "malformed" THEN DefaultLimit ELSE arg.value

(* The number RowLimitLayer writes into a text without a LIMIT.            *)
RowLimit(limit) == IF limit > 0 THEN limit ELSE DefaultLimit

AtMost(a, b) == IF a < b THEN a ELSE b

(* D1 slices the rows of the answer; the slice ends at a position counted  *)
(* from the end if the limit is negative.                                  *)
Sliced(rows, limit) ==
  IF limit >= 0 THEN AtMost(rows, limit)
  ELSE IF rows + limit > 0 THEN rows + limit ELSE 0

(* What a driver makes of fetchmany with a negative size is its own        *)
(* affair: everything, or nothing because it refuses.                      *)
Fetched(rows, limit) ==
  IF limit >= 0 THEN {AtMost(rows, limit)} ELSE {0, rows}

(* The LIMIT the database obeys: the statement's own number, the one       *)
(* appended, or none if what the layer took for a LIMIT is none.           *)
Appended  == -1
Unlimited == -2
Obeyed == {Unlimited, Appended} \cup (0 .. MaxRows)

(* How many rows run_sql may return for a statement that has so many rows  *)
(* without a LIMIT.                                                        *)
Returned(explorer, rows, obeyed, arg) ==
  LET limit == LimitOf(arg)
      sent  == CASE obeyed = Unlimited -> rows
                 [] obeyed = Appended  -> AtMost(rows, RowLimit(limit))
                 [] OTHER              -> AtMost(rows, obeyed)
  IN  IF explorer = "d1" THEN {Sliced(sent, limit)} ELSE Fetched(sent, limit)
-------------------------------------------------------------------------------
(* How a database reads a text: in code a quote begins a literal and the   *)
(* signs of comments begin comments, and each hides the others until it    *)
(* ends.                                                                   *)
Begins == [token \in {"'", "--", "/*"} |->
             CASE token = "'" -> "literal" [] token = "--" -> "line"
               [] token = "/*" -> "block"]
Ends   == [literal |-> "'", line |-> "newline", block |-> "*/"]

ModeAfter(mode, token) ==
  IF mode = "code"
  THEN IF token \in DOMAIN Begins THEN Begins[token] ELSE "code"
  ELSE IF token = Ends[mode] THEN "code" ELSE mode

(* The mode after each token of a text, and before the first.              *)
Modes(s) ==
  LET mode[i \in 0 .. Len(s)] ==
        IF i = 0 THEN "code" ELSE ModeAfter(mode[i - 1], s[i])
  IN  mode

(* The modes a token is read in: two for the signs that begin and end one. *)
Around(s, i) == {Modes(s)[i - 1], Modes(s)[i]}

InCode(s, i) == Around(s, i) = {"code"}

(* The tokens the database acts on.                                        *)
Kept(s) ==
  {i \in DOMAIN s : /\ Around(s, i) \cap {"line", "block"} = {}
                    /\ ~(InCode(s, i) /\ s[i] = "newline")}

Read(s) == Pick(s, Kept(s))
-------------------------------------------------------------------------------
(* Open parentheses of the code before the i-th token.                     *)
CodeDepth(s, i) ==
  LET before(token) == {j \in 1 .. (i - 1) : InCode(s, j) /\ s[j] = token}
  IN  Cardinality(before("(")) - Cardinality(before(")"))

(* The database has a LIMIT to obey: a clause of its only statement,       *)
(* outside parentheses.                                                    *)
HasLimit(s) ==
  \E i \in DOMAIN s :
    /\ s[i] = "LIMIT" /\ InCode(s, i) /\ CodeDepth(s, i) = 0
    /\ \A j \in 1 .. (i - 1) : ~(InCode(s, j) /\ s[j] = ";")

(* The text ends in no literal and no open block comment.                  *)
Closed(t) == Modes(t)[Len(t)] \in {"code", "line"}

(* What row_limit.py looks for it finds in the code only, the parentheses  *)
(* there match, and a semicolon of the code ends the text.                 *)
Regular(t) ==
  /\ \A i \in DOMAIN t : t[i] \in {"(", ")", "LIMIT"} => InCode(t, i)
  /\ Depth(t, Len(t)) = 0
  /\ \A i, j \in DOMAIN t : i < j /\ t[i] = ";" /\ InCode(t, i) => t[j] = ";"

(* The semicolons the database reads last are the last of the text too.    *)
EndsWhereRead(t) ==
  \A i \in Kept(t) :
    (\A j \in Kept(t) : j >= i => t[j] = ";") =>
      \A j \in DOMAIN t : j >= i => t[j] = ";"

(* A statement without the semicolons behind it.                           *)
Body(s) == Pick(s, {i \in DOMAIN s : \E j \in i .. Len(s) : s[j] # ";"})

(* What the properties ask of a text that is sent.  limited: the database  *)
(* has a LIMIT to obey, unless literals, comments or parentheses of the    *)
(* text mislead row_limit.py.  written: the database reads what the model  *)
(* wrote, with the LIMIT if one was added, unless a semicolon stands       *)
(* before a last comment or line end, where row_limit.py does not find it. *)
Sending(t) ==
  [limited |-> Closed(t) /\ Regular(t) => HasLimit(Rewrite(t)),
   written |-> Closed(t) /\ EndsWhereRead(t) =>
                 Body(Read(Rewrite(t))) =
                   Body(Read(t)) \o
                     (IF HasTopLevelLimit(t) THEN <<>> ELSE <<"LIMIT">>)]

Sendings == {Sending(t) : t \in {u \in Texts : Accepted(u)}}

(* The rows a statement has by its own LIMIT, if that is the one obeyed.   *)
Own(rows, obeyed) ==
  IF obeyed \in 0 .. MaxRows THEN AtMost(rows, obeyed) ELSE rows

(* What the properties ask of a result.  A call that asks for a positive   *)
(* number of rows gets that many of those the statement has, one that asks *)
(* for no number or for the integer zero gets the default number.  Any     *)
(* other limit (negative, or zero as a text or a fraction) gets no more    *)
(* than the LIMIT in the text leaves.                                      *)
Exact(rows, obeyed, arg, got) ==
  LET own == Own(rows, obeyed)
  IN  IF arg.form \in Numbered /\ arg.value > 0 THEN got = AtMost(own, arg.value)
      ELSE IF arg.form \notin Numbered \/ Nothing(arg)
      THEN got = AtMost(own, DefaultLimit)
      ELSE got <= own /\ (obeyed = Appended => got <= DefaultLimit)

Results ==
  UNION {{[exact |-> Exact(rows, obeyed, arg, got)] :
            got \in Returned(explorer, rows, obeyed, arg)} :
         explorer \in {"d1", "sqlalchemy"}, rows \in 0 .. MaxRows,
         obeyed \in Obeyed,
         arg \in {a \in Arguments : a.form # "infinite"}}
===============================================================================
