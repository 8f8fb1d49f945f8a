------------------------------ MODULE SetupForm ------------------------------
(***************************************************************************)
(* From the fields of the /setup form to the database an explorer reaches: *)
(* assemble and its builders (adapters/db/dsn_builder.py), build_explorer  *)
(* (adapters/db/factory.py), and what the URL parsers make of the string   *)
(* in between.                                                             *)
(*                                                                         *)
(* A field, and a DSN, is a sequence of tokens: the characters that mean   *)
(* something to a URL, their quoted forms, "blank", and words for runs of  *)
(* all other characters ("neon" is one that ends in ".neon.tech").         *)
(***************************************************************************)
EXTENDS Integers, Sequences

CONSTANTS
  Words,          (* runs of characters that mean nothing to a URL         *)
  Numbers,        (* those of digits only                                  *)
  Hosts, Ports, Names, Secrets, Paths    (* what users type                *)

Escapes == {<<"@", "%40">>, <<":", "%3A">>, <<"/", "%2F">>, <<"?", "%3F">>,
            <<"#", "%23">>, <<"%", "%25">>, <<"+", "%2B">>}

Signs == {e[1] : e \in Escapes}
Escaped == {e[2] : e \in Escapes}
Typed == Signs \cup {"blank"} \cup Words

ASSUME SetupFormAssumption ==
  /\ Words \cap (Signs \cup Escaped \cup {"blank", "://"}) = {}
  /\ {"5432", "3306"} \subseteq Numbers /\ Numbers \subseteq Words
  /\ \A texts \in {Hosts, Ports, Names, Secrets, Paths} : texts \subseteq Seq(Typed)

(* FIELD_SCHEMA; all fields but the port are required.                     *)
ServerForms(db) ==
  [db : {db}, host : Hosts, port : Ports, database : Names, user : Secrets,
   password : Secrets]

Forms ==
  ServerForms("postgresql") \cup ServerForms("mysql")
    \cup [db : {"snowflake"}, account : Names, user : Secrets, password : Secrets,
          database : Names, warehouse : Secrets]
    \cup [db : {"bigquery"}, project : Names, dataset : Names]
    \cup [db : {"duckdb"}, path : Paths]
    \cup [db : {"d1"}, account_id : Names, database_id : Names, api_token : Secrets]
-------------------------------------------------------------------------------
Least(S) == CHOOSE n \in S : \A m \in S : n <= m
Greatest(S) == CHOOSE n \in S : \A m \in S : m <= n

Has(s, signs) == \E i \in DOMAIN s : s[i] \in signs

(* The tokens before and after the first of stops in s.                    *)
Upto(s, stops) ==
  SubSeq(s, 1, Greatest({n \in 0 .. Len(s) : \A i \in 1 .. n : s[i] \notin stops}))

Past(s, stops) == SubSeq(s, Len(Upto(s, stops)) + 2, Len(s))

(* The tokens after the last of stops in s, or all of them.                *)
PastLast(s, stops) ==
  SubSeq(s, 1 + Greatest({0} \cup {i \in DOMAIN s : s[i] \in stops}), Len(s))

(* str.strip.                                                              *)
Strip(s) ==
  LET solid == {i \in DOMAIN s : s[i] # "blank"}
  IN  IF solid = {} THEN <<>> ELSE SubSeq(s, Least(solid), Greatest(solid))

Translate(s, pairs) ==
  [i \in DOMAIN s |->
     IF \E p \in pairs : p[1] = s[i] THEN (CHOOSE p \in pairs : p[1] = s[i])[2]
     ELSE s[i]]

(* Mistake: an "@" in a credential is left as it is.                       *)
BadQuote(s) == Translate(s, {e \in Escapes : e[1] # "@"} \cup {<<"blank", "+">>})

(* _quote, which is quote_plus; unquote, to which a "+" is a "+"; and      *)
(* parse_qsl, to which it is a blank.                                      *)
Quote(s) == Translate(s, Escapes \cup {<<"blank", "+">>})
Unescapes == {<<e[2], e[1]>> : e \in Escapes}
Unquote(s) == Translate(s, Unescapes)
UnquoteOptions(s) == Translate(s, Unescapes \cup {<<"+", "blank">>})

(* urlsplit("//" + host).hostname or host.                                 *)
CleanHost(host) ==
  LET name == Upto(PastLast(Upto(host, {"/", "?", "#"}), {"@"}), {":"})
  IN  IF name = <<>> THEN host ELSE name

(* int, which takes a port and the port of a URL.                          *)
IsNumber(s) == s # <<>> /\ \A i \in DOMAIN s : s[i] \in Numbers

PortOr(port, default) == IF port = <<>> THEN <<default>> ELSE port

Login(f) == Quote(f.user) \o <<":">> \o Quote(f.password) \o <<"@">>

(* host.endswith(".neon.tech").                                            *)
Neon(host) == host # <<>> /\ host[Len(host)] = "neon"

(* build_postgresql and the builders of the other databases.               *)
Postgresql(f) ==
  LET host == CleanHost(f.host)
  IN  <<"postgresql+psycopg", "://">> \o Login(f) \o host \o <<":">>
        \o PortOr(f.port, "5432") \o <<"/">> \o f.database
        \o (IF Neon(host) THEN <<"?", "sslmode">> ELSE <<>>)

Mysql(f) ==
  <<"mysql+pymysql", "://">> \o Login(f) \o f.host \o <<":">>
    \o PortOr(f.port, "3306") \o <<"/">> \o f.database

Snowflake(f) ==
  <<"snowflake", "://">> \o Login(f) \o f.account \o <<"/">> \o f.database
    \o <<"?", "warehouse">> \o Quote(f.warehouse)

Bigquery(f) == <<"bigquery", "://">> \o f.project \o <<"/">> \o f.dataset

Duckdb(f) == <<"duckdb", "://", "/">> \o f.path

D1(f) == <<"d1", "://">> \o f.account_id \o <<"/">> \o f.database_id

(* assemble: fields are stripped before they are checked; the token of D1  *)
(* stays out of the DSN.                                                   *)
Cleaned(form) ==
  [n \in DOMAIN form |-> IF n = "db" THEN form.db ELSE Strip(form[n])]

Missing(form) ==
  {n \in DOMAIN form \ {"db", "port"} : Cleaned(form)[n] = <<>>}

Assembles(form) ==
  /\ Missing(form) = {}
  /\ "port" \in DOMAIN form =>
       Cleaned(form).port = <<>> \/ IsNumber(Cleaned(form).port)

Dsn(form) ==
  LET f == Cleaned(form)
  IN  CASE form.db = "postgresql" -> Postgresql(f)
        [] form.db = "mysql" -> Mysql(f)
        [] form.db = "snowflake" -> Snowflake(f)
        [] form.db = "bigquery" -> Bigquery(f)
        [] form.db = "duckdb" -> Duckdb(f)
        [] form.db = "d1" -> D1(f)

Token(form) == IF form.db = "d1" THEN Cleaned(form).api_token ELSE <<>>
-------------------------------------------------------------------------------
(* The credentials SQLAlchemy's make_url finds in front of a place.  A user *)
(* ends at the first ":" or "/"; if that is a ":" the password ends at the *)
(* next "@", and without a password the user at the last "@".              *)
Credentials(rest) ==
  LET name   == Upto(rest, {":", "/"})
      behind == Past(rest, {":", "/"})
  IN  IF name = Upto(rest, {":"}) /\ Has(behind, {"@"})
      THEN [user |-> Unquote(name), password |-> Unquote(Upto(behind, {"@"})),
            place |-> Past(behind, {"@"})]
      ELSE IF Has(name, {"@"})
      THEN LET host == PastLast(name, {"@"})
           IN  [user |-> Unquote(SubSeq(name, 1, Len(name) - Len(host) - 1)),
                password |-> <<>>,
                place |-> SubSeq(rest, Len(name) - Len(host) + 1, Len(rest))]
      ELSE [user |-> <<>>, password |-> <<>>, place |-> rest]

(* What a URL means to make_url.                                           *)
ParsedUrl(url) ==
  LET login   == Credentials(SubSeq(url, 3, Len(url)))
      address == Upto(login.place, {"/", "?"})
  IN  [driver   |-> url[1],
       user     |-> login.user,
       password |-> login.password,
       host     |-> Upto(address, {":"}),
       port     |-> Past(address, {":"}),
       database |-> Past(Upto(login.place, {"?"}), {"/"}),
       options  |-> UnquoteOptions(Past(login.place, {"?"}))]

(* What urlsplit and build_explorer make of the URL of a D1 database.      *)
ParsedD1(url) ==
  LET rest == SubSeq(url, 3, Len(url))
      path == Past(Upto(rest, {"?", "#"}), {"/"})
  IN  [account  |-> Upto(rest, {"/", "?", "#"}),
       database |-> SubSeq(path, Least({i \in 1 .. Len(path) + 1 :
                                          i \in DOMAIN path => path[i] # "/"}),
                           Len(path))]

(* build_explorer: D1 is called by its two ids with the token, a bare      *)
(* postgresql URL gets the driver that is installed, any other URL is left *)
(* to SQLAlchemy.                                                          *)
Explorer(dsn, token) ==
  LET url == ParsedUrl(dsn)
  IN  IF dsn[1] = "d1" THEN [target |-> ParsedD1(dsn), token |-> token]
      ELSE IF dsn[1] = "postgresql"
      THEN [target |-> [url EXCEPT !.driver = "postgresql+psycopg"], token |-> <<>>]
      ELSE [target |-> url, token |-> <<>>]

(* build_explorer refuses a D1 URL without one of the ids, make_url a port *)
(* that is no number.                                                      *)
Usable(form) ==
  LET target == Explorer(Dsn(form), Token(form)).target
  IN  IF form.db = "d1" THEN target.account # <<>> /\ target.database # <<>>
      ELSE target.port = <<>> \/ IsNumber(target.port)
-------------------------------------------------------------------------------
(* The target a form names: word for word what was typed, without the      *)
(* blanks around it and, for PostgreSQL, without the path and options of a *)
(* URL pasted with its host, which build_postgresql promises to drop.      *)
Named(form) ==
  LET f == Cleaned(form)
      url(driver, user, password, host, port, database, options) ==
        [driver |-> driver, user |-> user, password |-> password, host |-> host,
         port |-> port, database |-> database, options |-> options]
      host == Upto(f.host, {"/", "?"})
  IN  CASE form.db = "postgresql" ->
             url("postgresql+psycopg", f.user, f.password, host,
                 PortOr(f.port, "5432"), f.database,
                 IF Neon(host) THEN <<"sslmode">> ELSE <<>>)
        [] form.db = "mysql" ->
             url("mysql+pymysql", f.user, f.password, f.host,
                 PortOr(f.port, "3306"), f.database, <<>>)
        [] form.db = "snowflake" ->
             url("snowflake", f.user, f.password, f.account, <<>>, f.database,
                 <<"warehouse">> \o f.warehouse)
        [] form.db = "bigquery" ->
             url("bigquery", <<>>, <<>>, f.project, <<>>, f.dataset, <<>>)
        [] form.db = "duckdb" -> url("duckdb", <<>>, <<>>, <<>>, <<>>, f.path, <<>>)
        [] form.db = "d1" -> [account |-> f.account_id, database |-> f.database_id]

(* What the builders put into a URL unquoted means nothing else there, and *)
(* no credential has a blank in it.                                        *)
Plain(form) ==
  LET f == Cleaned(form)
  IN  /\ {"user", "password"} \subseteq DOMAIN form =>
           ~Has(f.user, {"blank"}) /\ ~Has(f.password, {"blank"})
      /\ "database" \in DOMAIN form => ~Has(f.database, {"?"})
      /\ CASE form.db = "postgresql" ->
                LET host == Upto(f.host, {"/", "?"})
                IN  host # <<>> /\ ~Has(host, {"@", ":", "#"})
           [] form.db = "mysql" -> ~Has(f.host, {"/", "?"})
           [] form.db = "snowflake" -> ~Has(f.account, {":", "/", "?"})
           [] form.db = "bigquery" ->
                ~Has(f.project, {"@", ":", "/", "?"}) /\ ~Has(f.dataset, {"?"})
           [] form.db = "duckdb" -> ~Has(f.path, {"?"})
           [] form.db = "d1" ->
                /\ ~Has(f.account_id, {"/", "?", "#"})
                /\ ~Has(f.database_id, {"?", "#"}) /\ f.database_id[1] # "/"

(* A credential as it arrives: unquote does not undo what quote_plus does  *)
(* to a blank.                                                             *)
Arrived(s) == Translate(s, {<<"blank", "+">>})

(* All that is required is there, and the port, if any, is a number with   *)
(* nothing but blanks around it.                                           *)
Complete(form) ==
  /\ \A n \in DOMAIN form \ {"db", "port"} : \E i \in DOMAIN form[n] : form[n][i] # "blank"
  /\ "port" \in DOMAIN form =>
       /\ \A i \in DOMAIN form.port : form.port[i] \in {"blank"} \cup Numbers
       /\ \A i, j, k \in DOMAIN form.port :
            i < j /\ j < k /\ form.port[j] = "blank" => "blank" \in {form.port[i], form.port[k]}

(* What the commit step makes of a form.  accepted: it goes on to connect. *)
(* right: it assembles exactly the complete forms; credentials arrive,     *)
(* whatever the other fields hold; and where Plain holds the explorer      *)
(* reaches what the form names, with the token typed, or is refused.       *)
Submission(form) ==
  LET reached == Explorer(Dsn(form), Token(form))
      f       == Cleaned(form)
  IN  [accepted |-> Assembles(form) /\ Usable(form),
       right    |->
         /\ Assembles(form) <=> Complete(form)
         /\ Assembles(form) /\ "user" \in DOMAIN form =>
              /\ reached.target.user = Arrived(f.user)
              /\ reached.target.password = Arrived(f.password)
         /\ Assembles(form) /\ Usable(form) /\ Plain(form) =>
              reached = [target |-> Named(form), token |-> Token(form)]]

Submissions == {Submission(form) : form \in Forms}
===============================================================================
