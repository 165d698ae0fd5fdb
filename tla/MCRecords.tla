------------------------------- MODULE MCRecords -------------------------------
(* The instance of Records for TLC: a company with its identity between other  *)
(* fields, and its employees, who are told apart by company and badge.         *)
EXTENDS Records

Field(tag, field, column, type, nullable) ==
  [tag |-> tag, field |-> field, column |-> column, type |-> type, nullable |-> nullable]

MCDescribe ==
  [company  |-> [fields  |-> <<Field("regular", "name", "CompanyName", "text", FALSE),
                               Field("identity", "id", "ID", "int32", FALSE),
                               Field("regular", "share", "Share", "real", TRUE)>>,
                 keys    |-> <<[kind |-> "UNIQUE", fields |-> <<"name">>],
                               [kind |-> "UNIQUE", fields |-> <<"share">>]>>,
                 foreign |-> << >>],
   employee |-> [fields  |-> <<Field("regular", "badge", "Badge", "uint32", FALSE),
                               Field("regular", "company", "CompanyID", "int32", FALSE)>>,
                 keys    |-> <<[kind |-> "PRIMARY KEY", fields |-> <<"company", "badge">>]>>,
                 foreign |-> <<[referred |-> "company", pairs |-> << <<"company", "id">> >>]>>]]

(* "a" with a NUL behind, and "b"; a number above and one below the sign bit. *)
MCItems ==
  [company  |-> [name : {<<1, 0>>, <<2>>}, share : {5, NaN}],
   employee |-> [badge : {1, 6}, company : {1, 2}]]

Test(op, at, field, value) == [op |-> op, at |-> at, field |-> field, value |-> value]
By(at, field, ascending)   == [at |-> at, field |-> field, ascending |-> ascending]
Join(at, field, with, other) ==
  [at |-> at, field |-> field, with |-> with, other |-> other]
Query(from, where, joins, order) ==
  [from |-> from, where |-> where, joins |-> joins, order |-> order]

MCQueries ==
  << Query(<<"company">>, {Test("==", 1, "name", <<1, 0>>)}, {}, << >>),
     Query(<<"company">>, {Test("!=", 1, "name", <<2>>)}, {}, <<By(1, "share", TRUE)>>),
     Query(<<"company">>, {Test("!=", 1, "id", 0)}, {},
           <<By(1, "share", TRUE), By(1, "name", FALSE)>>),
     Query(<<"employee">>, {Test("!=", 1, "badge", 3)}, {},
           <<By(1, "company", FALSE), By(1, "badge", TRUE)>>),
     Query(<<"employee">>, {Test("==", 1, "badge", 6)}, {}, <<By(1, "company", TRUE)>>),
     Query(<<"company", "company">>, {Test("!=", 2, "share", 4)}, {},
           <<By(2, "name", TRUE), By(1, "share", FALSE)>>),
     Query(<<"company">>, {Test("==", 1, "share", Null)}, {}, << >>),
     Query(<<"company">>, {Test("!=", 1, "share", Null)}, {}, << >>),
     Query(<<"company", "company">>, {}, {Join(1, "share", 2, "share")}, << >>),
     Query(<<"employee", "company">>, {}, {}, << >>),
     Query(<<"employee", "company">>, {Test("==", 2, "name", <<1>>)},
           {Join(2, "id", 1, "company")}, <<By(1, "badge", FALSE)>>),
     Query(<<"company", "employee", "company">>, {},
           {Join(1, "id", 2, "company"), Join(2, "company", 3, "id")}, << >>) >>
================================================================================
