---------------------------- MODULE MCClickBench ----------------------------
(* All 43 queries over small tables of hits.  A row satisfies every filter,  *)
(* or differs from such a row in one column the query reads, on or next to   *)
(* the bound a filter or a constraint names; tables have up to three rows    *)
(* and two row groups.  Limits and thresholds are scaled to two rows,        *)
(* offsets to one.  Files with another schema lack a column or hold some     *)
(* type in place of another.                                                 *)
EXTENDS QueryMeaning

MCPiece == {"http://", "https://", "www.", "/", "google", "Google", ".google.", "ya"}

MCPieceSize ==
    [p \in MCPiece |-> CASE p = "https://" -> 8 [] p = ".google." -> 8
                         [] p = "http://" -> 7 [] p \in {"google", "Google"} -> 6
                         [] p = "www." -> 4 [] p = "ya" -> 2 [] p = "/" -> 1]

MCPieceRank ==
    [p \in MCPiece |-> CASE p = ".google." -> 1 [] p = "/" -> 2 [] p = "Google" -> 3
                         [] p = "google" -> 4 [] p = "http://" -> 5
                         [] p = "https://" -> 6 [] p = "www." -> 7 [] p = "ya" -> 8]

MCPieceHolds ==
    [p \in MCPiece |-> CASE p = "google" -> {"google"}
                         [] p = ".google." -> {"google", ".google."}
                         [] p = "Google" -> {"Google"}
                         [] OTHER -> {}]

MCLiteral ==
    [d \in {"10", "25", "100001"} |-> 2] @@ [d \in {"100", "1000", "10000"} |-> 1]
    @@ ("435090932899640449" :> 43) @@ ("3594120000172545465" :> 44)
    @@ ("2868770270353813622" :> 45)

MCHitsSchema ==
    <<Col("WatchID", "BIGINT"), Col("Title", "TEXT"),
      Col("EventTime", "TIMESTAMP"), Col("EventDate", "DATE"),
      Col("CounterID", "INTEGER"), Col("ClientIP", "INTEGER"),
      Col("RegionID", "INTEGER"), Col("UserID", "BIGINT"), Col("URL", "TEXT"),
      Col("Referer", "TEXT"), Col("IsRefresh", "SMALLINT"),
      Col("ResolutionWidth", "SMALLINT"), Col("MobilePhone", "SMALLINT"),
      Col("MobilePhoneModel", "TEXT"), Col("TraficSourceID", "SMALLINT"),
      Col("SearchEngineID", "SMALLINT"), Col("SearchPhrase", "TEXT"),
      Col("AdvEngineID", "SMALLINT"), Col("WindowClientWidth", "SMALLINT"),
      Col("WindowClientHeight", "SMALLINT"), Col("IsLink", "SMALLINT"),
      Col("IsDownload", "SMALLINT"), Col("DontCountHits", "SMALLINT"),
      Col("RefererHash", "BIGINT"), Col("URLHash", "BIGINT")>>

Time(day, minute, second) ==
    TimeToSeconds([year |-> 2013, month |-> 7, day |-> day, hour |-> 10,
                   minute |-> minute, second |-> second])

\* The values of a column; the first satisfies every filter.
Values ==
    [n \in NamesOf(MCHitsSchema) |->
        CASE n = "Title" -> <<<<"Google">>, <<"ya">>, <<>>>>
          [] n = "EventTime" -> <<Time(14, 5, 0), Time(14, 5, 59), Time(14, 6, 0)>>
          [] n = "EventDate" -> <<July(15), July(14), July(13), July(16), July(1),
                                  July(1) - 1, July(31), July(31) + 1>>
          [] n = "CounterID" -> <<62, 61, 63>>
          [] n = "UserID" -> <<43, 2, 40000>>
          [] n = "URL" -> <<<<"google", "/">>, <<"ya">>, <<"ya", ".google.", "/">>,
                            <<>>>>
          [] n = "Referer" -> <<<<"http://", "www.", "ya", "/">>,
                                <<"https://", "ya", "/">>, <<"http://", "ya">>, <<>>>>
          [] n \in {"MobilePhoneModel", "SearchPhrase"} -> <<<<"ya">>, <<"google">>, <<>>>>
          [] n = "TraficSourceID" -> <<-1, 6, 0, -2>>
          [] n = "RefererHash" -> <<44, 1>>
          [] n = "URLHash" -> <<45, 1>>
          [] n \in {"IsRefresh", "IsDownload", "DontCountHits"} -> <<0, 1, -1>>
          [] n = "IsLink" -> <<1, 0, -1>>
          [] n = "SearchEngineID" -> <<0, 1>>
          [] n = "AdvEngineID" -> <<1, 0>>
          [] OTHER -> <<1, 2>>]

Hit == [n \in NamesOf(MCHitsSchema) |-> Values[n][1]]

Read(q) ==
    LET columns == Plans[q][Len(Plans[q])].columns
    IN  IF columns = AllColumns THEN {"URL", "EventTime"}
        ELSE {columns[c] : c \in DOMAIN columns}

Hits(q) ==
    {Hit} \cup UNION {{[Hit EXCEPT ![n] = Values[n][v]] : v \in DOMAIN Values[n]}
                         : n \in Read(q)}

RowGroup(schema, rows) ==
    [row_num |-> Len(rows),
     columns |-> [c \in DOMAIN schema |->
                     [i \in DOMAIN rows |-> rows[i][schema[c].name]]]]

Cut(schema, parts) ==
    [schema |-> schema,
     row_groups |-> [g \in DOMAIN parts |-> RowGroup(schema, parts[g])]]

HitsFiles(q) ==
    {Cut(MCHitsSchema, parts) : parts \in
        {<<>>}
        \cup {<<<<r>>>> : r \in Hits(q)}
        \cup {<<<<r>>, <<s>>>> : r, s \in Hits(q)}
        \cup UNION {{<<<<r, Hit>>>>, <<<<Hit, r>>, <<r>>>>, <<<<r>>, <<r, Hit>>>>}
                       : r \in Hits(q)}}

Retyped(old, new) ==
    [c \in DOMAIN MCHitsSchema |->
        IF MCHitsSchema[c].type = old THEN Col(MCHitsSchema[c].name, new)
        ELSE MCHitsSchema[c]]

WithoutColumn(n) == SelectSeq(MCHitsSchema, LAMBDA c : c.name # n)

OtherFiles(q) ==
    {Cut(schema, parts) :
        schema \in {Retyped("BIGINT", "INTEGER"), Retyped("SMALLINT", "INTEGER"),
                    Retyped("TIMESTAMP", "INTEGER"), Retyped("DATE", "BIGINT"),
                    Retyped("TEXT", "VARCHAR"), WithoutColumn("URL"),
                    WithoutColumn("UserID")},
        parts \in {<<<<Hit>>, <<Hit>>>>,
                   <<<<[Hit EXCEPT !["UserID"] = 40000, !["IsLink"] = 40000,
                                   !["AdvEngineID"] = 40000]>>>>}}

MCFiles(q) == HitsFiles(q) \cup OtherFiles(q)
=============================================================================
