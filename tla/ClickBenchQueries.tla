------------------------- MODULE ClickBenchQueries -------------------------
(***************************************************************************)
(* MakeClickBenchQuery: the plans of the 43 queries, by number, and the    *)
(* filters the queries of July 2013 share.                                 *)
(*                                                                         *)
(* Literal gives the numbers of the queries that matter by their size or   *)
(* their place alone: limits, offsets, the threshold of a HAVING, the      *)
(* identifiers a filter looks for.                                         *)
(***************************************************************************)
EXTENDS PlanHelpers

CONSTANT Literal  \* from the digits in the code to a number

July(day) == DateToDays([year |-> 2013, month |-> 7, day |-> day])

JulyFilters(extra) ==
    And(<<EqualTo("int32", "CounterID", 62),
          GreaterEqual("int32", "EventDate", July(1)),
          LessEqual("int32", "EventDate", July(31)),
          EqualTo("int16", "IsRefresh", 0)>> \o extra)

\* Mutant: the month ends a day early for the scan.
ConstraintsOfThirtyDays(extra) ==
    <<EqConstraint("CounterID", "INTEGER", "int32", 62),
      BetweenConstraint("EventDate", "DATE", "int32", July(1), July(30)),
      EqConstraint("IsRefresh", "SMALLINT", "int16", 0)>> \o extra

JulyConstraints(extra) ==
    <<EqConstraint("CounterID", "INTEGER", "int32", 62),
      BetweenConstraint("EventDate", "DATE", "int32", July(1), July(31)),
      EqConstraint("IsRefresh", "SMALLINT", "int16", 0)>> \o extra

QueryWithSearchPhrase(columns) ==
    Filter(Scan(columns, <<>>), StringNotEmpty("SearchPhrase"))

\* Mutant: the statistics of the column are read as those of a SMALLINT.
SmallIntUser ==
    <<EqConstraint("UserID", "SMALLINT", "int16", Literal["435090932899640449"])>>

UserConstraint ==
    <<EqConstraint("UserID", "BIGINT", "int64", Literal["435090932899640449"])>>

NoAdvEngine == <<NotEqConstraint("AdvEngineID", "SMALLINT", "int16", 0)>>

Counted(name) == <<Count(name)>>

\* ORDER BY one column DESC LIMIT 10, as most of the queries end.
Top10By(child, column, offset) ==
    OrderedLimit(child, <<SortKey(column, "DESC")>>, Literal["10"], offset)

-----------------------------------------------------------------------------

Queries1To13 ==
  <<Global(Scan(<<>>, <<>>), Counted("count")),
    Global(Filter(Scan(<<"AdvEngineID">>, NoAdvEngine),
                  NotEqualTo("int16", "AdvEngineID", 0)),
           Counted("count")),
    Global(Scan(<<"AdvEngineID", "ResolutionWidth">>, <<>>),
           <<Sum("AdvEngineID", "sum"), Count("count"), Avg("ResolutionWidth", "avg")>>),
    Global(Scan(<<"UserID">>, <<>>), <<Avg("UserID", "avg")>>),
    Global(Scan(<<"UserID">>, <<>>), <<CountDistinct("UserID", "uniq")>>),
    Global(Scan(<<"SearchPhrase">>, <<>>),
           <<CountDistinct("SearchPhrase", "uniq")>>),
    Global(Scan(<<"EventDate">>, <<>>),
           <<Min("EventDate", "min"), Max("EventDate", "max")>>),
    Sort(Group(Filter(Scan(<<"AdvEngineID">>, NoAdvEngine),
                      NotEqualTo("int16", "AdvEngineID", 0)),
               <<"AdvEngineID">>, Counted("c")),
         <<SortKey("c", "DESC")>>),
    Top10By(Group(Scan(<<"RegionID", "UserID">>, <<>>),
                  <<"RegionID">>, <<CountDistinct("UserID", "u")>>),
            "u", 0),
    Top10By(Group(Scan(<<"RegionID", "AdvEngineID", "ResolutionWidth", "UserID">>,
                       <<>>),
                  <<"RegionID">>,
                  <<Sum("AdvEngineID", "sum"), Count("c"),
                    Avg("ResolutionWidth", "avg"),
                    CountDistinct("UserID", "uniq")>>),
            "c", 0),
    Top10By(Group(Filter(Scan(<<"MobilePhoneModel", "UserID">>, <<>>),
                         StringNotEmpty("MobilePhoneModel")),
                  <<"MobilePhoneModel">>, <<CountDistinct("UserID", "u")>>),
            "u", 0),
    Top10By(Group(Filter(Scan(<<"MobilePhone", "MobilePhoneModel", "UserID">>, <<>>),
                         StringNotEmpty("MobilePhoneModel")),
                  <<"MobilePhone", "MobilePhoneModel">>,
                  <<CountDistinct("UserID", "u")>>),
            "u", 0),
    Top10By(Group(QueryWithSearchPhrase(<<"SearchPhrase">>),
                  <<"SearchPhrase">>, Counted("c")),
            "c", 0)>>

Queries14To23 ==
  <<Top10By(Group(QueryWithSearchPhrase(<<"SearchPhrase", "UserID">>),
                  <<"SearchPhrase">>, <<CountDistinct("UserID", "u")>>),
            "u", 0),
    Top10By(Group(QueryWithSearchPhrase(<<"SearchEngineID", "SearchPhrase">>),
                  <<"SearchEngineID", "SearchPhrase">>, Counted("c")),
            "c", 0),
    Top10By(Group(Scan(<<"UserID">>, <<>>), <<"UserID">>, Counted("c")), "c", 0),
    Top10By(Group(Scan(<<"UserID", "SearchPhrase">>, <<>>),
                  <<"UserID", "SearchPhrase">>, Counted("c")),
            "c", 0),
    Limit(Group(Scan(<<"UserID", "SearchPhrase">>, <<>>),
                <<"UserID", "SearchPhrase">>, Counted("c")),
          Literal["10"], 0),
    Top10By(Group(Compute(Scan(<<"UserID", "EventTime", "SearchPhrase">>, <<>>),
                          <<MinuteColumn("EventTime", "m")>>),
                  <<"UserID", "m", "SearchPhrase">>, Counted("c")),
            "c", 0),
    Project(Filter(Scan(<<"UserID">>, UserConstraint),
                   EqualTo("int64", "UserID", Literal["435090932899640449"])),
            <<"UserID">>),
    Global(Filter(Scan(<<"URL">>, <<>>), Contains("URL", "google")), Counted("count")),
    Top10By(Group(Filter(Scan(<<"SearchPhrase", "URL">>, <<>>),
                         And(<<Contains("URL", "google"),
                               StringNotEmpty("SearchPhrase")>>)),
                  <<"SearchPhrase">>, <<Min("URL", "min_url"), Count("c")>>),
            "c", 0),
    Top10By(Group(Filter(Scan(<<"SearchPhrase", "URL", "Title", "UserID">>, <<>>),
                         And(<<Contains("Title", "Google"),
                               NotContains("URL", ".google."),
                               StringNotEmpty("SearchPhrase")>>)),
                  <<"SearchPhrase">>,
                  <<Min("URL", "min_url"), Min("Title", "min_title"), Count("c"),
                    CountDistinct("UserID", "uniq")>>),
            "c", 0)>>

Queries24To30 ==
  <<OrderedLimit(Filter(Scan(AllColumns, <<>>), Contains("URL", "google")),
                 <<SortKey("EventTime", "ASC")>>, Literal["10"], 0),
    Project(OrderedLimit(QueryWithSearchPhrase(<<"SearchPhrase", "EventTime">>),
                         <<SortKey("EventTime", "ASC")>>, Literal["10"], 0),
            <<"SearchPhrase">>),
    OrderedLimit(QueryWithSearchPhrase(<<"SearchPhrase">>),
                 <<SortKey("SearchPhrase", "ASC")>>, Literal["10"], 0),
    Project(OrderedLimit(QueryWithSearchPhrase(<<"SearchPhrase", "EventTime">>),
                         <<SortKey("EventTime", "ASC"),
                           SortKey("SearchPhrase", "ASC")>>,
                         Literal["10"], 0),
            <<"SearchPhrase">>),
    OrderedLimit(
        Filter(Group(Compute(Filter(Scan(<<"CounterID", "URL">>, <<>>),
                                    StringNotEmpty("URL")),
                             <<StringLength("URL", "url_length")>>),
                     <<"CounterID">>, <<Avg("url_length", "l"), Count("c")>>),
               GreaterEqual("int64", "c", Literal["100001"])),
        <<SortKey("l", "DESC")>>, Literal["25"], 0),
    OrderedLimit(
        Filter(Group(Compute(Filter(Scan(<<"Referer">>, <<>>),
                                    StringNotEmpty("Referer")),
                             <<DomainColumn("Referer", "k"),
                               StringLength("Referer", "referer_length")>>),
                     <<"k">>,
                     <<Avg("referer_length", "l"), Count("c"),
                       Min("Referer", "min_referer")>>),
               GreaterEqual("int64", "c", Literal["100001"])),
        <<SortKey("l", "DESC")>>, Literal["25"], 0),
    LET name(i) == "s" \o ToString(i)
    IN  Project(Compute(Global(Scan(<<"ResolutionWidth">>, <<>>),
                               <<Sum("ResolutionWidth", "s0"), Count("c")>>),
                        [i \in 1 .. 89 |-> AggregatedSumPlus("s0", "c", i, name(i))]),
                [i \in 1 .. 90 |-> name(i - 1)])>>

CountsOfClients(child, key) ==
    Top10By(Group(child, <<key, "ClientIP">>,
                  <<Count("c"), Sum("IsRefresh", "sum"),
                    Avg("ResolutionWidth", "avg")>>),
            "c", 0)

Queries31To36 ==
  <<CountsOfClients(QueryWithSearchPhrase(<<"SearchEngineID", "ClientIP", "IsRefresh",
                                            "ResolutionWidth", "SearchPhrase">>),
                    "SearchEngineID"),
    CountsOfClients(QueryWithSearchPhrase(<<"WatchID", "ClientIP", "IsRefresh",
                                            "ResolutionWidth", "SearchPhrase">>),
                    "WatchID"),
    CountsOfClients(Scan(<<"WatchID", "ClientIP", "IsRefresh", "ResolutionWidth">>,
                         <<>>),
                    "WatchID"),
    Top10By(Group(Scan(<<"URL">>, <<>>), <<"URL">>, Counted("c")), "c", 0),
    Top10By(Project(Compute(Group(Scan(<<"URL">>, <<>>), <<"URL">>, Counted("c")),
                            <<ConstantOne>>),
                    <<"one", "URL", "c">>),
            "c", 0),
    Top10By(Project(Compute(Group(Scan(<<"ClientIP">>, <<>>),
                                  <<"ClientIP">>, Counted("c")),
                            <<Int32Minus("ClientIP", 1, "ClientIPMinus1"),
                              Int32Minus("ClientIP", 2, "ClientIPMinus2"),
                              Int32Minus("ClientIP", 3, "ClientIPMinus3")>>),
                    <<"ClientIP", "ClientIPMinus1", "ClientIPMinus2",
                      "ClientIPMinus3", "c">>),
            "c", 0)>>

SmallIntIs(column, x) == EqConstraint(column, "SMALLINT", "int16", x)

Queries37To40 ==
  <<Top10By(Group(Filter(Scan(<<"URL", "CounterID", "EventDate", "DontCountHits",
                                "IsRefresh">>,
                              JulyConstraints(<<SmallIntIs("DontCountHits", 0)>>)),
                         JulyFilters(<<EqualTo("int16", "DontCountHits", 0),
                                       StringNotEmpty("URL")>>)),
                  <<"URL">>, Counted("PageViews")),
            "PageViews", 0),
    Top10By(Group(Filter(Scan(<<"Title", "CounterID", "EventDate", "DontCountHits",
                                "IsRefresh">>,
                              JulyConstraints(<<SmallIntIs("DontCountHits", 0)>>)),
                         JulyFilters(<<EqualTo("int16", "DontCountHits", 0),
                                       StringNotEmpty("Title")>>)),
                  <<"Title">>, Counted("PageViews")),
            "PageViews", 0),
    Top10By(Group(Filter(Scan(<<"URL", "CounterID", "EventDate", "IsRefresh",
                                "IsLink", "IsDownload">>,
                              JulyConstraints(
                                  <<NotEqConstraint("IsLink", "SMALLINT", "int16", 0),
                                    SmallIntIs("IsDownload", 0)>>)),
                         JulyFilters(<<NotEqualTo("int16", "IsLink", 0),
                                       EqualTo("int16", "IsDownload", 0)>>)),
                  <<"URL">>, Counted("PageViews")),
            "PageViews", Literal["1000"]),
    Top10By(Group(Compute(Filter(Scan(<<"TraficSourceID", "SearchEngineID",
                                        "AdvEngineID", "Referer", "URL", "CounterID",
                                        "EventDate", "IsRefresh">>,
                                      JulyConstraints(<<>>)),
                                 JulyFilters(<<>>)),
                          <<CaseSource, UrlDestination>>),
                  <<"TraficSourceID", "SearchEngineID", "AdvEngineID", "Src", "Dst">>,
                  Counted("PageViews")),
            "PageViews", Literal["1000"])>>

Queries41To43 ==
  <<Top10By(Group(Filter(Scan(<<"URLHash", "EventDate", "CounterID", "IsRefresh",
                                "TraficSourceID", "RefererHash">>,
                              JulyConstraints(
                                  <<BetweenConstraint("TraficSourceID", "SMALLINT",
                                                      "int16", -1, 6),
                                    EqConstraint("RefererHash", "BIGINT", "int64",
                                                 Literal["3594120000172545465"])>>)),
                         JulyFilters(<<InSmallInt("TraficSourceID", -1, 6),
                                       EqualTo("int64", "RefererHash",
                                               Literal["3594120000172545465"])>>)),
                  <<"URLHash", "EventDate">>, Counted("PageViews")),
            "PageViews", Literal["100"]),
    Top10By(Group(Filter(Scan(<<"WindowClientWidth", "WindowClientHeight", "CounterID",
                                "EventDate", "IsRefresh", "DontCountHits", "URLHash">>,
                              JulyConstraints(
                                  <<SmallIntIs("DontCountHits", 0),
                                    EqConstraint("URLHash", "BIGINT", "int64",
                                                 Literal["2868770270353813622"])>>)),
                         JulyFilters(<<EqualTo("int16", "DontCountHits", 0),
                                       EqualTo("int64", "URLHash",
                                               Literal["2868770270353813622"])>>)),
                  <<"WindowClientWidth", "WindowClientHeight">>, Counted("PageViews")),
            "PageViews", Literal["10000"]),
    OrderedLimit(
        Group(Compute(Filter(Scan(<<"EventTime", "CounterID", "EventDate", "IsRefresh",
                                    "DontCountHits">>,
                                  <<EqConstraint("CounterID", "INTEGER", "int32", 62),
                                    BetweenConstraint("EventDate", "DATE", "int32",
                                                      July(14), July(15)),
                                    SmallIntIs("IsRefresh", 0),
                                    SmallIntIs("DontCountHits", 0)>>),
                             And(<<EqualTo("int32", "CounterID", 62),
                                   GreaterEqual("int32", "EventDate", July(14)),
                                   LessEqual("int32", "EventDate", July(15)),
                                   EqualTo("int16", "IsRefresh", 0),
                                   EqualTo("int16", "DontCountHits", 0)>>)),
                      <<DateTruncMinute("EventTime", "M")>>),
              <<"M">>, Counted("PageViews")),
        <<SortKey("M", "ASC")>>, Literal["10"], Literal["1000"])>>

Queries ==
    Queries1To13 \o Queries14To23 \o Queries24To30 \o Queries31To36
        \o Queries37To40 \o Queries41To43

Plans == [q \in DOMAIN Queries |-> Physical(Queries[q])]
=============================================================================
