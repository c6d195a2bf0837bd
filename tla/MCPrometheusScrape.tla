------------------------ MODULE MCPrometheusScrape -------------------------
(* One target with every page, one with short pages.  The pages have       *)
(* histograms, summaries and plain values, families whose labels differ,   *)
(* groups without a count, names that end like a suffix, neighbours that   *)
(* are named alike but for one, families in two places, stale markers.     *)
EXTENDS PrometheusScrape, TLC

CONSTANTS t1, t2

S(name, labels, v) == [name |-> name, labels |-> labels, v |-> v]

None == << >>
A(v) == [a |-> v]

Types == (<<"hist">> :> "histogram") @@ (<<"summ">> :> "summary")
         @@ (<<"reqs", "count">> :> "counter") @@ (<<"temp">> :> "gauge")
         @@ (<<"foo">> :> "gauge") @@ (<<"foo", "count">> :> "counter")

Bucket(ls, le, v) == S(<<"hist", "bucket">>, ("le" :> le) @@ ls, v)
Hist(ls, n) == <<Bucket(ls, 10, 1), Bucket(ls, 5, 0), Bucket(ls, Infinity, n),
                 S(<<"hist", "sum">>, ls, 7), S(<<"hist", "count">>, ls, n)>>
Summ(ls) == <<S(<<"summ">>, ("quantile" :> 5) @@ ls, 3),
              S(<<"summ">>, ("quantile" :> 9) @@ ls, 4),
              S(<<"summ", "sum">>, ls, 7), S(<<"summ", "count">>, ls, 2)>>
Reqs == <<S(<<"reqs", "count">>, A(1), 4), S(<<"reqs", "count">>, A(2), 5)>>
Temp == <<S(<<"temp">>, None, 6), S(<<"temp">>, [b |-> 3], 8)>>
Loose == <<S(<<"free", "sum">>, None, 2), S(<<"free", "bucket">>, [le |-> 5], 2),
           S(<<"other">>, None, 1)>>
Foo == <<S(<<"foo">>, None, 3), S(<<"foo", "count">>, None, 4)>>
Free == <<S(<<"free">>, None, 1), S(<<"free", "sum">>, None, 2)>>
Stale(name) == <<S(name, None, NaN)>>

AllPages ==
    {Hist(A(1), 3) \o Hist(A(2), 2) \o Stale(<<"temp">>),
     Temp \o Hist(None, 3) \o Hist(A(1), 2),
     Summ(None) \o Reqs,
     Summ(A(1)) \o <<S(<<"summ">>, [quantile |-> 5], 3)>> \o Temp,
     Reqs \o Loose,
     SubSeq(Hist(A(1), 3), 1, 3) \o Temp,
     Stale(<<"temp">>),
     Temp \o <<S(<<"hist">>, None, 2)>> \o Reqs,
     Foo \o Hist(None, 2),
     Reverse(Foo) \o Free \o Temp,
     Reverse(Free) \o Reqs,
     Temp \o <<S(<<"summ", "bucket">>, None, 2)>>,
     SubSeq(Temp, 1, 1) \o Summ(None) \o SubSeq(Temp, 2, 2) \o Reqs,
     Temp \o SubSeq(Temp, 1, 1) \o Hist(A(1), 3)}

ShortPages == {Temp, Stale(<<"temp">>), <<>>}

PagesChecked == (t1 :> AllPages) @@ (t2 :> ShortPages)
Stales == {Stale(<<"temp">>), <<>>}
Report == <<S(<<"up">>, None, 1), S(<<"scrape", "duration", "seconds">>, None, 1)>>

=============================================================================
