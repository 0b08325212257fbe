------------------------- MODULE MCQuotaReservation -------------------------
(***************************************************************************)
(* Instances of QuotaReservation: short days and months.                   *)
(***************************************************************************)
EXTENDS QuotaReservation, TLC

CONSTANTS k1, k2, r1, r2, alice, bob, root

\* One request a day, two a month, with each key.
MCOneADay == [k \in {k1, k2} |-> [daily |-> 1, monthly |-> 2]]

\* A key of each user; root administers.
MCOwner == (k1 :> alice @@ k2 :> bob)

\* Two requests with one key on any two endpoints (the requests are
\* interchangeable, so each pair comes in one order), or, on each endpoint,
\* one of them with a session of the same user or with the key of another.
MCMixes ==
    LET Order == <<"chat_send", "chat_stream", "openai_send", "openai_retry", "openai_stream">>
        With(i, k, u) == [kind |-> Order[i], key |-> k, user |-> u]
        Mix(i, c) == (r1 :> With(i, k1, alice) @@ r2 :> c)
    IN  UNION {{Mix(i, With(j, k1, alice)) : j \in i..5} : i \in 1..5}
        \cup {Mix(i, With(i, NoKey, alice)) : i \in {2, 3}}
        \cup {Mix(i, With(i, k2, bob)) : i \in {1, 5}}

\* Days of 2 ticks, months of twice as many.
MCDayOfTwo == [daily |-> 2, monthly |-> 4]
====
