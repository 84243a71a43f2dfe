----------------------------- MODULE MCDeclaration -----------------------------
(* Instances of Declaration for TLC. *)
EXTENDS Declaration

MCDates == {<<2026, 4, 5>>, <<2026, 4, 4>>, <<2024, 2, 29>>, <<1979, 11, 30>>, <<2080, 3, 2>>}

Total(ht, vat, ttc) == [ht |-> ht, vat |-> vat, ttc |-> ttc]
MCTotals == {Total(10000, 2400, 12400), Total(10000, 0, 10000), Total(10000, 2400, 12500),
             Total(None, None, 12400), Total(0, 0, 0), Total(20000, 4699, 24699), Total(-3333, -450, -3783),
             Total(-10000, 0, -10000)}
MCTypedTotals == {Total(20000, 4800, 24800)}

Row(n, rate, net) == [line_number |-> n, vat_rate |-> rate, line_total_ht |-> net]
MCPrintedLines == {<<>>, <<Row(1, 240000, 10000)>>, <<Row(1, 2400, 10000)>>,
                   <<Row(1, 60000, 5000), Row(2, None, 5000)>>, <<Row(1, 0, 10000)>>,
                   <<Row(1, -30, 10000)>>}
MCTypedLines == {<<>>, <<Row(1, 1300, None), Row(2, 600, 3333)>>,
                 <<Row(1, 1350, 5001), Row(2, 2350, 5000)>>, <<Row(1, None, None)>>}

MCAmounts == {0, 5, 99, 1000, 12345, 99900, 100000, 123456, 1200000, 99999900, 100000000, 123456789}
================================================================================
