----------------------------- MODULE MCVendors -----------------------------
EXTENDS Vendors, TLC
CONSTANTS r1, r2, c1, c2
\* Configurations: a fallback for prices and, for macro data, a vendor that does
\* not offer the tool, the rest as by default; one tool moved, a category open to
\* every vendor and another one of no use.
Own(data, tool) == [data |-> data, tool |-> tool]
Configs ==
    {Own([core_stock_apis |-> <<"yfinance", "alpha_vantage">>, macro_data |-> <<"yfinance">>], <<>>),
     Own([technical_indicators |-> <<>>, fundamental_data |-> <<"fred">>],
         [get_stock_data |-> <<"alpha_vantage">>])}
\* With its key set a vendor can give every result; a key refused is as one not set.
Keys == {{"alpha_vantage", "fred"}}
CallsAlike == Permutations(Call)
RunsAlike == Permutations(Run)
Alike == CallsAlike \cup RunsAlike
=============================================================================
