---------------------------- MODULE MCCustomers ----------------------------
(* The customer's side for TLC: the price feed, its source, the app, the     *)
(* creation of the profile and the landing page's waiting list and beacons.  *)
(* They keep no state in common, so the one that moves is chosen at the      *)
(* start.                                                                    *)
EXTENDS FeedIngestion, FuelFinder, CustomerApp, Onboarding, LandingPage, TLC

CONSTANTS s1, s2,
  Machines      \* the parts to try

\* A snapshot with an implausible price, and a later one with a price that is a day old.
\* A delayed run may carry either.
Reading(price, observed, plausible) ==
  [price |-> price, observed |-> observed, plausible |-> plausible]
Snapshots ==
  { (s1 :> Reading(3, 1, TRUE)) @@ (s2 :> Reading(9, 1, FALSE)),
    (s1 :> Reading(4, 2, TRUE)) @@ (s2 :> Reading(2, 0, TRUE)) }

Interchangeable == Permutations(Run)

\* A list of three rows, which its second page ends, and one that fills the last page
\* allowed; a row without a brand, one without a price, two brands that become one provider.
Row(id, brand, price) == [id |-> id, brand |-> brand, price |-> price]
PriceLists ==
  { <<Row("x", "Shell", 5), Row("y", "none", 7), Row("v", "none", 6), Row("w", "SHELL", 0)>>,
    <<Row("x", "Shell", 4), Row("w", "SHELL", 3), Row("v", "none", 9)>> }
Brands == "x" :> "BP" @@ "y" :> "BP"
ProviderIds == "Shell" :> "shell" @@ "SHELL" :> "shell" @@ "BP" :> "bp" @@ "Independent" :> "independent"

\* Two American stations of one brand, and one British.
OneBrand == "p" :> "Shell" @@ "q" :> "Shell" @@ "g" :> "Shell"
PriceFeeds == "US" :> {"p" :> 35000 @@ "q" :> 33900, "p" :> 41990} @@ "GB" :> {"g" :> 14190}
Controls == {[price |-> 34200, paused |-> FALSE], [price |-> 36700, paused |-> TRUE]}
CloudPrices == "US" :> 30500 @@ "GB" :> 14200

\* A country that asks for a state, and one that does not; postcodes of either.
Steps == <<"country", "gender", "zip", "email">>
FewSteps == <<"country", "zip", "email">>
Values ==
  "country" :> {"australia", "uk"} @@ "gender" :> {"any"} @@ "zip" :> {"2000", "SW1"} @@ "email" :> {"e"}
StatesOf == "australia" :> {"nsw"} @@ "uk" :> {}
PostalOf == "australia" :> {"2000"} @@ "uk" :> {"SW1"}
PostsOf == "file" :> 6 @@ "supabase" :> 3
\* Two requests of one session, the second of which completes it, and one of another.
Signed(key, done) == [key |-> key, market |-> "uk", completed |-> done]
Rows == "t1" :> Signed("a", FALSE) @@ "t2" :> Signed("a", TRUE) @@ "t3" :> Signed("b", FALSE)
MorePosts == "supabase" :> 4

-----------------------------------------------------------------------------
VARIABLE machine   \* the one that moves

Init ==
  /\ machine \in Machines
  /\ FeedInit /\ FinderInit /\ AppInit /\ OnboardInit /\ SignupInit /\ DashboardInit
  /\ machine # "app" => cloud.session = "none"
  /\ machine # "onboarding" => linked
  /\ Len(source.list) = 4   \* the shorter list comes by a change
  /\ machine # "signup" => backend = CHOOSE b \in Backends : TRUE

appSide == <<appVars, onboardVars>>
pageSide == <<signupVars, dashboardVars>>
feedSide == <<feedVars, finderVars>>

FeedSide ==
  \/ machine = "feed" /\ FeedNext /\ UNCHANGED finderVars
  \/ machine = "fetch" /\ FinderNext /\ UNCHANGED feedVars

AppSide ==
  \/ machine = "app" /\ AppNext /\ UNCHANGED onboardVars
  \/ machine = "onboarding" /\ OnboardNext /\ UNCHANGED appVars

PageSide ==
  \/ machine = "signup" /\ OverlayNext /\ UNCHANGED dashboardVars
  \/ machine = "site" /\ SiteNext /\ UNCHANGED dashboardVars
  \/ machine = "store" /\ DashboardNext /\ UNCHANGED signupVars

Next ==
  \/ FeedSide /\ UNCHANGED <<machine, appSide, pageSide>>
  \/ AppSide /\ UNCHANGED <<machine, feedSide, pageSide>>
  \/ PageSide /\ UNCHANGED <<machine, feedSide, appSide>>

Spec == Init /\ [][Next]_<<machine, feedSide, appSide, pageSide>>
=============================================================================
