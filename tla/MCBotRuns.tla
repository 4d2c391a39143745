------------------------------ MODULE MCBotRuns -----------------------------
(* Instance of BotRuns: each service called by cron and by an operator.      *)
EXTENDS BotRuns
CONSTANTS cronReview, httpReview, cronAccounting, httpAccounting, unwind1
MCReviews == {cronReview, httpReview}
MCAccountings == {cronAccounting, httpAccounting}
MCUnwinds == {unwind1}
MCCanWait == {cronReview, cronAccounting}
=============================================================================
