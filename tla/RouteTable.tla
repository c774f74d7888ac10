------------------------------ MODULE RouteTable ------------------------------
(***************************************************************************)
(* The routes of the controllers, in the order they are registered.  A row is  *)
(* a method, the segments of the path after the controller's, and whom the     *)
(* guards let in:                                                            *)
(*   "public"   no token is asked for; "anyone" if the handler wants a user    *)
(*              should there be one; "visible" behind QuestionVisibilityGuard  *)
(*   "password", "google", "kakao", "apple"  no token, but that login          *)
(*   "user"     JwtAuthGuard alone; then AdminGuard or SuperAdminGuard for      *)
(*              "admin" and "super", GroupMembershipGuard for "member", and     *)
(*              GroupPermissionGuard for a permission of the group's role       *)
(***************************************************************************)
EXTENDS Sequences

At(prefix, rows) ==
  [i \in DOMAIN rows |->
     [method |-> rows[i][1], path |-> prefix \o rows[i][2], access |-> rows[i][3]]]

Params == {":id", ":userId", ":requestId", ":groupId", ":reportId", ":recordId",
           ":withdrawalId", ":itemId", ":ruleId", ":presetId", ":storageId", ":receiptId",
           ":category", ":symbol", ":tagId", ":attachmentId", ":token", ":questionId",
           ":categoryId", ":historyId", ":voteId"}

AiController == At(<<"ai">>, <<
  <<"POST", <<"chat">>, "user">>>>)

MarketBriefingController == At(<<"ai", "market-briefing">>, <<
  <<"GET", <<>>, "user">>>>)

AnnouncementController == At(<<"announcements">>, <<
  <<"GET", <<>>, "anyone">>, <<"GET", <<":id">>, "anyone">>, <<"POST", <<>>, "admin">>,
  <<"PUT", <<":id">>, "admin">>, <<"DELETE", <<":id">>, "admin">>,
  <<"PATCH", <<":id", "pin">>, "admin">>>>)

AppController == At(<<>>, <<
  <<"GET", <<>>, "user">>>>)

AssetAccounts == At(<<"assets">>, <<
  <<"POST", <<"accounts">>, "user">>, <<"GET", <<"accounts">>, "user">>,
  <<"GET", <<"accounts", ":id">>, "user">>,
  <<"PATCH", <<"accounts", "reorder">>, "user">>,
  <<"PATCH", <<"accounts", ":id">>, "user">>,
  <<"DELETE", <<"accounts", ":id">>, "user">>>>)

AssetRecords == At(<<"assets">>, <<
  <<"POST", <<"accounts", ":id", "records">>, "user">>,
  <<"GET", <<"accounts", ":id", "records">>, "user">>,
  <<"DELETE", <<"accounts", ":id", "records", ":recordId">>, "user">>,
  <<"GET", <<"accounts", ":id", "withdrawals">>, "user">>,
  <<"POST", <<"accounts", ":id", "withdrawals">>, "user">>,
  <<"DELETE", <<"accounts", ":id", "withdrawals", ":withdrawalId">>, "user">>>>)

AssetHoldings == At(<<"assets">>, <<
  <<"GET", <<"groups", ":groupId", "holding-records", "names">>, "user">>,
  <<"GET", <<"accounts", ":id", "holding-records">>, "user">>,
  <<"POST", <<"accounts", ":id", "holding-records">>, "user">>,
  <<"PATCH", <<"accounts", ":id", "holding-records", ":recordId">>, "user">>,
  <<"DELETE", <<"accounts", ":id", "holding-records", ":recordId">>, "user">>,
  <<"GET", <<"gold", "current-price">>, "user">>, <<"GET", <<"statistics">>, "user">>,
  <<"GET", <<"statistics", "trend">>, "user">>,
  <<"GET", <<"accounts", ":id", "statistics", "trend">>, "user">>>>)

AuthLogin == At(<<"auth">>, <<
  <<"POST", <<"signup">>, "public">>, <<"POST", <<"login">>, "password">>>>)

AuthTokens == At(<<"auth">>, <<
  <<"POST", <<"refresh">>, "public">>, <<"POST", <<"logout">>, "public">>>>)

AuthCodes == At(<<"auth">>, <<
  <<"POST", <<"verify-email">>, "public">>,
  <<"POST", <<"resend-verification">>, "public">>, <<"GET", <<"me">>, "user">>,
  <<"POST", <<"request-password-reset">>, "public">>,
  <<"POST", <<"reset-password">>, "public">>>>)

AuthProfile == At(<<"auth">>, <<
  <<"PATCH", <<"update-profile">>, "user">>,
  <<"POST", <<"upload-profile-photo">>, "user">>>>)

AuthGoogle == At(<<"auth">>, <<
  <<"POST", <<"google", "mobile">>, "public">>, <<"GET", <<"google">>, "google">>,
  <<"GET", <<"google", "callback">>, "google">>,
  <<"POST", <<"kakao", "mobile">>, "public">>, <<"GET", <<"kakao">>, "kakao">>,
  <<"GET", <<"kakao", "callback">>, "kakao">>>>)

AuthApple == At(<<"auth">>, <<
  <<"POST", <<"apple", "mobile">>, "public">>, <<"GET", <<"apple">>, "apple">>,
  <<"POST", <<"apple", "callback">>, "apple">>,
  <<"POST", <<"social-signup">>, "public">>>>)

AuthAccount == At(<<"auth">>, <<
  <<"PUT", <<"location">>, "user">>, <<"DELETE", <<"me">>, "user">>,
  <<"POST", <<"me", "cancel-delete">>, "user">>, <<"GET", <<"me", "export">>, "user">>,
  <<"DELETE", <<"admin", "users", ":userId">>, "super">>,
  <<"POST", <<"admin", "users", ":userId", "cancel-delete">>, "super">>,
  <<"DELETE", <<"admin", "users", ":userId", "force">>, "super">>,
  <<"PATCH", <<"admin", "users", ":userId", "grant-admin">>, "super">>,
  <<"PATCH", <<"admin", "users", ":userId", "revoke-admin">>, "super">>>>)

ChildcareChildren == At(<<"childcare">>, <<
  <<"POST", <<"children">>, "user">>, <<"GET", <<"children">>, "user">>,
  <<"POST", <<"children", ":id", "link-user">>, "user">>,
  <<"GET", <<"accounts">>, "user">>, <<"GET", <<"accounts", ":id">>, "user">>,
  <<"POST", <<"children", ":id", "allowance-plan">>, "user">>,
  <<"GET", <<"children", ":id", "allowance-plan">>, "user">>,
  <<"GET", <<"children", ":id", "allowance-plan", "history">>, "user">>>>)

ChildcareAccount == At(<<"childcare">>, <<
  <<"POST", <<"accounts", ":id", "transactions">>, "user">>,
  <<"GET", <<"accounts", ":id", "transactions">>, "user">>,
  <<"GET", <<"accounts", ":id", "shop-items">>, "user">>,
  <<"POST", <<"accounts", ":id", "shop-items">>, "user">>,
  <<"PATCH", <<"accounts", ":id", "shop-items", "reorder">>, "user">>,
  <<"PATCH", <<"accounts", ":id", "shop-items", ":itemId">>, "user">>,
  <<"DELETE", <<"accounts", ":id", "shop-items", ":itemId">>, "user">>>>)

ChildcareRules == At(<<"childcare">>, <<
  <<"GET", <<"accounts", ":id", "rules">>, "user">>,
  <<"POST", <<"accounts", ":id", "rules">>, "user">>,
  <<"PATCH", <<"accounts", ":id", "rules", "reorder">>, "user">>,
  <<"PATCH", <<"accounts", ":id", "rules", ":ruleId">>, "user">>,
  <<"DELETE", <<"accounts", ":id", "rules", ":ruleId">>, "user">>,
  <<"GET", <<"accounts", ":id", "savings", "kr3y-rate">>, "user">>,
  <<"POST", <<"accounts", ":id", "savings", "plan">>, "user">>,
  <<"GET", <<"accounts", ":id", "savings", "plan">>, "user">>,
  <<"DELETE", <<"accounts", ":id", "savings", "plan">>, "user">>>>)

ExpiryPresetController == At(<<"fridge">>, <<
  <<"GET", <<"expiry-presets">>, "user">>, <<"PUT", <<"expiry-presets">>, "user">>,
  <<"DELETE", <<"expiry-presets", ":presetId">>, "user">>>>)

FridgeItems == At(<<"fridge">>, <<
  <<"GET", <<"item-names">>, "user">>, <<"GET", <<"storages">>, "user">>,
  <<"POST", <<"storages">>, "user">>, <<"PATCH", <<"storages", "reorder">>, "user">>,
  <<"PATCH", <<"storages", ":storageId">>, "user">>,
  <<"DELETE", <<"storages", ":storageId">>, "user">>, <<"GET", <<"items">>, "user">>,
  <<"POST", <<"items">>, "user">>, <<"POST", <<"items", "bulk">>, "user">>,
  <<"PATCH", <<"items", "bulk">>, "user">>>>)

FridgeFrequent == At(<<"fridge">>, <<
  <<"PATCH", <<"items", ":itemId">>, "user">>,
  <<"DELETE", <<"items", ":itemId">>, "user">>,
  <<"PATCH", <<"items", ":itemId", "quantity">>, "user">>,
  <<"GET", <<"frequent-items">>, "user">>, <<"POST", <<"frequent-items">>, "user">>,
  <<"PATCH", <<"frequent-items", "reorder">>, "user">>,
  <<"PATCH", <<"frequent-items", ":itemId">>, "user">>,
  <<"DELETE", <<"frequent-items", ":itemId">>, "user">>>>)

GroupMembers == At(<<"groups">>, <<
  <<"GET", <<"my-join-requests">>, "user">>, <<"POST", <<"join">>, "user">>,
  <<"POST", <<":id", "leave">>, "user">>, <<"GET", <<":id", "members">>, "member">>,
  <<"PATCH", <<":id", "members", ":userId", "role">>, "MANAGE_MEMBER">>,
  <<"PATCH", <<":id", "my-color">>, "member">>,
  <<"DELETE", <<":id", "members", ":userId">>, "MANAGE_MEMBER">>>>)

GroupRequests == At(<<"groups">>, <<
  <<"POST", <<":id", "regenerate-code">>, "INVITE_MEMBER">>,
  <<"POST", <<":id", "transfer-ownership">>, "user">>,
  <<"GET", <<":id", "join-requests">>, "INVITE_MEMBER">>,
  <<"POST", <<":id", "join-requests", ":requestId", "accept">>, "INVITE_MEMBER">>,
  <<"POST", <<":id", "join-requests", ":requestId", "reject">>, "INVITE_MEMBER">>,
  <<"GET", <<"my-reports">>, "user">>,
  <<"POST", <<":id", "members", ":userId", "report">>, "member">>>>)

GroupReportAdminController == At(<<"groups", "admin", "reports">>, <<
  <<"GET", <<>>, "admin">>, <<"PATCH", <<":reportId">>, "admin">>>>)

GroupRoleController == At(<<"groups">>, <<
  <<"GET", <<":groupId", "roles">>, "member">>,
  <<"POST", <<":groupId", "roles">>, "MANAGE_ROLE">>,
  <<"PATCH", <<":groupId", "roles", ":id">>, "MANAGE_ROLE">>,
  <<"DELETE", <<":groupId", "roles", ":id">>, "MANAGE_ROLE">>,
  <<"PATCH", <<":groupId", "roles", "bulk", "sort-order">>, "MANAGE_ROLE">>>>)

GroupController == At(<<"groups">>, <<
  <<"POST", <<>>, "user">>, <<"GET", <<>>, "user">>,
  <<"PATCH", <<"my-order">>, "user">>, <<"GET", <<":id">>, "member">>,
  <<"PATCH", <<":id">>, "UPDATE_GROUP">>, <<"DELETE", <<":id">>, "DELETE_GROUP">>>>)

HouseholdExpenses == At(<<"household">>, <<
  <<"POST", <<"expenses">>, "user">>, <<"GET", <<"expenses">>, "user">>,
  <<"GET", <<"expenses", ":id">>, "user">>, <<"PATCH", <<"expenses", ":id">>, "user">>,
  <<"DELETE", <<"expenses", ":id">>, "user">>,
  <<"GET", <<"expenses", ":id", "receipts", "upload-url">>, "user">>,
  <<"POST", <<"expenses", ":id", "receipts", "confirm">>, "user">>,
  <<"DELETE", <<"expenses", ":id", "receipts", ":receiptId">>, "user">>,
  <<"GET", <<"statistics">>, "user">>, <<"GET", <<"statistics", "yearly">>, "user">>>>)

HouseholdBudgets == At(<<"household">>, <<
  <<"POST", <<"budgets", "bulk">>, "user">>, <<"GET", <<"budgets">>, "user">>,
  <<"POST", <<"budget-templates", "bulk">>, "user">>,
  <<"GET", <<"budget-templates">>, "user">>,
  <<"DELETE", <<"budget-templates", ":category">>, "user">>,
  <<"GET", <<"group-budgets">>, "user">>,
  <<"GET", <<"group-budget-templates">>, "user">>,
  <<"DELETE", <<"group-budget-templates">>, "user">>>>)

HouseholdRecurring == At(<<"household">>, <<
  <<"POST", <<"recurring-expenses">>, "user">>,
  <<"GET", <<"recurring-expenses">>, "user">>,
  <<"GET", <<"recurring-expenses", ":id">>, "user">>,
  <<"PATCH", <<"recurring-expenses", ":id">>, "user">>,
  <<"GET", <<"recurring-expenses", ":id", "history">>, "user">>,
  <<"DELETE", <<"recurring-expenses", ":id">>, "user">>,
  <<"POST", <<"merchants">>, "user">>, <<"GET", <<"merchants">>, "user">>,
  <<"PATCH", <<"merchants", ":id">>, "user">>,
  <<"DELETE", <<"merchants", ":id">>, "user">>>>)

InvestmentController == At(<<"indicators">>, <<
  <<"GET", <<>>, "user">>, <<"GET", <<"bookmarks">>, "user">>,
  <<"PATCH", <<"bookmarks", "reorder">>, "user">>, <<"GET", <<":symbol">>, "user">>,
  <<"GET", <<":symbol", "history">>, "user">>,
  <<"POST", <<":symbol", "bookmark">>, "user">>,
  <<"DELETE", <<":symbol", "bookmark">>, "user">>,
  <<"POST", <<"admin", "init-history">>, "admin">>>>)

LinkPreviewController == At(<<"link-preview">>, <<
  <<"GET", <<>>, "user">>>>)

MemoTexts == At(<<"memos">>, <<
  <<"POST", <<>>, "user">>, <<"GET", <<>>, "user">>, <<"GET", <<"tags">>, "user">>,
  <<"GET", <<"pinned">>, "user">>, <<"GET", <<":id">>, "user">>,
  <<"PATCH", <<":id">>, "user">>, <<"DELETE", <<":id">>, "user">>,
  <<"POST", <<":id", "pin">>, "user">>>>)

MemoParts == At(<<"memos">>, <<
  <<"POST", <<":id", "tags">>, "user">>,
  <<"DELETE", <<":id", "tags", ":tagId">>, "user">>,
  <<"POST", <<":id", "attachments">>, "user">>,
  <<"DELETE", <<":id", "attachments", ":attachmentId">>, "user">>,
  <<"POST", <<":id", "lock">>, "user">>, <<"DELETE", <<":id", "lock">>, "user">>,
  <<"POST", <<":id", "lock", "heartbeat">>, "user">>>>)

MinigameController == At(<<"minigames">>, <<
  <<"POST", <<"results">>, "user">>, <<"GET", <<"results">>, "user">>,
  <<"DELETE", <<"results", ":id">>, "user">>>>)

NotificationController == At(<<"notifications">>, <<
  <<"POST", <<"token">>, "user">>, <<"DELETE", <<"token", ":token">>, "user">>,
  <<"GET", <<"settings">>, "user">>, <<"PUT", <<"settings">>, "user">>,
  <<"GET", <<>>, "user">>, <<"GET", <<"unread-count">>, "user">>,
  <<"PUT", <<"read-all">>, "user">>, <<"PUT", <<":id", "read">>, "user">>,
  <<"DELETE", <<":id">>, "user">>, <<"POST", <<"test">>, "admin">>,
  <<"POST", <<"schedule">>, "user">>>>)

PermissionController == At(<<"permissions">>, <<
  <<"GET", <<>>, "user">>, <<"POST", <<>>, "admin">>, <<"PATCH", <<":id">>, "admin">>,
  <<"DELETE", <<":id">>, "admin">>, <<"DELETE", <<":id", "hard">>, "admin">>,
  <<"PATCH", <<"bulk", "sort-order">>, "admin">>>>)

QnaAdminController == At(<<"qna", "admin">>, <<
  <<"GET", <<"questions">>, "admin">>, <<"GET", <<"statistics">>, "admin">>,
  <<"POST", <<"questions", ":questionId", "answers">>, "admin">>,
  <<"PUT", <<"questions", ":questionId", "answers", ":id">>, "admin">>,
  <<"DELETE", <<"questions", ":questionId", "answers", ":id">>, "admin">>>>)

QnaPublicController == At(<<"public", "qna">>, <<
  <<"GET", <<"questions">>, "public">>>>)

QnaController == At(<<"qna">>, <<
  <<"GET", <<"questions">>, "user">>, <<"GET", <<"questions", ":id">>, "visible">>,
  <<"POST", <<"questions">>, "user">>, <<"PUT", <<"questions", ":id">>, "user">>,
  <<"POST", <<"questions", ":id", "resolve">>, "user">>,
  <<"DELETE", <<"questions", ":id">>, "user">>>>)

RoleController == At(<<"roles">>, <<
  <<"GET", <<>>, "admin">>, <<"POST", <<>>, "admin">>, <<"PATCH", <<":id">>, "admin">>,
  <<"DELETE", <<":id">>, "admin">>, <<"PATCH", <<"bulk", "sort-order">>, "admin">>>>)

RoutineOverview == At(<<"routines">>, <<
  <<"POST", <<>>, "user">>, <<"GET", <<>>, "user">>,
  <<"GET", <<"stats", "summary">>, "user">>, <<"GET", <<"stats", "overview">>, "user">>,
  <<"GET", <<"stats", "daily-streak">>, "user">>, <<"GET", <<"settings">>, "user">>,
  <<"PATCH", <<"settings">>, "user">>, <<"GET", <<"badges">>, "user">>,
  <<"POST", <<"categories">>, "user">>, <<"GET", <<"categories">>, "user">>>>)

RoutinePlaces == At(<<"routines">>, <<
  <<"PATCH", <<"categories", "sort-order">>, "user">>,
  <<"GET", <<"categories", ":id">>, "user">>,
  <<"PATCH", <<"categories", ":id">>, "user">>,
  <<"DELETE", <<"categories", ":id">>, "user">>,
  <<"POST", <<"routine-groups">>, "user">>, <<"GET", <<"routine-groups">>, "user">>,
  <<"PATCH", <<"routine-groups", "sort-order">>, "user">>,
  <<"GET", <<"routine-groups", ":id">>, "user">>,
  <<"PATCH", <<"routine-groups", ":id">>, "user">>,
  <<"DELETE", <<"routine-groups", ":id">>, "user">>>>)

RoutineGroupViews == At(<<"routines">>, <<
  <<"GET", <<"me", "badges">>, "user">>,
  <<"GET", <<"groups", ":groupId", "members">>, "user">>,
  <<"GET", <<"groups", ":groupId", "leaderboard">>, "user">>,
  <<"GET", <<"groups", ":groupId", "members", ":userId">>, "user">>,
  <<"PATCH", <<"sort-order">>, "user">>,
  <<"PATCH", <<"daily-goal-inclusions">>, "user">>, <<"GET", <<":id">>, "user">>>>)

RoutineSelf == At(<<"routines">>, <<
  <<"PATCH", <<":id">>, "user">>, <<"DELETE", <<":id">>, "user">>,
  <<"PATCH", <<":id", "pause">>, "user">>, <<"PATCH", <<":id", "resume">>, "user">>,
  <<"POST", <<":id", "check">>, "user">>, <<"DELETE", <<":id", "check">>, "user">>,
  <<"POST", <<":id", "shares">>, "user">>,
  <<"DELETE", <<":id", "shares", ":groupId">>, "user">>,
  <<"GET", <<":id", "shares">>, "user">>, <<"POST", <<":id", "categories">>, "user">>,
  <<"DELETE", <<":id", "categories", ":categoryId">>, "user">>,
  <<"GET", <<":id", "categories">>, "user">>>>)

RoutineFigures == At(<<"routines">>, <<
  <<"GET", <<":id", "badges">>, "user">>,
  <<"GET", <<":id", "stats", "heatmap">>, "user">>,
  <<"GET", <<":id", "stats", "streak">>, "user">>,
  <<"GET", <<":id", "stats", "rate">>, "user">>>>)

SavingsController == At(<<"savings">>, <<
  <<"POST", <<>>, "user">>, <<"GET", <<>>, "user">>, <<"GET", <<":id">>, "user">>,
  <<"PATCH", <<":id">>, "user">>, <<"DELETE", <<":id">>, "user">>,
  <<"POST", <<":id", "pause">>, "user">>, <<"POST", <<":id", "resume">>, "user">>,
  <<"POST", <<":id", "deposit">>, "user">>, <<"POST", <<":id", "withdraw">>, "user">>,
  <<"GET", <<":id", "transactions">>, "user">>>>)

ShoppingController == At(<<"shopping">>, <<
  <<"GET", <<"cart">>, "user">>, <<"PATCH", <<"cart", "items", "bulk">>, "user">>,
  <<"PATCH", <<"cart", "items", ":itemId">>, "user">>,
  <<"DELETE", <<"cart", "items", ":itemId">>, "user">>,
  <<"POST", <<"cart", "complete">>, "user">>, <<"GET", <<"history">>, "user">>,
  <<"GET", <<"history", ":historyId">>, "user">>,
  <<"DELETE", <<"history", ":historyId">>, "user">>>>)

StorageUploads == At(<<"storage">>, <<
  <<"POST", <<"editor-upload">>, "user">>, <<"POST", <<"upload">>, "user">>>>)

StorageObjects == At(<<"storage">>, <<
  <<"GET", <<"download">>, "user">>, <<"DELETE", <<>>, "user">>,
  <<"GET", <<"exists">>, "user">>>>)

SubscriptionAdminController == At(<<"subscription", "admin">>, <<
  <<"GET", <<"users">>, "admin">>, <<"GET", <<"users", ":userId">>, "admin">>,
  <<"PATCH", <<"users", ":userId", "subscription">>, "admin">>>>)

SubscriptionController == At(<<"subscription">>, <<
  <<"GET", <<>>, "user">>, <<"POST", <<"verify">>, "user">>,
  <<"POST", <<"restore">>, "user">>>>)

TaskPlaces == At(<<"tasks">>, <<
  <<"GET", <<"holidays">>, "user">>, <<"GET", <<"categories", "all">>, "user">>,
  <<"GET", <<"categories">>, "user">>, <<"POST", <<"categories">>, "user">>,
  <<"PUT", <<"categories", ":id">>, "user">>,
  <<"DELETE", <<"categories", ":id">>, "user">>, <<"GET", <<"anniversaries">>, "user">>,
  <<"GET", <<"anniversaries", ":id">>, "user">>,
  <<"POST", <<"anniversaries">>, "user">>,
  <<"PUT", <<"anniversaries", ":id">>, "user">>,
  <<"DELETE", <<"anniversaries", ":id">>, "user">>>>)

TaskRows == At(<<"tasks">>, <<
  <<"GET", <<>>, "user">>, <<"GET", <<":id">>, "user">>, <<"POST", <<>>, "user">>,
  <<"PUT", <<":id">>, "user">>, <<"PATCH", <<":id", "status">>, "user">>,
  <<"DELETE", <<":id">>, "user">>,
  <<"PATCH", <<"recurrings", ":id", "pause">>, "user">>,
  <<"POST", <<"recurrings", ":id", "skip">>, "user">>>>)

VoteController == At(<<"votes">>, <<
  <<"GET", <<":groupId">>, "user">>, <<"GET", <<":groupId", ":voteId">>, "user">>,
  <<"POST", <<":groupId">>, "user">>, <<"DELETE", <<":groupId", ":voteId">>, "user">>,
  <<"POST", <<":groupId", ":voteId", "ballots">>, "user">>,
  <<"DELETE", <<":groupId", ":voteId", "ballots">>, "user">>>>)

WeatherController == At(<<"weather">>, <<
  <<"GET", <<>>, "user">>, <<"GET", <<"forecast">>, "user">>>>)

WebhookController == At(<<"webhook">>, <<
  <<"POST", <<"sentry">>, "public">>, <<"POST", <<"apple">>, "public">>,
  <<"POST", <<"google">>, "public">>>>)

\* Those of the GroupModule.
GroupRoutes ==
  GroupMembers \o GroupRequests \o GroupController \o GroupRoleController
  \o GroupReportAdminController

\* The modules of AppModule, in its order, after the controller of its own.
Routes ==
  AppController \o AuthLogin \o AuthTokens \o AuthCodes \o AuthProfile \o AuthGoogle
  \o AuthApple \o AuthAccount \o GroupRoutes \o PermissionController
  \o RoleController \o StorageUploads \o StorageObjects \o NotificationController
  \o AnnouncementController \o QnaPublicController \o QnaController
  \o QnaAdminController \o TaskPlaces \o TaskRows \o MemoTexts \o MemoParts
  \o RoutineOverview \o RoutinePlaces \o RoutineGroupViews \o RoutineSelf
  \o RoutineFigures \o LinkPreviewController \o WebhookController \o HouseholdExpenses
  \o HouseholdBudgets \o HouseholdRecurring \o AssetAccounts \o AssetRecords
  \o AssetHoldings \o InvestmentController \o ChildcareChildren \o ChildcareAccount
  \o ChildcareRules \o MinigameController \o AiController \o MarketBriefingController
  \o WeatherController \o VoteController \o SavingsController
  \o SubscriptionController \o SubscriptionAdminController \o FridgeItems
  \o FridgeFrequent \o ExpiryPresetController \o ShoppingController

=============================================================================
