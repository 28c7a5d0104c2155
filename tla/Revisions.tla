------------------------------ MODULE Revisions ------------------------------
(***************************************************************************)
(* The migrations of the database (migrations/versions), as sequences of   *)
(* the operations of Schema, and the tables the program's models name      *)
(* (app/models).  Only columns, constraints and indexes that some revision *)
(* adds, drops or tests outside the creation of their table are told       *)
(* apart; types, lengths, nullability of existing columns and the seed     *)
(* rows of hsn_master are left out.                                        *)
(***************************************************************************)
EXTENDS Schema

Born == {"created_at"}
Stamps == {"created_at", "updated_at"}

\* Revision 1b03ef9c8006: the shop itself.
InitialPeople ==
    << Types({"user_role_enum"}), Create("users", {}, Born), Types({"store_type_enum"}),
       Create("stores", {"users"}, {}), Refer("users", "stores"),
       Create("categories", {"stores"}, {}), Create("customers", {"stores"}, Born),
       Types({"product_uom_enum"}), Create("products", {"categories", "stores"}, {}) >>
InitialTrade ==
    << Types({"payment_mode_enum"}),
       Create("transactions", {"customers", "stores", "transactions"}, Born),
       Add("transactions", {"idx_created"}),
       Create("transaction_items", {"products", "transactions"}, {}),
       Create("product_price_history", {"products", "users"}, {}),
       Create("stock_audits", {"stores", "users"}, {}),
       Create("stock_audit_items", {"products", "stock_audits"}, {}),
       Create("stock_adjustments", {"products", "users"}, {}) >>
InitialRecords ==
    << Types({"alert_priority_enum"}), Create("alerts", {"products", "stores"}, Born),
       Create("forecast_cache", {"products", "stores"}, {}), Create("daily_store_summary", {}, {}),
       Create("daily_category_summary", {}, {}), Create("daily_sku_summary", {}, {}) >>
InitialUp == InitialPeople \o InitialTrade \o InitialRecords
InitialDown ==
    << Drop("daily_sku_summary"), Drop("daily_category_summary"), Drop("daily_store_summary"),
       Drop("forecast_cache"), Drop("alerts"), Drop("stock_adjustments"), Drop("stock_audit_items"),
       Drop("stock_audits"), Drop("product_price_history"), Drop("transaction_items"),
       Lose("transactions", {"idx_created"}), Drop("transactions"), Drop("products"),
       Drop("customers"), Drop("categories"), Unrefer("users", "stores"), Drop("stores"),
       Drop("users") >>

\* Revision a3f91d2c5b88.
BarcodeUp ==
    << Create("barcodes", {"products", "stores"}, Born),
       Create("receipt_templates", {"stores"}, {"updated_at"}),
       Create("print_jobs", {"stores", "transactions"}, Born) >>
BarcodeDown == << Drop("print_jobs"), Drop("receipt_templates"), Drop("barcodes") >>

\* Revision b4g02e3d6c99.
SupplierUp ==
    << Create("suppliers", {"stores"}, Stamps),
       Create("supplier_products", {"products", "suppliers"}, {}),
       Create("purchase_orders", {"stores", "suppliers", "users"}, Stamps),
       Create("purchase_order_items", {"products", "purchase_orders"}, {}),
       Create("goods_receipt_notes", {"purchase_orders", "stores", "users"}, {}) >>
SupplierDown ==
    << Drop("goods_receipt_notes"), Drop("purchase_order_items"), Drop("purchase_orders"),
       Drop("supplier_products"), Drop("suppliers") >>

\* Revision 6cd27932870e.
StaffUp ==
    << Create("staff_daily_targets", {"stores", "users"}, {}),
       Create("staff_sessions", {"stores", "users"}, {}), Add("transactions", {"session_id"}),
       Refer("transactions", "staff_sessions") >>
StaffDown ==
    << Unrefer("transactions", "staff_sessions"), Lose("transactions", {"session_id"}),
       Drop("staff_sessions"), Drop("staff_daily_targets") >>

\* Revision 57dd177fb8f4.
SnapshotUp == << Create("analytics_snapshots", {"stores"}, {}) >>
SnapshotDown == << Drop("analytics_snapshots") >>

\* Revision a5f8e91c7b3d.
LoyaltyUp ==
    << Create("loyalty_programs", {"stores"}, {}),
       Create("customer_loyalty_accounts", {"customers", "stores"}, {}),
       Create("loyalty_transactions", {"customer_loyalty_accounts", "transactions"}, Born),
       Create("credit_ledger", {"customers", "stores"}, {"updated_at"}),
       Create("credit_transactions", {"credit_ledger", "transactions"}, Born) >>
LoyaltyDown ==
    << Drop("credit_transactions"), Drop("credit_ledger"), Drop("loyalty_transactions"),
       Drop("customer_loyalty_accounts"), Drop("loyalty_programs") >>

\* Revision 908d85de1d01.
GstUp ==
    << Create("hsn_master", {}, {}), Add("products", {"hsn_code", "gst_category"}),
       Refer("products", "hsn_master"), Create("store_gst_config", {"stores"}, {}),
       Create("gst_transactions", {"stores", "transactions"}, Born),
       Create("gst_filing_periods", {"stores"}, {}) >>
GstDown ==
    << Drop("gst_filing_periods"), Drop("gst_transactions"), Drop("store_gst_config"),
       Unrefer("products", "hsn_master"), Lose("products", {"gst_category", "hsn_code"}),
       Drop("hsn_master") >>

\* Revision b966c53b0061.
WhatsappUp ==
    << Create("whatsapp_config", {"stores"}, {}), Create("whatsapp_message_log", {"stores"}, Born),
       Create("whatsapp_templates", {"stores"}, {}) >>
WhatsappDown ==
    << Drop("whatsapp_templates"), Drop("whatsapp_message_log"), Drop("whatsapp_config") >>

\* Revision 64289450c79b.
ChainUp ==
    << Create("store_groups", {"users"}, Born),
       Create("chain_daily_aggregates", {"store_groups", "stores"}, {}),
       Create("store_group_memberships", {"store_groups", "stores", "users"}, {}),
       Create("inter_store_transfer_suggestions", {"products", "store_groups", "stores"}, Born) >>
ChainDown ==
    << Drop("inter_store_transfer_suggestions"), Drop("store_group_memberships"),
       Drop("chain_daily_aggregates"), Drop("store_groups") >>

\* Revision c3d91f2a7b44.
PricingUp ==
    << Add("product_price_history", {"store_id"}), Refer("product_price_history", "stores"),
       Add("product_price_history", {"old_price", "new_price", "reason"}),
       Create("pricing_suggestions", {"products", "stores"}, Born),
       Add("pricing_suggestions", {"idx_created"}), Create("pricing_rules", {"stores"}, Born) >>
PricingDown ==
    << Drop("pricing_rules"), Lose("pricing_suggestions", {"idx_created"}),
       Drop("pricing_suggestions"), Unrefer("product_price_history", "stores"),
       Lose("product_price_history", {"reason", "new_price", "old_price", "store_id"}) >>

\* Revision e7b8c9d0a1f2.
EventUp ==
    << Create("business_events", {"stores"}, Born),
       Create("demand_sensing_log", {"products", "stores"}, Born),
       Create("event_impact_actuals", {"business_events", "products"}, {}) >>
EventDown ==
    << Drop("event_impact_actuals"), Drop("demand_sensing_log"), Drop("business_events") >>

\* Revision 31f7ac7d8d9a.
OcrUp ==
    << Create("ocr_jobs", {"stores"}, Born), Create("vision_category_tags", {"ocr_jobs"}, {}),
       Create("ocr_job_items", {"ocr_jobs", "products"}, {}) >>
OcrDown == << Drop("ocr_job_items"), Drop("vision_category_tags"), Drop("ocr_jobs") >>

\* Revision f4a5b6c7d8e9: indexes on foreign keys, and 85d1654fde0f drops them again.
Indexed ==
    << <<"supplier_products", {"ix_supplier_id", "ix_product_id"}>>,
       <<"purchase_orders", {"ix_supplier_id", "ix_created_by"}>>,
       <<"purchase_order_items", {"ix_po_id", "ix_product_id"}>>,
       <<"goods_receipt_notes", {"ix_po_id", "ix_store_id", "ix_received_by"}>>,
       <<"gst_transactions", {"ix_store_period"}>>,
       <<"loyalty_transactions", {"ix_account_id", "ix_transaction_id"}>>,
       <<"credit_transactions", {"ix_ledger_id", "ix_transaction_id"}>>,
       <<"ocr_job_items", {"ix_job_id", "ix_matched_product_id"}>>,
       <<"vision_category_tags", {"ix_job_id"}>>, <<"ocr_jobs", {"ix_store_id"}>>,
       <<"whatsapp_templates", {"ix_store_id"}>>, <<"whatsapp_message_log", {"ix_store_id"}>>,
       <<"store_group_memberships", {"ix_group_id", "ix_store_id"}>>,
       <<"chain_daily_aggregates", {"ix_group_id", "ix_store_id"}>>,
       <<"inter_store_transfer_suggestions", {"ix_group_id", "ix_from_store", "ix_to_store",
           "ix_product"}>>, <<"business_events", {"ix_store_id"}>>,
       <<"demand_sensing_log", {"ix_store_id", "ix_product_id"}>>,
       <<"event_impact_actuals", {"ix_event_id", "ix_product_id"}>>,
       <<"stock_adjustments", {"ix_product_id", "ix_adjusted_by"}>>,
       <<"stock_audit_items", {"ix_audit_id", "ix_product_id"}>>,
       <<"product_price_history", {"ix_product_id", "ix_store_id", "ix_changed_by"}>> >>
IndexAll == [i \in DOMAIN Indexed |-> Add(Indexed[i][1], Indexed[i][2])]
UnindexAll == [i \in DOMAIN Indexed |-> Lose(Indexed[i][1], Indexed[i][2])]

\* Revision 85d1654fde0f.
AutoUp ==
    UnindexAll \o
    << TypeMissing("customer_gender_enum"), Add("customers", {"gender", "birth_date"}),
       Add("forecast_cache", {"model_type", "training_window_days"}),
       Add("forecast_cache", {"uq_forecast_cache_store_product_date"}) >>
AutoDown ==
    IndexAll \o
    << Lose("forecast_cache", {"uq_forecast_cache_store_product_date"}),
       Lose("forecast_cache", {"training_window_days", "model_type"}),
       Lose("customers", {"birth_date", "gender"}), DropType("customer_gender_enum") >>

\* Revision d6e87a2b9c45.
DeveloperUp ==
    << Create("developers", {"users"}, {}),
       Types({"app_type_enum", "app_tier_enum", "app_status_enum"}),
       Create("developer_applications", {"developers"}, {}),
       Create("api_usage_records", {"developer_applications"}, {}), Types({"webhook_status_enum"}),
       Create("webhook_events", {"developer_applications"}, {}),
       Types({"pricing_model_enum", "security_scan_status_enum", "review_status_enum"}),
       Create("marketplace_apps", {"developer_applications"}, {}) >>
DeveloperDown ==
    << Drop("marketplace_apps"), Drop("webhook_events"), Drop("api_usage_records"),
       Drop("developer_applications"), Drop("developers") >>

\* Revision 0a1b2c3d4e5f.
MarketUp ==
    << Create("data_sources", {}, {}), Create("market_signals", {}, {}),
       Create("price_indices", {}, {}), Create("market_alerts", {}, {}),
       Create("intelligence_reports", {}, {}) >>
MarketDown ==
    << Drop("intelligence_reports"), Drop("market_alerts"), Drop("price_indices"),
       Drop("market_signals"), Drop("data_sources") >>

\* Revision eb7c8d9e0f1a.
RbacUp == << Create("rbac_permissions", {}, Stamps) >>
RbacDown == << Drop("rbac_permissions") >>

\* Revision 7f8e9a0b1c2d.
MfaUp ==
    << Add("users", {"mfa_enabled", "mfa_secret", "last_login_at", "failed_login_attempts",
           "locked_until"}) >>
MfaDown ==
    << Lose("users", {"locked_until", "failed_login_attempts", "last_login_at", "mfa_secret",
           "mfa_enabled"}) >>

\* Revision 121021f2b187: what the models had and no migration created.
StampedShop ==
    { "users", "stores", "categories", "products", "customers", "transactions", "transaction_items",
      "stock_adjustments", "stock_audits", "stock_audit_items", "alerts", "forecast_cache",
      "daily_store_summary", "daily_category_summary", "daily_sku_summary", "suppliers",
      "supplier_products", "purchase_orders", "purchase_order_items", "goods_receipt_notes" }
StampedStaff ==
    { "barcodes", "receipt_templates", "print_jobs", "staff_sessions", "staff_daily_targets",
      "analytics_snapshots", "loyalty_programs", "customer_loyalty_accounts",
      "loyalty_transactions", "credit_ledger", "credit_transactions", "hsn_master",
      "store_gst_config", "gst_transactions", "gst_filing_periods", "whatsapp_config" }
StampedRest ==
    { "whatsapp_templates", "whatsapp_message_log", "store_groups", "store_group_memberships",
      "chain_daily_aggregates", "inter_store_transfer_suggestions", "business_events",
      "demand_sensing_log", "event_impact_actuals", "ocr_jobs", "ocr_job_items",
      "vision_category_tags", "rbac_permissions", "pricing_suggestions", "pricing_rules" }
Stamped == StampedShop \cup StampedStaff \cup StampedRest
WorldTables ==
    << CreateMissing("countries", {}, {}), CreateMissing("supported_currencies", {}, {}),
       CreateMissing("currency_rates", {}, {}), CreateMissing("translation_keys", {}, {}),
       CreateMissing("translations", {"translation_keys"}, {}),
       CreateMissing("loan_products", {}, {"interest_rate_bps", "max_term_days"}),
       CreateMissing("insurance_products", {}, {"category", "premium_monthly", "max_coverage"}),
       CreateMissing("kyc_providers", {"countries"}, {}) >>
TaxTables ==
    << CreateMissing("country_tax_configs", {"countries"}, {}),
       CreateMissing("store_tax_registrations", {"countries", "stores"}, {}),
       CreateMissing("tax_transactions", {"countries", "stores", "transactions"}, {}) >>
AccountTables ==
    << CreateMissing("financial_accounts", {"stores"}, {"account_name", "currency",
           "uq_store_account_type"}),
       CreateMissing("ledger_entries", {"financial_accounts"}, {"transaction_id", "currency",
           "meta_data"}), CreateMissing("merchant_kyc", {"stores"}, {"verification_date"}),
       CreateMissing("merchant_credit_profiles", {"stores"}, {"scoring_version"}) >>
LoanTables ==
    << CreateMissing("loan_applications", {"loan_products", "stores"}, {"product_id",
           "interest_rate_at_origination", "term_days", "applied_at", "disbursement_date"}),
       CreateMissing("loan_repayments", {"loan_applications"}, {"loan_id",
           "ledger_transaction_id"}),
       CreateMissing("insurance_policies", {"insurance_products", "stores"}, {"enrolled_at",
           "expires_at"}),
       CreateMissing("insurance_claims", {"insurance_policies"}, Born \cup {"trigger_type",
           "payout_amount", "paid_at"}),
       CreateMissing("payment_transactions", {"stores", "transactions"}, {"transaction_id",
           "external_id", "payment_method"}),
       CreateMissing("treasury_configs", {"stores"}, {"updated_at"}),
       CreateMissing("treasury_transactions", {"stores"}, {}) >>
PaperTables ==
    << CreateMissing("kyc_records", {"countries", "kyc_providers", "stores", "users"}, {}),
       CreateMissing("e_invoices", {"countries", "stores", "transactions"}, {}) >>
SupplyTables ==
    << CreateMissing("supplier_profiles", {"suppliers"}, {}),
       CreateMissing("marketplace_catalog_items", {"supplier_profiles"}, {}) >>
OrderTables ==
    << CreateMissing("marketplace_purchase_orders", {"loan_applications", "stores",
           "supplier_profiles"}, {}),
       CreateMissing("marketplace_po_items", {"marketplace_catalog_items",
           "marketplace_purchase_orders"}, {}), CreateMissing("marketplace_rfqs", {"stores"}, {}),
       CreateMissing("marketplace_rfq_responses", {"marketplace_rfqs", "supplier_profiles"}, {}),
       CreateMissing("marketplace_procurement_recommendations", {"stores"}, {}),
       CreateMissing("marketplace_supplier_reviews", {"marketplace_purchase_orders", "stores",
           "supplier_profiles"}, {}), CreateMissing("audit_logs", {"users"}, {}) >>
ReconcileUp ==
    << AddMissing(Stamped, Stamps), AddMissing({"alerts"}, {"product_name"}) >>
      \o WorldTables \o TaxTables \o AccountTables \o LoanTables \o PaperTables
      \o SupplyTables \o OrderTables
Reconciled ==
    << "audit_logs", "marketplace_supplier_reviews", "marketplace_procurement_recommendations",
       "marketplace_rfq_responses", "marketplace_rfqs", "marketplace_po_items",
       "marketplace_purchase_orders", "marketplace_catalog_items", "supplier_profiles",
       "e_invoices", "kyc_records", "treasury_transactions", "treasury_configs",
       "payment_transactions", "insurance_claims", "insurance_policies", "loan_repayments",
       "loan_applications", "merchant_credit_profiles", "merchant_kyc", "ledger_entries",
       "financial_accounts", "tax_transactions", "store_tax_registrations", "country_tax_configs",
       "kyc_providers", "insurance_products", "loan_products", "translations", "translation_keys",
       "currency_rates", "supported_currencies", "countries" >>
ReconcileDown ==
    [i \in DOMAIN Reconciled |-> DropPresent(Reconciled[i])]
      \o << LosePresent({"alerts"}, {"product_name"}), LosePresent(Stamped, Stamps) >>

\* Revision d53941401e58.
AmountUp == << Add("transactions", {"total_amount"}) >>
AmountDown == << Lose("transactions", {"total_amount"}) >>

\* Revision 4e4dc5144eb4: keys a drifted database may lack.
ForeignKeyUp ==
    << Ensure("forecast_cache", {"uq_forecast_cache_store_product_date"}),
       ReferMissing("product_price_history", "stores"), ReferMissing("products", "hsn_master"),
       ReferMissing("transactions", "staff_sessions"), ReferMissing("users", "stores") >>
ForeignKeyDown == <<>>

\* Revision ef7d1bae1e6e: the finance tables as the models have them.
FinanceFirst ==
    << TypeMissing("merchant_kyc_status_enum"), Create("forecast_configs", {"stores"}, {}),
       Create("event_regressors", {"forecast_configs"}, {}),
       Add("financial_accounts", {"account_number", "ifsc_code", "bank_name"}),
       Lose("financial_accounts", {"uq_store_account_type"}),
       Lose("financial_accounts", {"account_name", "currency"}),
       Add("insurance_claims", {"claim_amount", "approved_amount", "description"}),
       Fill("insurance_claims", {"submitted_at"}), Add("insurance_claims", {"resolved_at"}),
       Lose("insurance_claims", Born \cup {"paid_at", "trigger_type", "payout_amount"}),
       Add("insurance_policies", {"policy_number", "premium_amount", "coverage_amount",
           "start_date", "end_date"}), Fill("insurance_policies", Born \cup {"is_active"}),
       Add("insurance_policies", {"uq_insurance_policy_number"}),
       Lose("insurance_policies", {"enrolled_at", "expires_at"}),
       Fill("insurance_products", {"product_type"}),
       Add("insurance_products", {"provider", "premium_rate", "coverage_amount"}),
       Fill("insurance_products", Born),
       Lose("insurance_products", {"premium_monthly", "category", "max_coverage"}),
       Fill("ledger_entries", {"balance_after"}),
       Add("ledger_entries", {"reference_id", "reference_type"}),
       Lose("ledger_entries", {"meta_data", "currency", "transaction_id"}),
       Fill("loan_applications", {"loan_product_id", "tenure_days"}),
       Add("loan_applications", {"interest_rate", "purpose", "rejection_reason", "disbursed_at",
           "due_date", "interest_recalculated_at"}), Fill("loan_applications", Born),
       Refer("loan_applications", "loan_products"),
       Lose("loan_applications", {"disbursement_date", "interest_rate_at_origination",
           "term_days", "product_id", "applied_at"}) >>
FinanceSecond ==
    << Fill("loan_products", {"min_tenure_days", "max_tenure_days", "base_interest_rate",
           "processing_fee_pct"}), Add("loan_products", {"eligibility_criteria"}),
       Fill("loan_products", Born), Lose("loan_products", {"interest_rate_bps", "max_term_days"}),
       Fill("loan_repayments", {"loan_application_id"}),
       Add("loan_repayments", {"payment_mode", "reference_number"}),
       Refer("loan_repayments", "loan_applications"),
       Lose("loan_repayments", {"loan_id", "ledger_transaction_id"}),
       Add("merchant_credit_profiles", {"credit_limit", "utilization_pct", "history",
           "last_evaluated_at"}), Fill("merchant_credit_profiles", Born),
       Lose("merchant_credit_profiles", {"scoring_version"}), Fill("merchant_kyc", {"kyc_status"}),
       Add("merchant_kyc", {"verified_at", "documents"}), Fill("merchant_kyc", Born),
       Lose("merchant_kyc", {"verification_date"}), Unrefer("payment_transactions", "transactions"),
       Lose("payment_transactions", {"transaction_id", "external_id", "payment_method"}),
       Fill("payment_transactions", {"currency"}),
       Add("payment_transactions", {"payment_mode", "gateway", "gateway_txn_id", "metadata",
           "transaction_id", "external_id", "payment_method"}),
       Fill("treasury_configs", {"sweep_enabled"}),
       Add("treasury_configs", {"sweep_threshold", "sweep_target_account_id"}),
       Fill("treasury_configs", Born), Refer("treasury_configs", "financial_accounts"),
       Lose("treasury_configs", {"updated_at"}),
       Add("treasury_transactions", {"config_id", "transaction_type"}),
       Fill("treasury_transactions", {"status"}),
       Refer("treasury_transactions", "treasury_configs"), Add("webhook_events", {"last_error"}) >>
FinanceUp == FinanceFirst \o FinanceSecond
FinanceDown == << Lose("webhook_events", {"last_error"}), Raise >>

\* Revision 4b8d10f3c2a1.
ParityUp ==
    << Create("loyalty_tiers", {"loyalty_programs"}, {}),
       Add("customer_loyalty_accounts", {"tier_id"}),
       Refer("customer_loyalty_accounts", "loyalty_tiers"),
       Create("gst_hsn_mappings", {"categories", "hsn_master", "stores"}, {}),
       Create("whatsapp_campaigns", {"stores", "whatsapp_templates"}, {}),
       Create("whatsapp_contact_preferences", {"stores"}, {}) >>
ParityDown ==
    << Drop("whatsapp_contact_preferences"), Drop("whatsapp_campaigns"), Drop("gst_hsn_mappings"),
       Unrefer("customer_loyalty_accounts", "loyalty_tiers"),
       Lose("customer_loyalty_accounts", {"tier_id"}), Drop("loyalty_tiers") >>

(* The chain of revisions.  121021f2b187 names c3d91f2a7b44 as a second parent, *)
(* which is an ancestor of its first one already, so the chain has no branch.    *)
Revisions ==
    << [up |-> InitialUp, down |-> InitialDown], [up |-> BarcodeUp, down |-> BarcodeDown],
       [up |-> SupplierUp, down |-> SupplierDown], [up |-> StaffUp, down |-> StaffDown],
       [up |-> SnapshotUp, down |-> SnapshotDown], [up |-> LoyaltyUp, down |-> LoyaltyDown],
       [up |-> GstUp, down |-> GstDown], [up |-> WhatsappUp, down |-> WhatsappDown],
       [up |-> ChainUp, down |-> ChainDown], [up |-> PricingUp, down |-> PricingDown],
       [up |-> EventUp, down |-> EventDown], [up |-> OcrUp, down |-> OcrDown],
       [up |-> IndexAll, down |-> UnindexAll], [up |-> AutoUp, down |-> AutoDown],
       [up |-> DeveloperUp, down |-> DeveloperDown], [up |-> MarketUp, down |-> MarketDown],
       [up |-> RbacUp, down |-> RbacDown], [up |-> MfaUp, down |-> MfaDown],
       [up |-> ReconcileUp, down |-> ReconcileDown], [up |-> AmountUp, down |-> AmountDown],
       [up |-> ForeignKeyUp, down |-> ForeignKeyDown], [up |-> FinanceUp, down |-> FinanceDown],
       [up |-> ParityUp, down |-> ParityDown] >>

ShopModels ==
    { Model("audit_logs", {"users"}, {}),
      Model("users", {"stores"}, Stamps \cup {"mfa_enabled", "mfa_secret", "last_login_at",
          "failed_login_attempts", "locked_until"}), Model("stores", {"users"}, Stamps),
      Model("categories", {"stores"}, Stamps),
      Model("products", {"categories", "hsn_master", "stores"}, Stamps \cup {"hsn_code",
          "gst_category"}) }

SaleModels ==
    { Model("product_price_history", {"products", "stores", "users"}, {"store_id", "old_price",
          "new_price", "reason"}), Model("pricing_suggestions", {"products", "stores"}, Stamps),
      Model("pricing_rules", {"stores"}, Stamps),
      Model("customers", {"stores"}, Stamps \cup {"gender", "birth_date"}),
      Model("transactions", {"customers", "staff_sessions", "stores", "transactions"}, Stamps
          \cup {"session_id", "total_amount"}),
      Model("transaction_items", {"products", "transactions"}, Stamps) }

StockModels ==
    { Model("stock_adjustments", {"products", "users"}, Stamps),
      Model("stock_audits", {"stores", "users"}, Stamps),
      Model("stock_audit_items", {"products", "stock_audits"}, Stamps),
      Model("alerts", {"products", "stores"}, Stamps \cup {"product_name"}),
      Model("forecast_cache", {"products", "stores"}, Stamps
          \cup {"uq_forecast_cache_store_product_date", "model_type", "training_window_days"}),
      Model("daily_store_summary", {}, Stamps), Model("daily_category_summary", {}, Stamps),
      Model("daily_sku_summary", {}, Stamps) }

SupplyModels ==
    { Model("suppliers", {"stores"}, Stamps),
      Model("supplier_products", {"products", "suppliers"}, Stamps),
      Model("purchase_orders", {"stores", "suppliers", "users"}, Stamps),
      Model("purchase_order_items", {"products", "purchase_orders"}, Stamps),
      Model("goods_receipt_notes", {"purchase_orders", "stores", "users"}, Stamps),
      Model("barcodes", {"products", "stores"}, Stamps),
      Model("receipt_templates", {"stores"}, Stamps),
      Model("print_jobs", {"stores", "transactions"}, Stamps),
      Model("staff_sessions", {"stores", "users"}, Stamps),
      Model("staff_daily_targets", {"stores", "users"}, Stamps) }

LoyaltyModels ==
    { Model("analytics_snapshots", {"stores"}, Stamps),
      Model("loyalty_programs", {"stores"}, Stamps),
      Model("loyalty_tiers", {"loyalty_programs"}, {}),
      Model("customer_loyalty_accounts", {"customers", "loyalty_tiers", "stores"}, Stamps
          \cup {"tier_id"}),
      Model("loyalty_transactions", {"customer_loyalty_accounts", "transactions"}, Stamps),
      Model("credit_ledger", {"customers", "stores"}, Stamps),
      Model("credit_transactions", {"credit_ledger", "transactions"}, Stamps) }

TaxAndMessageModels ==
    { Model("hsn_master", {}, Stamps), Model("store_gst_config", {"stores"}, Stamps),
      Model("gst_transactions", {"stores", "transactions"}, Stamps),
      Model("gst_filing_periods", {"stores"}, Stamps),
      Model("gst_hsn_mappings", {"categories", "hsn_master", "stores"}, {}),
      Model("whatsapp_config", {"stores"}, Stamps), Model("whatsapp_templates", {"stores"}, Stamps),
      Model("whatsapp_message_log", {"stores"}, Stamps),
      Model("whatsapp_campaigns", {"stores", "whatsapp_templates"}, {}),
      Model("whatsapp_contact_preferences", {"stores"}, {}) }

ChainAndVisionModels ==
    { Model("store_groups", {"users"}, Stamps),
      Model("store_group_memberships", {"store_groups", "stores", "users"}, Stamps),
      Model("chain_daily_aggregates", {"store_groups", "stores"}, Stamps),
      Model("inter_store_transfer_suggestions", {"products", "store_groups", "stores"}, Stamps),
      Model("business_events", {"stores"}, Stamps),
      Model("demand_sensing_log", {"products", "stores"}, Stamps),
      Model("event_impact_actuals", {"business_events", "products"}, Stamps),
      Model("forecast_configs", {"stores"}, {}),
      Model("event_regressors", {"forecast_configs"}, {}), Model("ocr_jobs", {"stores"}, Stamps),
      Model("ocr_job_items", {"ocr_jobs", "products"}, Stamps),
      Model("vision_category_tags", {"ocr_jobs"}, Stamps), Model("rbac_permissions", {}, Stamps) }

WorldModels ==
    { Model("countries", {}, {}), Model("currency_rates", {}, {}),
      Model("supported_currencies", {}, {}), Model("country_tax_configs", {"countries"}, {}),
      Model("store_tax_registrations", {"countries", "stores"}, {}),
      Model("tax_transactions", {"countries", "stores", "transactions"}, {}) }

PaperModels ==
    { Model("kyc_providers", {"countries"}, {}),
      Model("kyc_records", {"countries", "kyc_providers", "stores", "users"}, {}),
      Model("e_invoices", {"countries", "stores", "transactions"}, {}),
      Model("translation_keys", {}, {}), Model("translations", {"translation_keys"}, {}) }

LoanModels ==
    { Model("merchant_credit_profiles", {"stores"}, Born \cup {"credit_limit",
          "utilization_pct", "history", "last_evaluated_at"}),
      Model("loan_products", {}, Born \cup {"min_tenure_days", "max_tenure_days",
          "base_interest_rate", "processing_fee_pct", "eligibility_criteria"}),
      Model("loan_applications", {"loan_products", "stores"}, Born \cup {"loan_product_id",
          "tenure_days", "interest_rate", "purpose", "rejection_reason", "disbursed_at",
          "due_date", "interest_recalculated_at"}),
      Model("loan_repayments", {"loan_applications"}, {"loan_application_id", "payment_mode",
          "reference_number"}),
      Model("financial_accounts", {"stores"}, {"account_number", "ifsc_code", "bank_name"}),
      Model("ledger_entries", {"financial_accounts"}, {"balance_after", "reference_id",
          "reference_type"}) }

TreasuryModels ==
    { Model("payment_transactions", {"stores"}, {"currency", "payment_mode", "gateway",
          "gateway_txn_id", "metadata", "transaction_id", "external_id", "payment_method"}),
      Model("treasury_configs", {"financial_accounts", "stores"}, Born \cup {"sweep_enabled",
          "sweep_threshold", "sweep_target_account_id"}),
      Model("treasury_transactions", {"stores", "treasury_configs"}, {"config_id",
          "transaction_type", "status"}),
      Model("insurance_products", {}, Born \cup {"product_type", "provider", "premium_rate",
          "coverage_amount"}),
      Model("insurance_policies", {"insurance_products", "stores"}, Born \cup {"policy_number",
          "premium_amount", "coverage_amount", "start_date", "end_date", "is_active"}),
      Model("insurance_claims", {"insurance_policies"}, {"claim_amount", "approved_amount",
          "description", "submitted_at", "resolved_at"}),
      Model("merchant_kyc", {"stores"}, Born \cup {"kyc_status", "verified_at", "documents"}) }

OrderModels ==
    { Model("supplier_profiles", {"suppliers"}, {}),
      Model("marketplace_catalog_items", {"supplier_profiles"}, {}),
      Model("marketplace_purchase_orders", {"loan_applications", "stores", "supplier_profiles"},
          {}),
      Model("marketplace_po_items", {"marketplace_catalog_items", "marketplace_purchase_orders"},
          {}) }

RfqModels ==
    { Model("marketplace_rfqs", {"stores"}, {}),
      Model("marketplace_rfq_responses", {"marketplace_rfqs", "supplier_profiles"}, {}),
      Model("marketplace_procurement_recommendations", {"stores"}, {}),
      Model("marketplace_supplier_reviews", {"marketplace_purchase_orders", "stores",
          "supplier_profiles"}, {}) }

DeveloperModels ==
    { Model("developers", {"users"}, {}), Model("developer_applications", {"developers"}, {}),
      Model("marketplace_apps", {"developer_applications"}, {}),
      Model("api_usage_records", {"developer_applications"}, {}),
      Model("webhook_events", {"developer_applications"}, {"last_error"}),
      Model("data_sources", {}, {}), Model("market_signals", {}, {}),
      Model("price_indices", {}, {}), Model("market_alerts", {}, {}),
      Model("intelligence_reports", {}, {}) }

(* Base.metadata: every table the program maps. *)
Models == ShopModels \cup SaleModels \cup StockModels \cup SupplyModels \cup LoyaltyModels
          \cup TaxAndMessageModels \cup ChainAndVisionModels
          \cup WorldModels \cup PaperModels \cup LoanModels \cup TreasuryModels \cup OrderModels \cup RfqModels \cup DeveloperModels
=============================================================================
